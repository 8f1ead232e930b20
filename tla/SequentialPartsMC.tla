-------------------------- MODULE SequentialPartsMC --------------------------
(***************************************************************************)
(* SequentialParts with a small instance of each part, and BTree as one    *)
(* more of them.                                                           *)
(***************************************************************************)
EXTENDS SequentialParts, TrieMC

CONSTANTS NodeMax, Vals
VARIABLES root_, stored, erased
Searched == INSTANCE BTree
ofSearched == <<root_, stored, erased>>

\* Both sides of every boundary of the three formats of sizes, and of UTF-8.
MCSizes == {0, 127, 128, 252, 253, 255, 256, 16383, 16384, 65535, 65536, 16777216, 268435455,
            268435456}
MCCodePoints == {0, 63, 127, 128, 2047, 2048, 65535, 65536, 2097151, 2097152, 67108863, 67108864,
                 2147483647}
MCVals == 1 .. 7

AllPartsInit ==
    /\ part \in Parts \cup {"searched"} /\ AllInit /\ Searched!Init

AllPartsNext ==
    \/ PartsNext /\ UNCHANGED ofSearched
    \/ part = "searched" /\ Searched!Next /\ UNCHANGED vars

AllPartsSpec == AllPartsInit /\ [][AllPartsNext]_<<vars, ofSearched>>

-----------------------------------------------------------------------------
\* The tree has what was inserted and not erased, in order, and is balanced
\* (BTree).
SearchTree == part = "searched" => Searched!SearchTree
=============================================================================
