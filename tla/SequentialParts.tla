-------------------------- MODULE SequentialParts --------------------------
(***************************************************************************)
(* The parts that no other part uses, side by side: a behaviour is one of  *)
(* Trie, Subscriptions, Sizepack, Text, LinkedList, Layers or Subsystems,  *)
(* the other six stay as they begin, so the states of the parts add up.    *)
(***************************************************************************)
EXTENDS Trie

CONSTANTS Plain, Scoped, MaxIds, Nothing
VARIABLES list_, id_, alive, plain, scoped, guarded, told
Handles == INSTANCE Subscriptions
ofHandles == <<list_, id_, alive, plain, scoped, guarded, told>>

CONSTANTS Sizes, MaxSent, Width
VARIABLES format, sent, wire, buffer, read
Packed == INSTANCE Sizepack
\* Every size is one of the 64-bit type of the formats, and of size_type of fixint.
ASSUME SizesAssumption == Packed!SizesFit
ofPacked == <<format, sent, wire, buffer, read>>

CONSTANTS CodePoints, MaxLength
VARIABLES text, bytes
Encoded == INSTANCE Text
\* Every code point is one that UTF-8 has bytes for.
ASSUME CodePointsAssumption == Encoded!Encodable
ofEncoded == <<text, bytes>>

CONSTANTS Addresses, Links, Nil, MaxSize
VARIABLES prev_, next_, front_, back_, size_, node_
Linked == INSTANCE LinkedList WITH Nodes <- Addresses, Lists <- Links
ofLinked == <<prev_, next_, front_, back_, size_, node_>>

CONSTANTS Simple, Lists
VARIABLES upper_, lower_, layers_, late
Layered == INSTANCE Layers WITH list_ <- layers_
ofLayered == <<upper_, lower_, layers_, late>>

CONSTANTS Threads, Types, Outer, Inner, MaxAdded, MaxDepth, Functions, Missing
VARIABLES ifaces_, ifaces_order_, frames, added, inited, since
Started == INSTANCE Subsystems
ofStarted == <<ifaces_, ifaces_order_, frames, added, inited, since>>

VARIABLE part
vars == <<trie, ofHandles, ofPacked, ofEncoded, ofLinked, ofLayered, ofStarted, part>>

Parts == {"trie", "handles", "packed", "encoded", "linked", "layered", "started"}

\* Every part as it begins. The packed one begins with any of the formats if it is to run.
AllInit ==
    /\ Init /\ Handles!Init /\ Encoded!Init /\ Linked!Init /\ Layered!Init /\ Started!Init
    /\ Packed!Init /\ (part # "packed" => format = "varint")
PartsInit == part \in Parts /\ AllInit

PartsNext ==
    /\ \/ /\ part = "trie" /\ Next
          /\ UNCHANGED <<ofHandles, ofPacked, ofEncoded, ofLinked, ofLayered, ofStarted>>
       \/ /\ part = "handles" /\ Handles!Next
          /\ UNCHANGED <<trie, ofPacked, ofEncoded, ofLinked, ofLayered, ofStarted>>
       \/ /\ part = "packed" /\ Packed!Next
          /\ UNCHANGED <<trie, ofHandles, ofEncoded, ofLinked, ofLayered, ofStarted>>
       \/ /\ part = "encoded" /\ Encoded!Next
          /\ UNCHANGED <<trie, ofHandles, ofPacked, ofLinked, ofLayered, ofStarted>>
       \/ /\ part = "linked" /\ Linked!Next
          /\ UNCHANGED <<trie, ofHandles, ofPacked, ofEncoded, ofLayered, ofStarted>>
       \/ /\ part = "layered" /\ Layered!Next
          /\ UNCHANGED <<trie, ofHandles, ofPacked, ofEncoded, ofLinked, ofStarted>>
       \/ /\ part = "started" /\ Started!Next
          /\ UNCHANGED <<trie, ofHandles, ofPacked, ofEncoded, ofLinked, ofLayered>>
    /\ UNCHANGED part

PartsSpec == PartsInit /\ [][PartsNext]_vars

-----------------------------------------------------------------------------
\* Each property is looked at in the behaviours of its own part; those of the trie
\* (NoDeadNode, LookupExact, ImplementsMap) in all, for it stays empty in the others.

\* A slot is subscribed until its own unsubscriber is run and no longer, and the slots
\* that scoped handles took and did not release have a scoped handle as long as they
\* are subscribed (Subscriptions).
HandlesKeepSlots == part = "handles" => Handles!Inductive

\* Sizes packed one after the other are read in that order, however the bytes
\* arrive (Sizepack).
ReadInOrder == part = "packed" => Packed!ReadInOrder

\* Lengths announced, packed and found again agree, and so do the ways to unpack and
\* those of byte_order, exactly where Sizepack says that they do.
OverloadsAgree == part = "packed" => Packed!OverloadsAgree

\* Any part of a text in UTF-8 gives the code points that are in it, and its bytes
\* survive hexadecimal digits (Text).
ReadsBack == part = "encoded" => Encoded!ReadsBack

\* Lists linked in both directions are sequences, which one iterator walks and
\* erases from (LinkedList).
ImplementsSequences ==
    /\ Linked!Sequence!Init
    /\ [][part = "linked" => [Linked!Sequence!Next]_(Linked!Sequence!vars)]_vars

\* Messages go through every layer of a column in order, and back (Layers).
MessagesPass == part = "layered" => Layered!MessagesPass

\* A subsystem is initialised, or somebody is on the way to it (Subsystems).
NoneLeftOut == part = "started" => Started!NoneLeftOut
=============================================================================
