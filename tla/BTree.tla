-------------------------------- MODULE BTree --------------------------------
(***************************************************************************)
(* The B-tree of drafts/trees/btree. A node is a record of two dyn_arrays, *)
(* the values and the children, none in a leaf; an array is the sequence of*)
(* its first fill_ elements, the first at 1. The pointers to the parents   *)
(* are left out: only the two siblings' functions read them, which nothing *)
(* calls.                                                                  *)
(* Beside some definitions stands a form of them with a mistake, which no  *)
(* action uses: a property has to tell the two apart.                      *)
(***************************************************************************)
EXTENDS Integers, Sequences

CONSTANTS
    NodeMax,      \* odd and greater than 2
    Vals          \* the values, which are numbers

VARIABLES
    root_,
    stored,       \* history: the values inserted and not erased
    erased        \* history: something was erased

vars == <<root_, stored, erased>>

-----------------------------------------------------------------------------
\* dyn_array: emplace() and insert() move what follows up, erase() down, reduce()
\* drops the last ones, assign() and assign_move() copy a range.
Emplace(a, pos, v) == SubSeq(a, 1, pos - 1) \o <<v>> \o SubSeq(a, pos, Len(a))
EraseAt(a, pos) == SubSeq(a, 1, pos - 1) \o SubSeq(a, pos + 1, Len(a))
Reduce(a, n) == SubSeq(a, 1, Len(a) - n)
Assign(a, from) == SubSeq(a, from, Len(a))

\* lower_bound(): the first position whose value is not less.
LowerBound(a, v) ==
    LET search[next, length \in 0 .. Len(a)] ==
            LET middle == next + ((length - next) \div 2)
            IN  IF next >= length THEN next
                ELSE IF a[middle + 1] < v THEN search[middle + 1, length] ELSE search[next, middle]
    IN  search[0, Len(a)] + 1

-----------------------------------------------------------------------------
IsLeaf(n) == n.next = <<>>
Full(n) == Len(n.values) = NodeMax
Middle == NodeMax \div 2
At(n, v) == LowerBound(n.values, v)
Has(n, v) == At(n, v) =< Len(n.values) /\ n.values[At(n, v)] = v

\* split(): the source keeps what is left of the middle, the right one gets what
\* is right of it.
LeftHalf(n) ==
    [values |-> Reduce(n.values, Middle + 1),
     next |-> IF IsLeaf(n) THEN <<>> ELSE Reduce(n.next, Middle + 1)]
RightHalfWithMiddle(n) ==
    [values |-> Assign(n.values, Middle + 1),
     next |-> IF IsLeaf(n) THEN <<>> ELSE Assign(n.next, Middle + 2)]
RightHalf(n) ==
    [values |-> Assign(n.values, Middle + 2),
     next |-> IF IsLeaf(n) THEN <<>> ELSE Assign(n.next, Middle + 2)]
MiddleOf(n) == n.values[Middle + 1]

\* bnode::insert(): a child that is full afterwards is split, and its middle value
\* comes up.
WithChild(n, p, child) ==
    IF ~Full(child) THEN [n EXCEPT !.next[p] = child]
    ELSE [values |-> Emplace(n.values, p, MiddleOf(child)),
          next |-> Emplace([n.next EXCEPT ![p] = LeftHalf(child)], p + 1, RightHalf(child))]

RECURSIVE InsertIn(_, _)
InsertIn(n, v) ==
    IF Has(n, v) THEN n
    ELSE IF IsLeaf(n) THEN [n EXCEPT !.values = Emplace(@, At(n, v), v)]
    ELSE WithChild(n, At(n, v), InsertIn(n.next[At(n, v)], v))

\* node_with()
RECURSIVE Finds(_, _)
Finds(n, v) == Has(n, v) \/ (~IsLeaf(n) /\ Finds(n.next[At(n, v)], v))

\* bnode::erase(): a value of an inner node is replaced by the first one of the
\* child to its right.
RECURSIVE EraseIn(_, _)
EraseIn(n, v) ==
    LET p == At(n, v)
    IN  IF ~Has(n, v) THEN IF IsLeaf(n) THEN n ELSE [n EXCEPT !.next[p] = EraseIn(@, v)]
        ELSE IF IsLeaf(n) THEN [n EXCEPT !.values = EraseAt(@, p)]
        ELSE [values |-> [n.values EXCEPT ![p] = n.next[p + 1].values[1]],
              next |-> [n.next EXCEPT ![p + 1].values = EraseAt(@, 1)]]

\* The code takes that value also if the child is not a leaf, whose children are
\* then one too many, and if it is empty, when fill_ wraps around. Neither is
\* looked at here.
RECURSIVE CanErase(_, _)
CanErase(n, v) ==
    LET p == At(n, v)
    IN  IF Has(n, v) THEN ~IsLeaf(n) => IsLeaf(n.next[p + 1]) /\ n.next[p + 1].values # <<>>
        ELSE ~IsLeaf(n) => CanErase(n.next[p], v)

-----------------------------------------------------------------------------
Init == root_ = [values |-> <<>>, next |-> <<>>] /\ stored = {} /\ erased = FALSE

\* btree::insert(): a root that is full is split under a new one.
Grown(n) ==
    IF ~Full(n) THEN n
    ELSE [values |-> <<MiddleOf(n)>>, next |-> <<LeftHalf(n), RightHalf(n)>>]
Insert(v) ==
    /\ root_' = Grown(InsertIn(root_, v))
    /\ stored' = stored \cup {v}
    /\ UNCHANGED erased

Erase(v) ==
    /\ CanErase(root_, v)
    /\ root_' = EraseIn(root_, v)
    /\ stored' = stored \ {v}
    /\ erased' = (erased \/ v \in stored)

Next == \E v \in Vals : Insert(v) \/ Erase(v)

Spec == Init /\ [][Next]_vars

-----------------------------------------------------------------------------
RECURSIVE InOrder(_)
InOrder(n) ==
    LET from[i \in 1 .. Len(n.values) + 1] ==
            (IF IsLeaf(n) THEN <<>> ELSE InOrder(n.next[i]))
            \o (IF i =< Len(n.values) THEN <<n.values[i]>> \o from[i + 1] ELSE <<>>)
    IN  from[1]

RECURSIVE Depths(_)
Depths(n) ==
    IF IsLeaf(n) THEN {1} ELSE {d + 1 : d \in UNION {Depths(n.next[i]) : i \in DOMAIN n.next}}

RECURSIVE Filled(_, _)
Filled(n, least) ==
    /\ least =< Len(n.values) /\ Len(n.values) < NodeMax
    /\ ~IsLeaf(n) => /\ Len(n.next) = Len(n.values) + 1
                     /\ \A i \in DOMAIN n.next : Filled(n.next[i], IF erased THEN 0 ELSE Middle)

(***************************************************************************)
(* However often nodes were split, also several at once up to a new root   *)
(* (main.cpp:129, 240), the tree has the values that were inserted and not *)
(* erased, in order, each once; node_with() finds them and no others; all  *)
(* leaves are at one depth, no node stays full, and as long as nothing was *)
(* erased every node but the root is at least half full.                   *)
(***************************************************************************)
SearchTree ==
    /\ LET s == InOrder(root_)
       IN  /\ \A i \in 1 .. Len(s) - 1 : s[i] < s[i + 1]
           /\ {s[i] : i \in DOMAIN s} = stored
    /\ \A v \in Vals : Finds(root_, v) <=> v \in stored
    /\ \E d \in 1 .. Len(InOrder(root_)) + 1 : Depths(root_) = {d}
    /\ Filled(root_, 0)
=============================================================================
