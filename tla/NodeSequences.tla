---------------------------- MODULE NodeSequences ----------------------------
(***************************************************************************)
(* What details::list promises: lists that are sequences of nodes, which   *)
(* one iterator walks in both directions and erases from, each with a count*)
(* that size() returns. The count is the length of the sequence until the  *)
(* first clear(), which does not touch it.                                 *)
(***************************************************************************)
EXTENDS Integers, Sequences

CONSTANTS Nodes, Lists, Nil

VARIABLES seqs, at, count

vars == <<seqs, at, count>>

Members(l) == {seqs[l][i] : i \in DOMAIN seqs[l]}
Place(l, n) == CHOOSE i \in DOMAIN seqs[l] : seqs[l][i] = n
Neighbour(l, n, step) ==
    LET i == Place(l, n) + step IN IF i \in DOMAIN seqs[l] THEN seqs[l][i] ELSE Nil
Without(s, i) == [j \in 1 .. Len(s) - 1 |-> IF j < i THEN s[j] ELSE s[j + 1]]
Fresh == Nodes \ UNION {Members(l) : l \in Lists}

Init ==
    /\ seqs = [l \in Lists |-> <<>>]
    /\ at = Nil
    /\ count = [l \in Lists |-> 0]

Push(l) ==
    /\ \E n \in Fresh : seqs' \in {[seqs EXCEPT ![l] = Append(@, n)], [seqs EXCEPT ![l] = <<n>> \o @]}
    /\ count' = [count EXCEPT ![l] = @ + 1]
    /\ UNCHANGED at

\* The iterator is put at an end of a list, or moves, also off the list.
Start(l) ==
    /\ at' \in IF seqs[l] = <<>> THEN {Nil} ELSE {seqs[l][1], seqs[l][Len(seqs[l])]}
    /\ UNCHANGED <<seqs, count>>
Move(l) ==
    /\ at \in Members(l)
    /\ \E step \in {1, -1} : at' = Neighbour(l, at, step)
    /\ UNCHANGED <<seqs, count>>

\* The node at the iterator goes, and the iterator moves as it would have.
Erase(l) ==
    /\ at \in Members(l)
    /\ \E step \in {1, -1} : at' = Neighbour(l, at, step)
    /\ seqs' = [seqs EXCEPT ![l] = Without(@, Place(l, at))]
    /\ count' = [count EXCEPT ![l] = @ - 1]

Splice(l, m) ==
    /\ l # m
    /\ seqs' = [seqs EXCEPT ![l] = @ \o seqs[m], ![m] = <<>>]
    /\ count' = [count EXCEPT ![l] = @ + count[m], ![m] = 0]
    /\ UNCHANGED at

Swap(l, m) ==
    /\ seqs' = [seqs EXCEPT ![l] = seqs[m], ![m] = seqs[l]]
    /\ count' = [count EXCEPT ![l] = count[m], ![m] = count[l]]
    /\ UNCHANGED at

\* Nobody keeps an iterator at a node that goes.
Clear(l) ==
    /\ seqs' = [seqs EXCEPT ![l] = <<>>]
    /\ at' = IF at \in Members(l) THEN Nil ELSE at
    /\ UNCHANGED count

Next ==
    \/ \E l \in Lists : Push(l) \/ Start(l) \/ Move(l) \/ Erase(l) \/ Clear(l)
    \/ \E l, m \in Lists : Splice(l, m) \/ Swap(l, m)

Spec == Init /\ [][Next]_vars
=============================================================================
