----------------------------- MODULE LinkedList -----------------------------
(***************************************************************************)
(* details::list, a doubly linked list. A node is its address; what it     *)
(* carries never changes and is left out. One iterator walks the lists and *)
(* erases; it is never kept at a node that goes in another way.            *)
(* Beside some definitions stands a form of them with a mistake, which no  *)
(* action uses: a property has to tell the two apart.                      *)
(***************************************************************************)
EXTENDS Integers, Sequences, FiniteSets

CONSTANTS
    Nodes,       \* the addresses of nodes, which are numbers
    Lists,
    Nil,         \* nullptr
    MaxSize      \* size_ stays below it, which bounds how often lists are cleared

VARIABLES
    prev_, next_,            \* of every node; Nil where there is no node
    front_, back_, size_,    \* of every list
    node_                    \* the iterator

vars == <<prev_, next_, front_, back_, size_, node_>>

Init ==
    /\ prev_ = [n \in Nodes |-> Nil] /\ next_ = [n \in Nodes |-> Nil]
    /\ front_ = [l \in Lists |-> Nil] /\ back_ = [l \in Lists |-> Nil]
    /\ size_ = [l \in Lists |-> 0]
    /\ node_ = Nil

\* The nodes a walk along next_ passes, from n on; it is cut off where it would
\* pass more nodes than there are.
From(n) ==
    LET walk[k \in 0 .. Cardinality(Nodes)] ==
            IF k = 0 THEN IF n = Nil THEN <<>> ELSE <<n>>
            ELSE LET w == walk[k - 1]
                 IN  IF w = <<>> \/ next_[w[Len(w)]] = Nil THEN w ELSE Append(w, next_[w[Len(w)]])
    IN  walk[Cardinality(Nodes)]

\* The nodes of a list; which of the other addresses new returns makes no
\* difference.
NodesOf(l) == {From(front_[l])[i] : i \in DOMAIN From(front_[l])}
Free == Nodes \ UNION {NodesOf(l) : l \in Lists}
NewNode == CHOOSE n \in Free : \A m \in Free : n =< m

-----------------------------------------------------------------------------
PushBack(l) ==
    /\ Free # {} /\ size_[l] < MaxSize
    /\ IF front_[l] # Nil
       THEN /\ prev_' = [prev_ EXCEPT ![NewNode] = back_[l]]
            /\ next_' = [next_ EXCEPT ![back_[l]] = NewNode]
            /\ UNCHANGED front_
       ELSE /\ front_' = [front_ EXCEPT ![l] = NewNode]
            /\ UNCHANGED <<prev_, next_>>
    /\ back_' = [back_ EXCEPT ![l] = NewNode]
    /\ size_' = [size_ EXCEPT ![l] = @ + 1]
    /\ UNCHANGED node_

PushFront(l) ==
    /\ Free # {} /\ size_[l] < MaxSize
    /\ IF front_[l] # Nil
       THEN /\ next_' = [next_ EXCEPT ![NewNode] = front_[l]]
            /\ prev_' = [prev_ EXCEPT ![front_[l]] = NewNode]
            /\ UNCHANGED back_
       ELSE /\ back_' = [back_ EXCEPT ![l] = NewNode]
            /\ UNCHANGED <<prev_, next_>>
    /\ front_' = [front_ EXCEPT ![l] = NewNode]
    /\ size_' = [size_ EXCEPT ![l] = @ + 1]
    /\ UNCHANGED node_

\* cerase() of the iterator: its neighbours are joined, and the ends of the list
\* move off it; delete.
Joined(n, f, from, to) ==
    [m \in Nodes |-> IF m = n THEN Nil ELSE IF m = from /\ from # Nil THEN to ELSE f[m]]
BackKept(l, n) == back_[l]
BackWithout(l, n) == IF n = back_[l] THEN prev_[n] ELSE back_[l]
FrontWithout(l, n) == IF n = front_[l] THEN next_[n] ELSE front_[l]

CErase(l, n) ==
    /\ next_' = Joined(n, next_, prev_[n], next_[n])
    /\ prev_' = Joined(n, prev_, next_[n], prev_[n])
    /\ back_' = [back_ EXCEPT ![l] = BackWithout(l, n)]
    /\ front_' = [front_ EXCEPT ![l] = FrontWithout(l, n)]
    /\ size_' = [size_ EXCEPT ![l] = @ - 1]

Erase(l) == node_ \in NodesOf(l) /\ CErase(l, node_) /\ node_' = next_[node_]
RErase(l) == node_ \in NodesOf(l) /\ CErase(l, node_) /\ node_' = prev_[node_]

\* begin(), rbegin(), ++ and -- of the iterator.
Begin(l) == node_' = front_[l] /\ UNCHANGED <<prev_, next_, front_, back_, size_>>
RBegin(l) == node_' = back_[l] /\ UNCHANGED <<prev_, next_, front_, back_, size_>>
Increment ==
    /\ node_ # Nil /\ node_' = next_[node_]
    /\ UNCHANGED <<prev_, next_, front_, back_, size_>>
Decrement ==
    /\ node_ # Nil /\ node_' = prev_[node_]
    /\ UNCHANGED <<prev_, next_, front_, back_, size_>>

\* splice_back(other).
SpliceBack(l, other) ==
    /\ l # other /\ size_[l] + size_[other] =< MaxSize
    /\ IF front_[l] # Nil /\ front_[other] # Nil
       THEN /\ next_' = [next_ EXCEPT ![back_[l]] = front_[other]]
            /\ prev_' = [prev_ EXCEPT ![front_[other]] = back_[l]]
       ELSE UNCHANGED <<prev_, next_>>
    /\ front_' = [front_ EXCEPT ![l] = IF @ = Nil THEN front_[other] ELSE @, ![other] = Nil]
    /\ back_' = [back_ EXCEPT ![l] = IF front_[l] = Nil \/ front_[other] # Nil
                                     THEN back_[other] ELSE @,
                              ![other] = Nil]
    /\ size_' = [size_ EXCEPT ![l] = @ + size_[other], ![other] = 0]
    /\ UNCHANGED node_

Swap(l, other) ==
    /\ front_' = [front_ EXCEPT ![l] = front_[other], ![other] = front_[l]]
    /\ back_' = [back_ EXCEPT ![l] = back_[other], ![other] = back_[l]]
    /\ size_' = [size_ EXCEPT ![l] = size_[other], ![other] = size_[l]]
    /\ UNCHANGED <<prev_, next_, node_>>

\* clear() deletes the nodes and leaves size_ as it is.
Clear(l) ==
    /\ prev_' = [n \in Nodes |-> IF n \in NodesOf(l) THEN Nil ELSE prev_[n]]
    /\ next_' = [n \in Nodes |-> IF n \in NodesOf(l) THEN Nil ELSE next_[n]]
    /\ front_' = [front_ EXCEPT ![l] = Nil]
    /\ back_' = [back_ EXCEPT ![l] = Nil]
    /\ node_' = IF node_ \in NodesOf(l) THEN Nil ELSE node_
    /\ UNCHANGED size_

Next ==
    \/ \E l \in Lists :
         PushBack(l) \/ PushFront(l) \/ Erase(l) \/ RErase(l) \/ Begin(l) \/ RBegin(l) \/ Clear(l)
    \/ Increment \/ Decrement
    \/ \E l, other \in Lists : SpliceBack(l, other) \/ Swap(l, other)

Spec == Init /\ [][Next]_vars

-----------------------------------------------------------------------------
(***************************************************************************)
(* The links are sequences (NodeSequences): whatever history of pushes,    *)
(* erases at either end or between, splices and swaps built them, a list   *)
(* has the nodes it should in their order, an iterator finds the same      *)
(* neighbours backwards along prev_ as forwards along next_, and size_ is  *)
(* off by what clear() dropped and by nothing else (list.h:204).           *)
(***************************************************************************)
Sequence ==
    INSTANCE NodeSequences
        WITH seqs <- [l \in Lists |-> From(front_[l])], at <- node_, count <- size_
ImplementsSequences == Sequence!Spec
=============================================================================
