-------------------------------- MODULE Trie --------------------------------
(***************************************************************************)
(* trees::trie::base over nodes::array or nodes::map. A node is the path   *)
(* of keys that leads to it, <<>> the root; trie maps the nodes there are  *)
(* to their values. Keys that the comparator does not tell apart (Class    *)
(* maps them to one) are one key: a node keeps the form it came with,      *)
(* which nothing reads.                                                    *)
(* Beside some definitions stands a form of them with a mistake, which no  *)
(* action uses: a property has to tell the two apart.                      *)
(***************************************************************************)
EXTENDS Integers, Sequences, FiniteSets, FiniteSetsExt

CONSTANTS
    Letters,
    Class,       \* the letter each letter is equal to under Comp
    Values,
    Default,     \* value_type(), one of Values
    Null,        \* value() of a node that has none
    MaxKey,      \* the length of the keys stored
    MaxText      \* the length of the texts looked up and erased

ASSUME ConstantsAssumption ==
    /\ Class \in [Letters -> Letters]
    /\ \A l \in Letters : Class[Class[l]] = Class[l]
    /\ Default \in Values /\ Null \notin Values
    /\ MaxKey \in Nat /\ MaxText \in Nat

VARIABLE trie

Strings(n) == UNION {[1 .. k -> Letters] : k \in 0 .. n}
Nodes == DOMAIN trie
Path(s) == [i \in DOMAIN s |-> Class[s[i]]]
Prefix(s, n) == SubSeq(s, 1, n)
Leads(p, q) == Len(p) =< Len(q) /\ Prefix(q, Len(p)) = p

(***************************************************************************)
(* The loop every operation begins with: get() of a key at a time, down to *)
(* the first node that is missing; how many keys of s it passes.           *)
(***************************************************************************)
Walk(s) == Max({n \in 0 .. Len(s) : \A m \in 0 .. n : Prefix(Path(s), m) \in Nodes})

\* get_set_node(): set() enters a node without a value where one is missing.
WithPath(s) ==
    [p \in Nodes \cup {Prefix(Path(s), n) : n \in 0 .. Len(s)} |->
        IF p \in Nodes THEN trie[p] ELSE Null]

\* get(): how many keys of s are matched, 0 for the empty result. The root is
\* never looked at.
FoundWhereItEnds(s, greedy) ==
    IF trie[Prefix(Path(s), Walk(s))] # Null THEN Walk(s) ELSE 0
Found(s, greedy) ==
    LET valued == {n \in 1 .. Walk(s) : trie[Prefix(Path(s), n)] # Null}
    IN  IF valued = {} THEN 0 ELSE IF greedy THEN Max(valued) ELSE Min(valued)

-----------------------------------------------------------------------------
\* The loop of erase() from the deepest node of the walk to the root: it goes on
\* while the node has neither children nor a value.
Descendants(t, p) == {q \in DOMAIN t : q # p /\ Leads(p, q)}
PrunedOnlyDeepest(t, p) == IF p # <<>> /\ t[p] = Null /\ Descendants(t, p) = {} THEN {p} ELSE {}
PrunedThroughValues(t, p) ==
    {Prefix(p, n) : n \in {n \in 1 .. Len(p) :
        t[p] = Null /\ \A q \in Descendants(t, Prefix(p, n)) : Leads(q, p)}}
Pruned(t, p) ==
    {Prefix(p, n) : n \in {n \in 1 .. Len(p) :
        /\ \A m \in n .. Len(p) : t[Prefix(p, m)] = Null
        /\ \A q \in Descendants(t, Prefix(p, n)) : Leads(q, p)}}

\* erase(): get_node_stack() stops where a node is missing and gives the nodes
\* passed until then; the deepest of them, of whatever key, loses its value.
Erased(s) ==
    LET p == Prefix(Path(s), Walk(s))
        unset == IF p = <<>> THEN trie ELSE [trie EXCEPT ![p] = Null]
    IN  [q \in Nodes \ Pruned(unset, p) |-> unset[q]]

\* The keys with values, which is all a user can see of a trie.
Contents(t) == [p \in {q \in DOMAIN t : t[q] # Null} |-> t[p]]

-----------------------------------------------------------------------------
\* A root without a value or children.
Empty == [p \in {<<>>} |-> Null]

Init == trie = Empty

\* insert(), and operator[] with an assignment to what it returns.
Insert(s, v) == trie' = [WithPath(s) EXCEPT ![Path(s)] = v]

\* operator[] by itself.
Touch(s) == trie' = [WithPath(s) EXCEPT ![Path(s)] = IF @ = Null THEN Default ELSE @]

Erase(s) == trie' = Erased(s)

\* The trie is moved from: its root has no value and no children left.
MoveOut == trie' = Empty

Next ==
    \/ \E s \in Strings(MaxKey), v \in Values : Insert(s, v)
    \/ \E s \in Strings(MaxKey) : Touch(s)
    \/ \E s \in Strings(MaxText) : Erase(s)
    \/ MoveOut

Spec == Init /\ [][Next]_trie

-----------------------------------------------------------------------------
\* Nodes are paths of keys the comparator tells apart.
TypeOK ==
    /\ Nodes \subseteq {Path(s) : s \in Strings(MaxKey)}
    /\ trie \in [Nodes -> Values \cup {Null}]

(***************************************************************************)
(* The nodes form a tree, and none is left that leads to no value: every   *)
(* node but the root is on the way to a key with a value, which erase() has*)
(* to see to node by node on its way up (base.h:192). A node that stayed   *)
(* would also make a later erase() of another key end at it.               *)
(***************************************************************************)
NoDeadNode ==
    /\ TypeOK
    /\ <<>> \in Nodes
    /\ \A p \in Nodes : \A n \in 0 .. Len(p) : Prefix(p, n) \in Nodes
    /\ \A p \in Nodes \ {<<>>} :
           \E q \in Nodes : trie[q] # Null /\ Leads(p, q)

(***************************************************************************)
(* get() of a text finds the longest stored key the text begins with, or   *)
(* the shortest if it is not greedy, the empty key never: the walk         *)
(* (base.h:275) may end at a node without a value, beyond the last node    *)
(* that has one, and still gives that one.                                 *)
(***************************************************************************)
LookupExact ==
    \A s \in Strings(MaxText) :
        LET matches == {Len(k) : k \in {k \in DOMAIN Contents(trie) \ {<<>>} : Leads(k, Path(s))}}
        IN  /\ Found(s, TRUE) = IF matches = {} THEN 0 ELSE Max(matches)
            /\ Found(s, FALSE) = IF matches = {} THEN 0 ELSE Min(matches)

(***************************************************************************)
(* The trie is a map from keys to values (TrieMap): what insert() does to  *)
(* one key no other notices, however many nodes they share, and erase()    *)
(* takes at most one key out: the longest path it finds (base.h:229), even *)
(* though nodes come and go with other keys.                               *)
(***************************************************************************)
Map == INSTANCE TrieMap WITH contents <- Contents(trie)
ImplementsMap == Map!Spec

(***************************************************************************)
(* erase() of a key that is not stored leaves the stored keys alone        *)
(* (tests/trie.cpp:93, "Remove invalid value").                            *)
(***************************************************************************)
EraseOfOthers ==
    [][\A s \in Strings(MaxText) :
           Erase(s) /\ Path(s) \notin DOMAIN Contents(trie)
               => Contents(trie') = Contents(trie)]_trie
=============================================================================
