------------------------ MODULE SequentialPartsProofs ------------------------
(***************************************************************************)
(* Proofs about the parts of SequentialParts, for any values of their      *)
(* constants. One part after the other is proved about as it behaves       *)
(* alone; PartsBehave then takes the results over to all of them side by   *)
(* side.                                                                   *)
(*  - Trie: every branch ends at a key with a value, lookups find the      *)
(*    longest or shortest key a text begins with, and the trie implements  *)
(*    TrieMap. What erase() takes out bears no value and leads to nothing  *)
(*    that is left (EraseTakes), so that it takes out one key of the map   *)
(*    at most (EraseKeeps).                                                *)
(*  - Subscriptions: a slot is subscribed until its own unsubscriber is    *)
(*    run and no longer, and one that scoped handles guard goes with the   *)
(*    last of them.                                                        *)
(*  - Subsystems: an init() of a root that ends has called all the root    *)
(*    has, and who was added meanwhile is waited for.                      *)
(*  - LinkedList: what LinkedListProofs proves of any lists.               *)
(*  - Sizepack: the bytes under way are those of the sizes not yet read,   *)
(*    one after the other (PackedInv), and no format lets a size end in    *)
(*    the middle of another (EveryFormatTakes).                            *)
(***************************************************************************)
EXTENDS SequentialParts, ListLemmas

-----------------------------------------------------------------------------
(***************************************************************************)
(* Prefixes.                                                               *)
(***************************************************************************)
\* A prefix of a sequence is the sequence as far as it goes.
LEMMA PrefixOf ==
    ASSUME NEW S, NEW s \in Seq(S), NEW n \in 0 .. Len(s)
    PROVE  /\ Prefix(s, n) \in Seq(S) /\ Len(Prefix(s, n)) = n /\ DOMAIN Prefix(s, n) = 1 .. n
           /\ \A i \in 1 .. n : Prefix(s, n)[i] = s[i]
BY SubSeqProperties, LenProperties DEF Prefix

\* The longest and the shortest prefix, and those of a prefix.
LEMMA Prefixes ==
    ASSUME NEW S, NEW s \in Seq(S)
    PROVE  /\ Prefix(s, Len(s)) = s /\ Prefix(s, 0) = <<>>
           /\ \A n \in 0 .. Len(s) : \A m \in 0 .. n : Prefix(Prefix(s, n), m) = Prefix(s, m)
<1>0. Len(s) \in Nat /\ Len(s) \in 0 .. Len(s) /\ 0 \in 0 .. Len(s)
  BY LenProperties
<1>1. Prefix(s, Len(s)) = s
  BY <1>0, PrefixOf, SeqEqual
<1>2. Prefix(s, 0) = <<>>
  BY SubSeqEmpty DEF Prefix
<1>3. ASSUME NEW n \in 0 .. Len(s), NEW m \in 0 .. n PROVE Prefix(Prefix(s, n), m) = Prefix(s, m)
  <2> DEFINE p == Prefix(s, n)
  <2>1. p \in Seq(S) /\ Len(p) = n /\ \A i \in 1 .. n : p[i] = s[i]
    BY PrefixOf
  <2>2. m \in 0 .. Len(s)
    BY <1>0
  <2>3. /\ Prefix(s, m) \in Seq(S) /\ Len(Prefix(s, m)) = m
        /\ \A i \in 1 .. m : Prefix(s, m)[i] = s[i]
    BY <2>2, PrefixOf
  <2> HIDE DEF p
  <2>4. /\ Prefix(p, m) \in Seq(S) /\ Len(Prefix(p, m)) = m
        /\ \A i \in 1 .. m : Prefix(p, m)[i] = p[i]
    BY <2>1, PrefixOf
  <2>5. \A i \in 1 .. m : Prefix(p, m)[i] = Prefix(s, m)[i]
    BY <2>1, <2>3, <2>4
  <2>6. Prefix(p, m) = Prefix(s, m)
    BY <2>3, <2>4, <2>5, SeqEqual
  <2> QED
    BY <2>6 DEF p
<1> QED
  BY <1>1, <1>2, <1>3

\* A node is led to by its prefixes, and by them alone.
LEMMA LeadsByPrefix ==
    ASSUME NEW S, NEW p \in Seq(S), NEW q \in Seq(S)
    PROVE  /\ Leads(p, q) <=> \E n \in 0 .. Len(q) : p = Prefix(q, n)
           /\ Leads(p, q) => Len(p) \in 0 .. Len(q) /\ p = Prefix(q, Len(p))
           /\ Leads(q, q)
           /\ Leads(p, q) /\ Len(p) = Len(q) => p = q
           /\ Leads(p, <<>>) => p = <<>>
<1>1. Len(p) \in Nat /\ Len(q) \in Nat
  BY LenProperties
<1>2. Leads(p, q) => Len(p) \in 0 .. Len(q) /\ p = Prefix(q, Len(p))
  BY <1>1 DEF Leads
<1>3. ASSUME NEW n \in 0 .. Len(q), p = Prefix(q, n) PROVE Leads(p, q)
  <2>1. Len(p) = n
    BY <1>3, PrefixOf
  <2> QED
    BY <1>1, <1>3, <2>1 DEF Leads
<1>4. Leads(q, q)
  BY <1>1, Prefixes DEF Leads
<1>5. Leads(p, q) /\ Len(p) = Len(q) => p = q
  BY Prefixes DEF Leads
<1>6. Leads(p, <<>>) => p = <<>>
  BY <1>1, EmptySeq DEF Leads
<1> QED
  BY <1>2, <1>3, <1>4, <1>5, <1>6

\* Ways add up, and two ways to a node lie on each other.
LEMMA LeadsOn ==
    ASSUME NEW S, NEW p \in Seq(S), NEW q \in Seq(S), NEW r \in Seq(S)
    PROVE  /\ Leads(p, q) /\ Leads(q, r) => Leads(p, r)
           /\ Leads(p, r) /\ Leads(q, r) /\ Len(p) =< Len(q) => Leads(p, q)
<1>1. Len(p) \in Nat /\ Len(q) \in Nat /\ Len(r) \in Nat
  BY LenProperties
<1>2. ASSUME Leads(p, q), Leads(q, r) PROVE Leads(p, r)
  <2>1. /\ Len(p) \in 0 .. Len(q) /\ Len(q) \in 0 .. Len(r)
        /\ p = Prefix(q, Len(p)) /\ q = Prefix(r, Len(q))
    BY <1>1, <1>2 DEF Leads
  <2>2. Prefix(Prefix(r, Len(q)), Len(p)) = Prefix(r, Len(p))
    BY <2>1, Prefixes
  <2>3. Prefix(q, Len(p)) = Prefix(r, Len(p))
    BY <2>1, <2>2
  <2> QED
    BY <1>1, <2>1, <2>3 DEF Leads
<1>3. ASSUME Leads(p, r), Leads(q, r), Len(p) =< Len(q) PROVE Leads(p, q)
  <2>1. /\ Len(p) \in 0 .. Len(q) /\ Len(q) \in 0 .. Len(r)
        /\ p = Prefix(r, Len(p)) /\ q = Prefix(r, Len(q))
    BY <1>1, <1>3 DEF Leads
  <2>2. Prefix(Prefix(r, Len(q)), Len(p)) = Prefix(r, Len(p))
    BY <2>1, Prefixes
  <2>3. Prefix(q, Len(p)) = p
    BY <2>1, <2>2
  <2> QED
    BY <1>3, <2>3 DEF Leads
<1> QED
  BY <1>2, <1>3

-----------------------------------------------------------------------------
(***************************************************************************)
(* Paths.                                                                  *)
(***************************************************************************)
\* Texts are sequences, and so are their paths, prefix by prefix.
LEMMA TextPaths ==
    ASSUME NEW n \in Nat, NEW s \in Strings(n)
    PROVE  /\ s \in Seq(Letters) /\ Len(s) =< n
           /\ Path(s) \in Seq(Letters) /\ Len(Path(s)) = Len(s)
           /\ \A k \in 0 .. Len(s) : Prefix(s, k) \in Strings(n) /\ Path(Prefix(s, k)) = Prefix(Path(s), k)
<1>1. PICK k \in 0 .. n : s \in [1 .. k -> Letters]
  BY DEF Strings
<1>2. s \in Seq(Letters)
  BY <1>1, SeqDef
<1>3. Len(s) = k /\ DOMAIN s = 1 .. k
  BY <1>1, <1>2
<1>4. Path(s) \in [1 .. k -> Letters] /\ \A i \in 1 .. k : Path(s)[i] = Class[s[i]]
  BY <1>1, <1>3, ConstantsAssumption DEF Path
<1>5. Path(s) \in Seq(Letters)
  BY <1>4, SeqDef
<1>6. Len(Path(s)) = k
  BY <1>4, <1>5
<1>7. ASSUME NEW m \in 0 .. Len(s)
      PROVE  Prefix(s, m) \in Strings(n) /\ Path(Prefix(s, m)) = Prefix(Path(s), m)
  <2>1. /\ Prefix(s, m) \in Seq(Letters) /\ Len(Prefix(s, m)) = m /\ DOMAIN Prefix(s, m) = 1 .. m
        /\ \A i \in 1 .. m : Prefix(s, m)[i] = s[i]
    BY <1>2, PrefixOf
  <2>2. Prefix(s, m) \in [1 .. m -> Letters] /\ m \in 0 .. n
    BY <1>3, <2>1
  <2>3. Prefix(s, m) \in Strings(n)
    BY <2>2 DEF Strings
  <2>4. m \in 0 .. Len(Path(s))
    BY <1>3, <1>6
  <2>5. /\ Prefix(Path(s), m) \in Seq(Letters) /\ Len(Prefix(Path(s), m)) = m
        /\ \A i \in 1 .. m : Prefix(Path(s), m)[i] = Path(s)[i]
    BY <1>5, <2>4, PrefixOf
  <2>6. /\ Path(Prefix(s, m)) \in [1 .. m -> Letters]
        /\ \A i \in 1 .. m : Path(Prefix(s, m))[i] = Class[s[i]]
    BY <2>1, <2>2, ConstantsAssumption DEF Path
  <2>7. Path(Prefix(s, m)) \in Seq(Letters)
    BY <2>6, SeqDef
  <2>8. Len(Path(Prefix(s, m))) = m
    BY <2>6, <2>7
  <2>9. \A i \in 1 .. m : Path(Prefix(s, m))[i] = Prefix(Path(s), m)[i]
    BY <1>3, <1>4, <2>5, <2>6
  <2> QED
    BY <2>3, <2>5, <2>7, <2>8, <2>9, SeqEqual
<1> QED
  BY <1>1, <1>2, <1>3, <1>5, <1>6, <1>7

-----------------------------------------------------------------------------
(***************************************************************************)
(* Nodes.                                                                  *)
(***************************************************************************)
\* The greatest and the least of some numbers up to n.
LEMMA MaxMin ==
    ASSUME NEW n \in Nat, NEW T \in SUBSET (0 .. n), T # {}
    PROVE  /\ Max(T) \in T /\ \A m \in T : m =< Max(T)
           /\ Min(T) \in T /\ \A m \in T : Min(T) =< m
<1>1. \E m \in T : \A k \in T : k =< m
  <2> DEFINE U == {n - m : m \in T}
  <2>1. U \in SUBSET Nat /\ U # {}
    <3>1. \A m \in 0 .. n : n - m \in Nat
      OBVIOUS
    <3> QED
      BY <3>1
  <2>2. PICK u \in U : \A w \in U : u =< w
    BY <2>1, LeastNumber
  <2>3. PICK m \in T : u = n - m
    BY <2>2
  <2>4. \A k \in T : n - m =< n - k
    BY <2>2, <2>3
  <2>5. \A k \in T : k =< m
    BY <2>4
  <2> QED
    BY <2>5
<1>2. \E m \in T : \A k \in T : m >= k
  BY <1>1
<1>3. Max(T) \in T /\ \A k \in T : Max(T) >= k
  BY <1>2 DEF Max
<1>4. \E m \in T : \A k \in T : m =< k
  <2>1. T \in SUBSET Nat
    OBVIOUS
  <2> QED
    BY <2>1, LeastNumber
<1>5. Min(T) \in T /\ \A k \in T : Min(T) =< k
  BY <1>4 DEF Min
<1> QED
  BY <1>3, <1>5

\* A node is a sequence, as are its prefixes, which are nodes.
LEMMA NodePaths ==
    ASSUME NoDeadNode, NEW p \in Nodes
    PROVE  /\ p \in Seq(Letters)
           /\ \A n \in 0 .. Len(p) : Prefix(p, n) \in Nodes
           /\ \A q \in Seq(Letters) : Leads(q, p) => q \in Nodes
<1>1. p \in Seq(Letters)
  BY TextPaths, ConstantsAssumption DEF NoDeadNode, TypeOK
<1>2. \A n \in 0 .. Len(p) : Prefix(p, n) \in Nodes
  BY DEF NoDeadNode
<1> QED
  BY <1>1, <1>2, LeadsByPrefix

\* The walk goes as far as there are nodes.
LEMMA WalkOf ==
    ASSUME NoDeadNode, NEW n \in Nat, NEW s \in Strings(n)
    PROVE  /\ Walk(s) \in 0 .. Len(s) /\ Len(s) \in Nat /\ Len(Path(s)) = Len(s)
           /\ Prefix(Path(s), Walk(s)) \in Nodes
           /\ \A m \in 0 .. Len(s) : Prefix(Path(s), m) \in Nodes <=> m =< Walk(s)
<1> DEFINE q == Path(s)
           T == {m \in 0 .. Len(s) : \A k \in 0 .. m : Prefix(q, k) \in Nodes}
<1>1. s \in Seq(Letters) /\ q \in Seq(Letters) /\ Len(q) = Len(s) /\ Len(s) \in Nat
  BY TextPaths, LenProperties
<1>2. 0 \in T
  <2>1. Prefix(q, 0) = <<>>
    BY <1>1, Prefixes
  <2> QED
    BY <1>1, <2>1 DEF NoDeadNode
<1>3. Walk(s) = Max(T)
  BY DEF Walk
<1>4. Walk(s) \in T /\ \A m \in T : m =< Walk(s)
  <2>1. T \in SUBSET (0 .. Len(s)) /\ T # {}
    BY <1>2
  <2> HIDE DEF T
  <2>2. Max(T) \in T /\ \A m \in T : m =< Max(T)
    BY <1>1, <2>1, MaxMin
  <2> QED
    BY <1>3, <2>2
<1>5. ASSUME NEW m \in 0 .. Len(s), Prefix(q, m) \in Nodes PROVE m \in T
  <2>1. Len(Prefix(q, m)) = m /\ \A k \in 0 .. m : Prefix(Prefix(q, m), k) = Prefix(q, k)
    BY <1>1, PrefixOf, Prefixes
  <2>2. \A k \in 0 .. m : Prefix(q, k) \in Nodes
    BY <1>5, <2>1, NodePaths
  <2> QED
    BY <2>2
<1>6. \A m \in 0 .. Len(s) : m =< Walk(s) => Prefix(q, m) \in Nodes
  BY <1>1, <1>4
<1> QED
  BY <1>1, <1>4, <1>5, <1>6

-----------------------------------------------------------------------------
(***************************************************************************)
(* What the operations change.                                             *)
(***************************************************************************)
\* A key that is entered: the nodes on the way to it, and its value.
LEMMA Enters ==
    ASSUME NoDeadNode, NEW s \in Strings(MaxKey), NEW v \in Values,
           trie' = [WithPath(s) EXCEPT ![Path(s)] = v]
    PROVE  /\ Nodes' = Nodes \cup {Prefix(Path(s), n) : n \in 0 .. Len(s)}
           /\ Path(s) \in Nodes' /\ trie'[Path(s)] = v
           /\ \A p \in Nodes' \ {Path(s)} : trie'[p] = IF p \in Nodes THEN trie[p] ELSE Null
           /\ NoDeadNode'
<1> DEFINE q == Path(s)
           Way == {Prefix(q, n) : n \in 0 .. Len(s)}
<1>0. MaxKey \in Nat /\ Default \in Values /\ Null \notin Values
  BY ConstantsAssumption
<1>1. /\ q \in Seq(Letters) /\ Len(q) = Len(s) /\ Len(s) \in Nat
      /\ \A n \in 0 .. Len(s) : /\ Prefix(s, n) \in Strings(MaxKey)
                                /\ Path(Prefix(s, n)) = Prefix(q, n)
  BY <1>0, TextPaths, LenProperties
<1>2. q \in Way
  <2>1. Prefix(q, Len(s)) = q
    BY <1>1, Prefixes
  <2> QED
    BY <1>1, <2>1
<1>a. trie' = [p \in Nodes \cup Way |-> IF p = q THEN v ELSE IF p \in Nodes THEN trie[p] ELSE Null]
  BY <1>2 DEF WithPath
<1>3. Nodes' = Nodes \cup Way
  BY <1>a DEF Nodes
<1>4. trie'[q] = v /\ \A p \in Nodes' \ {q} : trie'[p] = IF p \in Nodes THEN trie[p] ELSE Null
  BY <1>2, <1>3, <1>a
<1>5. TypeOK'
  <2>1. Way \subseteq {Path(u) : u \in Strings(MaxKey)}
    BY <1>1
  <2>2. Nodes' \subseteq {Path(u) : u \in Strings(MaxKey)}
    BY <1>3, <2>1 DEF NoDeadNode, TypeOK
  <2>3. trie' \in [Nodes' -> Values \cup {Null}]
    <3>1. \A p \in Nodes' : trie'[p] \in Values \cup {Null}
      BY <1>4 DEF NoDeadNode, TypeOK
    <3>2. trie' = [p \in Nodes' |-> trie'[p]]
      BY <1>3, <1>a
    <3> QED
      BY <3>1, <3>2
  <2> QED
    BY <2>2, <2>3 DEF TypeOK
<1> HIDE DEF q
<1>6. \A n \in 0 .. Len(s) : /\ Prefix(q, n) \in Seq(Letters) /\ Len(Prefix(q, n)) = n
                             /\ \A m \in 0 .. n : Prefix(Prefix(q, n), m) = Prefix(q, m)
                             /\ Leads(Prefix(q, n), q)
  <2>1. ASSUME NEW n \in 0 .. Len(s)
        PROVE  Prefix(q, n) \in Seq(Letters) /\ Len(Prefix(q, n)) = n /\ Leads(Prefix(q, n), q)
    BY <1>1, PrefixOf, LeadsByPrefix
  <2> QED
    BY <1>1, <2>1, Prefixes
<1>7. <<>> \in Nodes'
  BY <1>3 DEF NoDeadNode
<1>8. ASSUME NEW p \in Nodes', NEW n \in 0 .. Len(p) PROVE Prefix(p, n) \in Nodes'
  <2>1. CASE p \in Nodes
    BY <1>3, <1>8, <2>1, NodePaths
  <2>2. CASE p \in Way
    <3>1. PICK m \in 0 .. Len(s) : p = Prefix(q, m)
      BY <2>2
    <3>2. Len(p) = m /\ Prefix(p, n) = Prefix(q, n)
      BY <1>6, <1>8, <3>1
    <3>3. n \in 0 .. Len(s)
      BY <1>1, <1>8, <3>2
    <3> QED
      BY <1>3, <3>2, <3>3
  <2> QED
    BY <1>3, <2>1, <2>2
<1>9. ASSUME NEW p \in Nodes' \ {<<>>} PROVE \E r \in Nodes' : trie'[r] # Null /\ Leads(p, r)
  <2>1. CASE p \in Nodes
    <3>1. PICK r \in Nodes : trie[r] # Null /\ Leads(p, r)
      BY <1>9, <2>1 DEF NoDeadNode
    <3>2. r \in Nodes' /\ trie'[r] # Null
      BY <1>0, <1>3, <1>4, <3>1
    <3> QED
      BY <3>1, <3>2
  <2>2. CASE p \in Way
    BY <1>0, <1>2, <1>3, <1>4, <1>6, <2>2
  <2> QED
    BY <1>3, <2>1, <2>2
<1>10. NoDeadNode'
  BY <1>5, <1>7, <1>8, <1>9 DEF NoDeadNode
<1> QED
  BY <1>1, <1>2, <1>3, <1>4, <1>10 DEF q

-----------------------------------------------------------------------------
(***************************************************************************)
(* Contents.                                                               *)
(***************************************************************************)
\* The keys of a trie are its nodes with values.
Valued(t) == {p \in DOMAIN t : t[p] # Null}

\* A function of no argument is the empty sequence.
LEMMA NoContents == \A t : Valued(t) = {} => Contents(t) = <<>>
<1> SUFFICES ASSUME NEW t, Valued(t) = {} PROVE Contents(t) = <<>>
  OBVIOUS
<1>1. Contents(t) = [p \in {} |-> t[p]]
  BY DEF Contents, Valued
<1>2. Contents(t) \in Seq({})
  <2>1. Contents(t) \in [1 .. 0 -> {}]
    BY <1>1
  <2> QED
    BY <2>1, SeqDef
<1>3. Len(Contents(t)) = 0
  BY <1>1, <1>2, LenProperties
<1> QED
  BY <1>2, <1>3, EmptySeq

\* An entered key has its value, and the others theirs.
LEMMA EnterContents ==
    ASSUME NoDeadNode, NEW s \in Strings(MaxKey), NEW v \in Values,
           trie' = [WithPath(s) EXCEPT ![Path(s)] = v]
    PROVE  LET t == Contents(trie)
           IN  Contents(trie') = [p \in DOMAIN t \cup {Path(s)} |-> IF p = Path(s) THEN v ELSE t[p]]
<1>1. /\ Nodes' = Nodes \cup {Prefix(Path(s), n) : n \in 0 .. Len(s)}
      /\ Path(s) \in Nodes' /\ trie'[Path(s)] = v
      /\ \A p \in Nodes' \ {Path(s)} : trie'[p] = IF p \in Nodes THEN trie[p] ELSE Null
  BY Enters
<1>2. Valued(trie') = {Path(s)} \cup Valued(trie)
  BY <1>1, ConstantsAssumption DEF Valued, Nodes
<1>3. Contents(trie') = [p \in {Path(s)} \cup Valued(trie) |-> IF p = Path(s) THEN v ELSE trie[p]]
  <2>1. Contents(trie') = [p \in Valued(trie') |-> trie'[p]]
    BY DEF Contents, Valued
  <2>2. \A p \in Valued(trie') : trie'[p] = IF p = Path(s) THEN v ELSE trie[p]
    BY <1>1 DEF Valued, Nodes
  <2> QED
    BY <1>2, <2>1, <2>2
<1>4. Contents(trie) = [p \in Valued(trie) |-> trie[p]]
  BY DEF Contents, Valued
<1> QED
  BY <1>3, <1>4 

\* operator[] enters the value a key has, or value_type().
LEMMA TouchEnters ==
    ASSUME NoDeadNode, NEW s \in Strings(MaxKey), Touch(s)
    PROVE  \E v \in Values :
              /\ trie' = [WithPath(s) EXCEPT ![Path(s)] = v]
              /\ v = IF Path(s) \in Valued(trie) THEN trie[Path(s)] ELSE Default
<1> DEFINE q == Path(s)
           v == IF q \in Valued(trie) THEN trie[q] ELSE Default
<1>1. q \in {Prefix(q, n) : n \in 0 .. Len(s)}
  <2>1. q \in Seq(Letters) /\ Len(q) = Len(s) /\ Len(s) \in Nat
    BY TextPaths, LenProperties, ConstantsAssumption
  <2>2. Prefix(q, Len(s)) = q
    BY <2>1, Prefixes
  <2> QED
    BY <2>1, <2>2
<1>2. WithPath(s)[q] = IF q \in Nodes THEN trie[q] ELSE Null
  BY <1>1 DEF WithPath
<1>3. v = IF WithPath(s)[q] = Null THEN Default ELSE WithPath(s)[q]
  BY <1>2 DEF Valued, Nodes
<1>4. v \in Values
  BY ConstantsAssumption DEF NoDeadNode, TypeOK, Valued, Nodes
<1>5. trie' = [WithPath(s) EXCEPT ![q] = v]
  BY <1>3 DEF Touch
<1> QED
  BY <1>4, <1>5

\* The node erase() acts on, and the nodes it takes out: no node with a value, not the
\* root, and none that leads to a key that is left.
LEMMA EraseTakes ==
    ASSUME NoDeadNode, NEW n \in Nat, NEW s \in Strings(n), Erase(s),
           NEW p, p = Prefix(Path(s), Walk(s))
    PROVE  /\ p \in Nodes /\ Nodes' \subseteq Nodes
           /\ \A q \in Nodes' : trie'[q] = IF q = p /\ p # <<>> THEN Null ELSE trie[q]
           /\ \A q \in Nodes : q \notin Nodes' => Leads(q, p) /\ q # <<>> /\ p # <<>> /\ (q = p \/ trie[q] = Null)
           /\ \A q \in Nodes : q \notin Nodes' => \A r \in Nodes' : ~Leads(q, r)
           /\ \A q \in Nodes' : q # <<>> /\ Leads(q, p) =>
                 \E r \in Nodes' : trie'[r] # Null /\ Leads(q, r)
<1> DEFINE unset == IF p = <<>> THEN trie ELSE [trie EXCEPT ![p] = Null]
           gone == Pruned(unset, p)
<1>0. p \in Nodes /\ p \in Seq(Letters) /\ Len(p) \in Nat
  BY WalkOf, NodePaths, LenProperties
<1>1. trie' = [q \in Nodes \ gone |-> unset[q]]
  BY DEF Erase, Erased
<1>2. /\ DOMAIN unset = Nodes
      /\ \A q \in Nodes : unset[q] = IF q = p /\ p # <<>> THEN Null ELSE trie[q]
  BY DEF Nodes, NoDeadNode, TypeOK
<1>3. Nodes' = Nodes \ gone /\ \A q \in Nodes' : trie'[q] = unset[q]
  <2> HIDE DEF gone, unset
  <2> QED
    BY <1>1 DEF Nodes
<1>4. \A q \in Nodes : q \in Seq(Letters)
  BY NodePaths
<1>5. \A m \in 0 .. Len(p) : /\ Prefix(p, m) \in Nodes /\ Len(Prefix(p, m)) = m /\ Leads(Prefix(p, m), p)
                             /\ \A k \in 0 .. m : Leads(Prefix(p, k), Prefix(p, m))
  <2> SUFFICES ASSUME NEW m \in 0 .. Len(p)
               PROVE  /\ Prefix(p, m) \in Nodes /\ Len(Prefix(p, m)) = m /\ Leads(Prefix(p, m), p)
                      /\ \A k \in 0 .. m : Leads(Prefix(p, k), Prefix(p, m))
    OBVIOUS
  <2>1. Prefix(p, m) \in Nodes
    BY <1>0, NodePaths
  <2>2. \A k \in 0 .. Len(p) : Prefix(p, k) \in Seq(Letters) /\ Len(Prefix(p, k)) = k
    BY <1>0, PrefixOf
  <2>3. \A k \in 0 .. Len(p) : Leads(Prefix(p, k), p)
    BY <1>0, <2>2, LeadsByPrefix
  <2>4. \A k \in 0 .. m : k \in 0 .. Len(p) /\ k =< m
    BY <1>0
  <2>5. \A k \in 0 .. m : Leads(Prefix(p, k), Prefix(p, m))
    BY <1>0, <2>2, <2>3, <2>4, LeadsOn
  <2> QED
    BY <2>1, <2>2, <2>3, <2>5
<1>6. \A q : q \in gone <=> \E k \in 1 .. Len(p) :
         /\ q = Prefix(p, k)
         /\ \A m \in k .. Len(p) : unset[Prefix(p, m)] = Null
         /\ \A r \in Nodes : r # q /\ Leads(q, r) => Leads(r, p)
  <2> HIDE DEF unset
  <2> QED
    BY <1>2 DEF Pruned, Descendants
<1> HIDE DEF gone, unset
<1>7. ASSUME NEW q \in gone
      PROVE  Leads(q, p) /\ q # <<>> /\ p # <<>> /\ (q = p \/ trie[q] = Null) /\ q \in Nodes
  <2>1. PICK k \in 1 .. Len(p) : q = Prefix(p, k) /\ \A m \in k .. Len(p) : unset[Prefix(p, m)] = Null
    BY <1>6
  <2>2. q \in Nodes /\ Len(q) = k /\ Leads(q, p) /\ unset[q] = Null
    BY <1>0, <1>5, <2>1
  <2>3. q # <<>> /\ p # <<>>
    BY <1>0, <2>1, <2>2, EmptySeq
  <2> QED
    BY <1>2, <2>2, <2>3
<1>8. ASSUME NEW q \in gone, NEW r \in Nodes', Leads(q, r) PROVE FALSE
  <2>1. PICK k \in 1 .. Len(p) :
           /\ q = Prefix(p, k) /\ \A m \in k .. Len(p) : unset[Prefix(p, m)] = Null
           /\ \A d \in Nodes : d # q /\ Leads(q, d) => Leads(d, p)
    BY <1>6
  <2>2. r \in Nodes /\ r \notin gone /\ r \in Seq(Letters) /\ q \in Seq(Letters) /\ q \in Nodes
    BY <1>3, <1>4, <1>7
  <2>3. Leads(r, p)
    BY <1>8, <2>1, <2>2
  <2>4. Len(q) = k /\ Len(q) =< Len(r) /\ Len(r) \in 1 .. Len(p) /\ r = Prefix(p, Len(r))
    <3>1. Len(q) = k
      BY <1>0, <1>5, <2>1
    <3>2. Len(r) \in 0 .. Len(p) /\ r = Prefix(p, Len(r))
      BY <1>0, <2>2, <2>3, LeadsByPrefix
    <3>3. Len(q) =< Len(r)
      BY <1>8 DEF Leads
    <3> QED
      BY <1>0, <3>1, <3>2, <3>3
  <2>5. \A m \in Len(r) .. Len(p) : unset[Prefix(p, m)] = Null
    BY <1>0, <2>1, <2>4
  <2>6. \A d \in Nodes : d # r /\ Leads(r, d) => Leads(d, p)
    <3> SUFFICES ASSUME NEW d \in Nodes, d # r, Leads(r, d) PROVE Leads(d, p)
      OBVIOUS
    <3>1. d \in Seq(Letters) /\ Leads(q, d)
      BY <1>4, <1>8, <2>2, LeadsOn
    <3>2. d # q
      BY <2>2, <2>4, <1>8, LeadsByPrefix, LenProperties DEF Leads
    <3> QED
      BY <2>1, <3>1, <3>2
  <2>7. r \in gone
    BY <1>6, <2>4, <2>5, <2>6
  <2> QED
    BY <2>2, <2>7
<1>9. ASSUME NEW q \in Nodes', q # <<>>, Leads(q, p)
      PROVE  \E r \in Nodes' : trie'[r] # Null /\ Leads(q, r)
  <2> DEFINE k == Len(q)
  <2>1. q \in Nodes /\ q \notin gone /\ q \in Seq(Letters)
    BY <1>3, <1>4
  <2>2. k \in 1 .. Len(p) /\ q = Prefix(p, k)
    <3>1. k \in 0 .. Len(p) /\ q = Prefix(p, k)
      BY <1>0, <1>9, <2>1, LeadsByPrefix
    <3>2. k # 0
      BY <1>9, <2>1, EmptySeq
    <3> QED
      BY <3>1, <3>2
  <2>3. CASE \E m \in k .. Len(p) : unset[Prefix(p, m)] # Null
    <3>1. PICK m \in k .. Len(p) : unset[Prefix(p, m)] # Null
      BY <2>3
    <3>2. m \in 0 .. Len(p) /\ k \in 0 .. m
      BY <1>0, <2>2
    <3>3. Prefix(p, m) \in Nodes /\ Leads(q, Prefix(p, m))
      BY <1>5, <2>2, <3>2
    <3>4. Prefix(p, m) \notin gone
      BY <1>2, <1>7, <3>1, <3>3
    <3> QED
      BY <1>3, <3>1, <3>3, <3>4
  <2>4. CASE \A m \in k .. Len(p) : unset[Prefix(p, m)] = Null
    <3>1. PICK d \in Nodes : d # q /\ Leads(q, d) /\ ~Leads(d, p)
      BY <1>6, <2>1, <2>2, <2>4
    <3>2. d # <<>>
      BY <1>9, <2>1, <3>1, LeadsByPrefix
    <3>3. PICK v \in Nodes : trie[v] # Null /\ Leads(d, v)
      BY <3>1, <3>2 DEF NoDeadNode
    <3>4. v # p
      BY <3>1, <3>3
    <3>5. v \in Nodes' /\ trie'[v] # Null
      BY <1>2, <1>3, <1>7, <3>3, <3>4
    <3>6. Leads(q, v)
      BY <1>4, <2>1, <3>1, <3>3, LeadsOn
    <3> QED
      BY <3>5, <3>6
  <2> QED
    BY <2>3, <2>4
<1>10. \A q \in Nodes : q \notin Nodes' => q \in gone
  BY <1>3
<1>11. \A q \in Nodes' : trie'[q] = IF q = p /\ p # <<>> THEN Null ELSE trie[q]
  BY <1>2, <1>3
<1> QED
  BY <1>0, <1>3, <1>7, <1>8, <1>9, <1>10, <1>11

\* What is left leads to keys, which are those of before without one.
LEMMA EraseKeeps ==
    ASSUME NoDeadNode, NEW n \in Nat, NEW s \in Strings(n), Erase(s)
    PROVE  /\ NoDeadNode'
           /\ LET p == Prefix(Path(s), Walk(s))
              IN  Contents(trie') = [k \in Valued(trie) \ ({p} \ {<<>>}) |-> trie[k]]
<1> DEFINE p == Prefix(Path(s), Walk(s))
<1>1. /\ p \in Nodes /\ Nodes' \subseteq Nodes
      /\ \A q \in Nodes' : trie'[q] = IF q = p /\ p # <<>> THEN Null ELSE trie[q]
      /\ \A q \in Nodes : q \notin Nodes' => Leads(q, p) /\ q # <<>> /\ p # <<>> /\ (q = p \/ trie[q] = Null)
      /\ \A q \in Nodes : q \notin Nodes' => \A r \in Nodes' : ~Leads(q, r)
      /\ \A q \in Nodes' : q # <<>> /\ Leads(q, p) =>
            \E r \in Nodes' : trie'[r] # Null /\ Leads(q, r)
  BY EraseTakes
<1>2. TypeOK'
  <2>1. Nodes' \subseteq {Path(u) : u \in Strings(MaxKey)}
    BY <1>1 DEF NoDeadNode, TypeOK
  <2>2. \A q \in Nodes' : trie'[q] \in Values \cup {Null}
    BY <1>1 DEF NoDeadNode, TypeOK
  <2>3. trie' = [q \in Nodes' |-> trie'[q]]
    <3> DEFINE f(q) == (IF Prefix(Path(s), Walk(s)) = <<>> THEN trie
                        ELSE [trie EXCEPT ![Prefix(Path(s), Walk(s))] = Null])[q]
    <3>1. \E S : trie' = [q \in S |-> f(q)]
      BY DEF Erase, Erased
    <3> HIDE DEF f
    <3> QED
      BY <3>1 DEF Nodes
  <2> QED
    BY <2>1, <2>2, <2>3 DEF TypeOK
<1> HIDE DEF p
<1>3. <<>> \in Nodes'
  BY <1>1 DEF NoDeadNode
<1>4. ASSUME NEW q \in Nodes', NEW k \in 0 .. Len(q) PROVE Prefix(q, k) \in Nodes'
  <2>1. q \in Nodes /\ q \in Seq(Letters) /\ Prefix(q, k) \in Nodes
    BY <1>1, NodePaths
  <2>2. Prefix(q, k) \in Seq(Letters)
    BY <2>1, NodePaths
  <2>3. Leads(Prefix(q, k), q)
    BY <2>1, <2>2, LeadsByPrefix
  <2> QED
    BY <1>1, <2>1, <2>3
<1>5. ASSUME NEW q \in Nodes' \ {<<>>} PROVE \E r \in Nodes' : trie'[r] # Null /\ Leads(q, r)
  <2>1. CASE Leads(q, p)
    BY <1>1, <1>5, <2>1
  <2>2. CASE ~Leads(q, p)
    <3>1. q \in Nodes \ {<<>>}
      BY <1>1, <1>5
    <3>2. PICK r \in Nodes : trie[r] # Null /\ Leads(q, r)
      BY <3>1 DEF NoDeadNode
    <3>3. r # p
      BY <2>2, <3>2
    <3>4. r \in Nodes' /\ trie'[r] # Null
      BY <1>1, <3>2, <3>3
    <3> QED
      BY <3>2, <3>4
  <2> QED
    BY <2>1, <2>2
<1>6. NoDeadNode'
  BY <1>2, <1>3, <1>4, <1>5 DEF NoDeadNode
<1>7. Valued(trie') = Valued(trie) \ ({p} \ {<<>>}) /\ \A k \in Valued(trie') : trie'[k] = trie[k]
  <2>1. \A k : k \in Valued(trie') <=> k \in Nodes' /\ trie'[k] # Null
    BY DEF Valued, Nodes
  <2>2. \A k : k \in Valued(trie) <=> k \in Nodes /\ trie[k] # Null
    BY DEF Valued, Nodes
  <2> QED
    BY <1>1, <2>1, <2>2
<1>8. Contents(trie') = [k \in Valued(trie) \ ({p} \ {<<>>}) |-> trie[k]]
  <2>1. Contents(trie') = [k \in Valued(trie') |-> trie'[k]]
    BY DEF Contents, Valued
  <2> QED
    BY <1>7, <2>1
<1> QED
  BY <1>6, <1>8 DEF p

\* A new trie, and one that was moved from.
LEMMA EmptyTrie ==
    ASSUME trie = Empty
    PROVE  NoDeadNode /\ Contents(trie) = <<>>
<1>1. trie = [p \in {<<>>} |-> Null] /\ Nodes = {<<>>}
  BY DEF Empty, Nodes
<1>2. <<>> \in Strings(MaxKey) /\ Path(<<>>) = <<>>
  <2>1. <<>> \in [1 .. 0 -> Letters] /\ 0 \in 0 .. MaxKey
    BY ConstantsAssumption
  <2>2. <<>> \in Strings(MaxKey)
    BY <2>1 DEF Strings
  <2>3. Len(Path(<<>>)) = Len(<<>>) /\ Path(<<>>) \in Seq(Letters)
    BY <2>2, TextPaths, ConstantsAssumption
  <2> QED
    BY <2>2, <2>3, EmptySeq
<1>3. TypeOK
  BY <1>1, <1>2 DEF TypeOK
<1>4. \A n \in 0 .. Len(<<>>) : Prefix(<<>>, n) = <<>>
  <2>1. Len(<<>>) = 0 /\ Prefix(<<>>, 0) = <<>>
    BY EmptySeq, Prefixes
  <2> QED
    BY <2>1
<1>5. NoDeadNode
  BY <1>1, <1>3, <1>4 DEF NoDeadNode
<1>6. Valued(trie) = {}
  BY <1>1 DEF Valued
<1> QED
  BY <1>5, <1>6, NoContents

-----------------------------------------------------------------------------
\* Whatever keys come and go, the nodes of a trie form a tree in which every branch
\* ends at a key with a value.
THEOREM NoDeadNodeHolds == Spec => []NoDeadNode
<1>1. Init => NoDeadNode
  BY EmptyTrie DEF Init
<1>2. NoDeadNode /\ [Next]_trie => NoDeadNode'
  <2> SUFFICES ASSUME NoDeadNode, [Next]_trie PROVE NoDeadNode'
    OBVIOUS
  <2>1. ASSUME NEW s \in Strings(MaxKey), NEW v \in Values, Insert(s, v) PROVE NoDeadNode'
    BY <2>1, Enters DEF Insert
  <2>2. ASSUME NEW s \in Strings(MaxKey), Touch(s) PROVE NoDeadNode'
    BY <2>2, TouchEnters, Enters
  <2>3. ASSUME NEW s \in Strings(MaxText), Erase(s) PROVE NoDeadNode'
    BY <2>3, EraseKeeps, ConstantsAssumption
  <2>4. CASE MoveOut
    <3>1. (trie = Empty)' => NoDeadNode'
      BY EmptyTrie, PTL
    <3> QED
      BY <2>4, <3>1 DEF MoveOut, Empty
  <2>5. CASE UNCHANGED trie
    BY <2>5 DEF NoDeadNode, TypeOK, Nodes
  <2> QED
    BY <2>1, <2>2, <2>3, <2>4, <2>5 DEF Next
<1> QED
  BY <1>1, <1>2, PTL DEF Spec

-----------------------------------------------------------------------------
\* The keys a text begins with are the nodes with values on its walk.
LEMMA MatchesOf ==
    ASSUME NoDeadNode, NEW n \in Nat, NEW s \in Strings(n)
    PROVE  {Len(k) : k \in {k \in Valued(trie) \ {<<>>} : Leads(k, Path(s))}}
               = {m \in 1 .. Walk(s) : trie[Prefix(Path(s), m)] # Null}
<1> DEFINE q == Path(s)
<1>1. /\ Walk(s) \in 0 .. Len(s) /\ Len(s) \in Nat /\ Len(q) = Len(s) /\ q \in Seq(Letters)
      /\ \A m \in 0 .. Len(s) : Prefix(q, m) \in Nodes <=> m =< Walk(s)
  BY WalkOf, TextPaths
<1>2. \A k : k \in Valued(trie) <=> k \in Nodes /\ trie[k] # Null
  BY DEF Valued, Nodes
<1> HIDE DEF q
<1>3. ASSUME NEW m \in 1 .. Walk(s), trie[Prefix(q, m)] # Null
      PROVE  \E k \in Valued(trie) \ {<<>>} : Leads(k, q) /\ m = Len(k)
  <2>1. m \in 0 .. Len(q) /\ m # 0
    BY <1>1
  <2>2. Len(Prefix(q, m)) = m /\ Prefix(q, m) \in Seq(Letters)
    BY <1>1, <2>1, PrefixOf
  <2>3. Prefix(q, m) # <<>>
    BY <2>1, <2>2, EmptySeq
  <2>4. Leads(Prefix(q, m), q)
    BY <1>1, <2>1, <2>2, LeadsByPrefix
  <2>5. Prefix(q, m) \in Valued(trie)
    BY <1>1, <1>2, <1>3, <2>1
  <2> QED
    BY <2>2, <2>3, <2>4, <2>5
<1>4. ASSUME NEW k \in Valued(trie) \ {<<>>}, Leads(k, q)
      PROVE  Len(k) \in 1 .. Walk(s) /\ trie[Prefix(q, Len(k))] # Null
  <2>1. k \in Nodes /\ trie[k] # Null /\ k # <<>>
    BY <1>2, <1>4
  <2>2. k \in Seq(Letters)
    BY <2>1, NodePaths
  <2>3. Len(k) \in 0 .. Len(q) /\ k = Prefix(q, Len(k))
    BY <1>1, <1>4, <2>2, LeadsByPrefix
  <2>4. Len(k) =< Walk(s)
    BY <1>1, <2>1, <2>3
  <2>5. Len(k) # 0
    BY <2>1, <2>2, EmptySeq
  <2> QED
    BY <1>1, <2>1, <2>3, <2>4, <2>5
<1>5. \A m : m \in {Len(k) : k \in {k \in Valued(trie) \ {<<>>} : Leads(k, q)}}
             <=> m \in {i \in 1 .. Walk(s) : trie[Prefix(q, i)] # Null}
  BY <1>3, <1>4
<1> QED
  BY <1>5 DEF q

\* get() finds the longest or the shortest of the keys a text begins with.
THEOREM LookupExactHolds == Spec => []LookupExact
<1>1. NoDeadNode => LookupExact
  <2> SUFFICES ASSUME NoDeadNode, NEW s \in Strings(MaxText)
               PROVE  LET matches == {Len(k) : k \in {k \in DOMAIN Contents(trie) \ {<<>>} : Leads(k, Path(s))}}
                      IN  /\ Found(s, TRUE) = IF matches = {} THEN 0 ELSE Max(matches)
                          /\ Found(s, FALSE) = IF matches = {} THEN 0 ELSE Min(matches)
    BY DEF LookupExact
  <2> DEFINE valued == {m \in 1 .. Walk(s) : trie[Prefix(Path(s), m)] # Null}
  <2>1. DOMAIN Contents(trie) = Valued(trie)
    BY DEF Contents, Valued
  <2>2. {Len(k) : k \in {k \in DOMAIN Contents(trie) \ {<<>>} : Leads(k, Path(s))}} = valued
    BY <2>1, MatchesOf, ConstantsAssumption
  <2>3. /\ Found(s, TRUE) = IF valued = {} THEN 0 ELSE Max(valued)
        /\ Found(s, FALSE) = IF valued = {} THEN 0 ELSE Min(valued)
    BY DEF Found
  <2> HIDE DEF valued
  <2> QED
    BY <2>2, <2>3
<1> QED
  BY <1>1, NoDeadNodeHolds, PTL

-----------------------------------------------------------------------------
(***************************************************************************)
(* The map.                                                                *)
(***************************************************************************)
\* The same names mean the same.
LEMMA SameNames ==
    /\ \A n : Map!Texts(n) = Strings(n)
    /\ \A s : Map!Canonical(s) = Path(s)
    /\ Map!Keys = Valued(trie)
    /\ Contents(trie) = [k \in Valued(trie) |-> trie[k]]
    /\ \A k \in Valued(trie) : Contents(trie)[k] = trie[k]
<1>1. Contents(trie) = [k \in Valued(trie) |-> trie[k]]
  BY DEF Contents, Valued
<1> QED
  BY <1>1 DEF Map!Texts, Strings, Map!Canonical, Path, Map!Keys

\* In a trie with a key the prefixes of keys are the nodes.
LEMMA KeyPrefixes ==
    ASSUME NoDeadNode, Valued(trie) # {}, NEW p \in Seq(Letters)
    PROVE  p \in Map!Prefixes <=> p \in Nodes
<1>1. p \in Map!Prefixes <=> \E k \in Valued(trie) : \E n \in 0 .. Len(k) : p = Prefix(k, n)
  <2>1. Map!Prefixes = UNION {{Prefix(k, n) : n \in 0 .. Len(k)} : k \in Valued(trie)}
    BY SameNames DEF Map!Prefixes, Prefix
  <2> QED
    BY <2>1
<1>2. \A k : k \in Valued(trie) <=> k \in Nodes /\ trie[k] # Null
  BY DEF Valued, Nodes
<1>3. ASSUME NEW k \in Valued(trie)
      PROVE  Leads(p, k) <=> \E n \in 0 .. Len(k) : p = Prefix(k, n)
  <2>1. k \in Seq(Letters)
    BY <1>2, NodePaths
  <2> QED
    BY <2>1, LeadsByPrefix
<1>4. p \in Map!Prefixes <=> \E k \in Valued(trie) : Leads(p, k)
  BY <1>1, <1>3
<1>5. ASSUME NEW k \in Valued(trie), Leads(p, k) PROVE p \in Nodes
  BY <1>2, <1>5, NodePaths
<1>6. ASSUME p \in Nodes, p # <<>> PROVE \E k \in Valued(trie) : Leads(p, k)
  <2>1. p \in Nodes \ {<<>>}
    BY <1>6
  <2> QED
    BY <1>2, <2>1 DEF NoDeadNode
<1>7. ASSUME p = <<>> PROVE \E k \in Valued(trie) : Leads(p, k)
  <2>1. PICK k \in Valued(trie) : TRUE
    OBVIOUS
  <2>2. k \in Seq(Letters)
    BY <1>2, <2>1, NodePaths
  <2>3. Prefix(k, 0) = <<>> /\ 0 \in 0 .. Len(k)
    BY <2>2, Prefixes, LenProperties
  <2>4. Leads(<<>>, k)
    BY <1>3, <1>7, <2>3
  <2> QED
    BY <1>7, <2>4
<1> QED
  BY <1>4, <1>5, <1>6, <1>7

\* What a text shares with the keys is the walk of its nodes.
LEMMA SharedIsWalk ==
    ASSUME NoDeadNode, NEW n \in Nat, NEW s \in Strings(n)
    PROVE  Map!Shared(s) = Prefix(Path(s), Walk(s))
<1> DEFINE q == Path(s)
           common == {m \in 0 .. Len(s) : Prefix(q, m) \in Map!Prefixes}
<1>1. /\ Walk(s) \in 0 .. Len(s) /\ Len(s) \in Nat /\ Len(q) = Len(s) /\ q \in Seq(Letters)
      /\ Prefix(q, Walk(s)) \in Nodes
      /\ \A m \in 0 .. Len(s) : Prefix(q, m) \in Nodes <=> m =< Walk(s)
  BY WalkOf, TextPaths
<1>2. Map!Shared(s) = Prefix(q, IF common = {} THEN 0 ELSE Max(common))
  <2>1. Map!Canonical(s) = q
    BY SameNames
  <2>2. common = {m \in 0 .. Len(s) : SubSeq(q, 1, m) \in Map!Prefixes}
    BY DEF Prefix
  <2>3. Map!Max(common) = Max(common)
    BY DEF Map!Max, Max
  <2>4. Map!Shared(s) = SubSeq(q, 1, IF common = {} THEN 0 ELSE Map!Max(common))
    BY <2>1, <2>2 DEF Map!Shared
  <2> HIDE DEF common
  <2> QED
    BY <2>3, <2>4 DEF Prefix
<1>3. CASE Valued(trie) = {}
  <2>1. Map!Prefixes = {}
    BY <1>3, SameNames DEF Map!Prefixes
  <2>2. Nodes \subseteq {<<>>}
    BY <1>3 DEF NoDeadNode, Valued, Nodes
  <2>3. Len(Prefix(q, Walk(s))) = Walk(s) /\ Prefix(q, Walk(s)) = <<>>
    BY <1>1, <2>2, PrefixOf
  <2>4. Walk(s) = 0
    BY <2>3, EmptySeq
  <2> QED
    BY <1>2, <2>1, <2>4
<1>4. CASE Valued(trie) # {}
  <2>1. \A m \in 0 .. Len(s) : Prefix(q, m) \in Map!Prefixes <=> m =< Walk(s)
    <3>1. \A m \in 0 .. Len(s) : Prefix(q, m) \in Seq(Letters)
      BY <1>1, PrefixOf
    <3>2. \A m \in 0 .. Len(s) : Prefix(q, m) \in Map!Prefixes <=> Prefix(q, m) \in Nodes
      BY <1>4, <3>1, KeyPrefixes
    <3> QED
      BY <1>1, <3>2
  <2>2. common \in SUBSET (0 .. Len(s)) /\ Walk(s) \in common /\ \A m \in common : m =< Walk(s)
    BY <1>1, <2>1
  <2> HIDE DEF common, q
  <2>3. Max(common) \in common /\ \A m \in common : m =< Max(common)
    BY <1>1, <2>2, MaxMin
  <2>4. Max(common) = Walk(s)
    <3>1. Max(common) =< Walk(s) /\ Walk(s) =< Max(common)
      BY <2>2, <2>3
    <3>2. \A m \in 0 .. Len(s) : m \in Int
      OBVIOUS
    <3>3. Max(common) \in 0 .. Len(s) /\ Walk(s) \in 0 .. Len(s)
      BY <1>1, <2>2, <2>3
    <3>4. Max(common) \in Int /\ Walk(s) \in Int
      BY <3>2, <3>3
    <3>5. \A m, k \in Int : m =< k /\ k =< m => m = k
      OBVIOUS
    <3> QED
      BY <3>1, <3>4, <3>5
  <2>5. common # {}
    BY <2>2
  <2>6. Map!Shared(s) = Prefix(q, Walk(s))
    BY <1>2, <2>4, <2>5
  <2> QED
    BY <2>6 DEF q
<1> QED
  BY <1>3, <1>4

\* A trie is a map from keys to values, whatever nodes its keys share.
THEOREM MapImplemented == Spec => ImplementsMap
<1>0. MaxKey \in Nat /\ MaxText \in Nat
  BY ConstantsAssumption
<1>1. Init => Map!Init
  BY EmptyTrie DEF Init, Map!Init
<1>2. NoDeadNode /\ [Next]_trie => [Map!Next]_(Contents(trie))
  <2> SUFFICES ASSUME NoDeadNode, [Next]_trie PROVE Map!Next \/ Contents(trie)' = Contents(trie)
    OBVIOUS
  <2>0. /\ Map!Texts(MaxKey) = Strings(MaxKey) /\ Map!Texts(MaxText) = Strings(MaxText)
    BY SameNames
  <2>1. ASSUME NEW s \in Strings(MaxKey), NEW v \in Values, Insert(s, v) PROVE Map!Next
    <3>1. Contents(trie') = [p \in DOMAIN Contents(trie) \cup {Path(s)} |->
                                 IF p = Path(s) THEN v ELSE Contents(trie)[p]]
      BY <2>1, EnterContents DEF Insert
    <3>2. Map!Insert(s, v)
      BY <3>1, SameNames DEF Map!Insert, Map!With, Map!Keys
    <3> QED
      BY <2>0, <3>2 DEF Map!Next
  <2>2. ASSUME NEW s \in Strings(MaxKey), Touch(s) PROVE Map!Next
    <3>1. PICK v \in Values :
            /\ trie' = [WithPath(s) EXCEPT ![Path(s)] = v]
            /\ v = IF Path(s) \in Valued(trie) THEN trie[Path(s)] ELSE Default
      BY <2>2, TouchEnters
    <3>2. Contents(trie') = [p \in DOMAIN Contents(trie) \cup {Path(s)} |->
                                 IF p = Path(s) THEN v ELSE Contents(trie)[p]]
      BY <3>1, EnterContents
    <3>3. v = IF Path(s) \in DOMAIN Contents(trie) THEN Contents(trie)[Path(s)] ELSE Default
      BY <3>1 DEF Contents, Valued
    <3>4. Map!Touch(s)
      BY <3>2, <3>3, SameNames DEF Map!Touch, Map!With, Map!Keys
    <3> QED
      BY <2>0, <3>4 DEF Map!Next
  <2>3. ASSUME NEW s \in Strings(MaxText), Erase(s) PROVE Map!Next
    <3>1. Contents(trie') = [k \in Valued(trie) \ ({Prefix(Path(s), Walk(s))} \ {<<>>}) |-> trie[k]]
      BY <1>0, <2>3, EraseKeeps
    <3>2. Map!Shared(s) = Prefix(Path(s), Walk(s))
      BY <1>0, SharedIsWalk
    <3>3. Map!Erase(s)
      BY <3>1, <3>2, SameNames DEF Map!Erase
    <3> QED
      BY <2>0, <3>3 DEF Map!Next
  <2>4. CASE MoveOut
    <3>1. (trie = Empty)' => (Contents(trie) = <<>>)'
      BY EmptyTrie, PTL
    <3>2. Map!Clear
      BY <2>4, <3>1 DEF MoveOut, Empty, Map!Clear
    <3> QED
      BY <3>2 DEF Map!Next
  <2>5. CASE UNCHANGED trie
    BY <2>5 DEF Contents
  <2> QED
    BY <2>1, <2>2, <2>3, <2>4, <2>5 DEF Next
<1> QED
  BY <1>1, <1>2, NoDeadNodeHolds, PTL DEF Spec, ImplementsMap, Map!Spec

-----------------------------------------------------------------------------
(***************************************************************************)
(* Subscriptions.                                                          *)
(***************************************************************************)
\* The slots subscribed are the values of the list at its positions.
LEMMA ListedMeans ==
    ASSUME Handles!TypeOK
    PROVE  /\ Len(list_) \in Nat /\ DOMAIN list_ = 1 .. Len(list_)
           /\ Handles!Listed \subseteq 1 .. id_
<1>1. Len(list_) \in Nat /\ DOMAIN list_ = 1 .. Len(list_)
  BY LenProperties DEF Handles!TypeOK
<1>2. \A i \in 1 .. Len(list_) : list_[i] \in 1 .. id_
  BY ElementOfSeq DEF Handles!TypeOK
<1> QED
  BY <1>1, <1>2 DEF Handles!Listed

\* remove_by_index takes the slot out, wherever it is, and no other: the loop meets
\* every id because the list is sorted.
LEMMA RemoveTakesOut ==
    ASSUME Handles!TypeOK, Handles!Sorted, NEW k \in 1 .. id_,
           NEW list, list = Handles!RemoveByIndex(k)
    PROVE  /\ list \in Seq(1 .. id_)
           /\ {list[i] : i \in DOMAIN list} = Handles!Listed \ {k}
           /\ \A i, j \in DOMAIN list : i < j => list[i] < list[j]
<1>1. /\ Len(list_) \in Nat /\ DOMAIN list_ = 1 .. Len(list_)
      /\ \A i \in DOMAIN list_ : list_[i] \in 1 .. id_
  BY ListedMeans DEF Handles!Listed
<1>2. id_ \in Nat /\ k \in Nat
  BY DEF Handles!TypeOK
<1>3. \A i \in DOMAIN list_ : list_[i] = k => i \in Handles!StopsAt(k)
  BY <1>1, <1>2 DEF Handles!StopsAt, Handles!Sorted
<1>4. CASE Handles!StopsAt(k) = {}
  <2>1. list = list_ /\ k \notin Handles!Listed
    BY <1>3, <1>4 DEF Handles!RemoveByIndex, Handles!Listed
  <2> QED
    BY <2>1 DEF Handles!TypeOK, Handles!Sorted, Handles!Listed
<1>5. CASE Handles!StopsAt(k) # {}
  <2>1. PICK n \in Handles!StopsAt(k) : list = Handles!Without(list_, n)
    BY <1>5 DEF Handles!RemoveByIndex
  <2>2. n \in 1 .. Len(list_) /\ list_[n] = k /\ Len(list_) - 1 \in Nat
    BY <1>1, <2>1 DEF Handles!StopsAt
  <2>3. /\ DOMAIN list = 1 .. Len(list_) - 1
        /\ \A j \in DOMAIN list : list[j] = IF j < n THEN list_[j] ELSE list_[j + 1]
    BY <2>1 DEF Handles!Without
  <2>4. list \in Seq(1 .. id_)
    <3>1. \A j \in 1 .. Len(list_) - 1 :
            (IF j < n THEN list_[j] ELSE list_[j + 1]) \in 1 .. id_
      BY <1>1, <2>2
    <3>2. list \in [1 .. Len(list_) - 1 -> 1 .. id_]
      BY <2>1, <3>1 DEF Handles!Without
    <3> QED
      BY <2>2, <3>2, SeqDef
  <2>5. \A i, j \in DOMAIN list : i < j => list[i] < list[j]
    BY <1>1, <2>2, <2>3 DEF Handles!Sorted
  <2>6. \A j \in DOMAIN list : list[j] \in Handles!Listed \ {k}
    BY <1>1, <1>2, <2>2, <2>3 DEF Handles!Sorted, Handles!Listed
  <2>7. \A i \in DOMAIN list_ : list_[i] # k => \E j \in DOMAIN list : list[j] = list_[i]
    <3>1. SUFFICES ASSUME NEW i \in DOMAIN list_, list_[i] # k
                   PROVE  \E j \in DOMAIN list : list[j] = list_[i]
      OBVIOUS
    <3>2. CASE i < n
      <4>1. i \in DOMAIN list /\ list[i] = list_[i]
        BY <1>1, <2>2, <2>3, <3>2
      <4> QED
        BY <4>1
    <3>3. CASE n < i
      <4>1. i - 1 \in DOMAIN list /\ list[i - 1] = list_[i]
        BY <1>1, <2>2, <2>3, <3>3
      <4> QED
        BY <4>1
    <3> QED
      BY <1>1, <2>2, <3>1, <3>2, <3>3
  <2>8. {list[i] : i \in DOMAIN list} = Handles!Listed \ {k}
    BY <2>6, <2>7 DEF Handles!Listed
  <2> QED
    BY <2>4, <2>5, <2>8
<1> QED
  BY <1>4, <1>5

\* The value of an empty handle is not a slot.
NothingIsNoSlot == Nothing \notin Nat

\* Running the unsubscriber k, or none, takes k's slot out of the list, also when the
\* observer is gone: it has no slots then.
LEMMA RunTakesOut ==
    ASSUME NothingIsNoSlot, Handles!Inductive, NEW k \in Handles!HeldIds,
           list_' = Handles!Run(k), UNCHANGED <<id_, alive>>
    PROVE  /\ list_' \in Seq(1 .. id_) /\ Handles!Sorted' /\ Handles!GoneIsEmpty'
           /\ Handles!Listed' = Handles!Listed \ {k}
<1>1. /\ Handles!TypeOK /\ Handles!Sorted /\ Handles!GoneIsEmpty
      /\ Handles!Listed \subseteq 1 .. id_ /\ id_ \in Nat
  BY ListedMeans DEF Handles!Inductive, Handles!TypeOK
<1>2. CASE k = Nothing \/ ~alive
  <2>1. list_' = list_ /\ alive' = alive
    BY <1>2 DEF Handles!Run
  <2>2. Handles!Listed = Handles!Listed \ {k}
    <3>1. CASE k = Nothing
      <4>1. \A i \in 1 .. id_ : i \in Nat
        BY <1>1
      <4>2. k \notin Handles!Listed
        BY <1>1, <3>1, <4>1 DEF NothingIsNoSlot
      <4> QED
        BY <4>2
    <3>2. CASE ~alive
      BY <1>1, <3>2 DEF Handles!GoneIsEmpty, Handles!Listed
    <3> QED
      BY <1>2, <3>1, <3>2
  <2>3. list_' \in Seq(1 .. id_)
    BY <1>1, <2>1 DEF Handles!TypeOK
  <2>4. Handles!Sorted' /\ Handles!GoneIsEmpty' /\ Handles!Listed' = Handles!Listed
    BY <1>1, <2>1 DEF Handles!Sorted, Handles!GoneIsEmpty, Handles!Listed
  <2> QED
    BY <2>2, <2>3, <2>4
<1>3. CASE k # Nothing /\ alive
  <2>1. k \in 1 .. id_ /\ list_' = Handles!RemoveByIndex(k) /\ alive'
    BY <1>3 DEF Handles!Run, Handles!HeldIds
  <2>2. /\ list_' \in Seq(1 .. id_)
        /\ {list_'[i] : i \in DOMAIN list_'} = Handles!Listed \ {k}
        /\ \A i, j \in DOMAIN list_' : i < j => list_'[i] < list_'[j]
    BY <1>1, <2>1, RemoveTakesOut
  <2> QED
    BY <2>1, <2>2 DEF Handles!Sorted, Handles!GoneIsEmpty, Handles!Listed
<1> QED
  BY <1>2, <1>3

\* Initially there is nothing.
LEMMA InitInductive == Handles!Init => Handles!Inductive
<1> SUFFICES ASSUME Handles!Init PROVE Handles!Inductive
  OBVIOUS
<1>1. list_ = <<>> /\ Handles!Listed = {}
  BY DEF Handles!Init, Handles!Listed
<1> QED
  BY <1>1 DEF Handles!Init, Handles!Inductive, Handles!TypeOK, Handles!HeldIds, Handles!Sorted,
     Handles!GoneIsEmpty, Handles!HandlesKeepSlots, Handles!ScopedGuards,
              Handles!SubscribedUntilTold

\* Drawing an id and appending it keeps the list sorted.
LEMMA AppendKeeps ==
    ASSUME Handles!Inductive, alive, id_' = id_ + 1, list_' = Append(list_, id_'), alive' = alive
    PROVE  /\ id_' \in Nat /\ list_' \in Seq(1 .. id_') /\ Handles!Sorted' /\ Handles!GoneIsEmpty'
           /\ Handles!Listed' = Handles!Listed \cup {id_'}
<1>1. /\ Handles!TypeOK /\ Handles!Sorted /\ id_ \in Nat
      /\ Len(list_) \in Nat /\ DOMAIN list_ = 1 .. Len(list_)
  BY ListedMeans DEF Handles!Inductive, Handles!TypeOK
<1>2. list_ \in Seq(1 .. id_') /\ id_' \in 1 .. id_'
  <2>1. \A i \in 1 .. Len(list_) : list_[i] \in 1 .. id_'
    BY <1>1, ElementOfSeq DEF Handles!TypeOK
  <2>2. list_ \in [1 .. Len(list_) -> 1 .. id_']
    BY <1>1, <2>1, LenProperties DEF Handles!TypeOK
  <2> QED
    BY <1>1, <2>2, SeqDef
<1>3. /\ list_' \in Seq(1 .. id_') /\ Len(list_') = Len(list_) + 1
      /\ \A i \in 1 .. Len(list_) : list_'[i] = list_[i]
      /\ list_'[Len(list_) + 1] = id_'
  BY <1>2, AppendProperties
<1>4. DOMAIN list_' = 1 .. Len(list_) + 1
  BY <1>3, LenProperties
<1>5. Handles!Sorted'
  <2>1. \A i \in 1 .. Len(list_) : list_[i] < id_'
    BY <1>1, ElementOfSeq DEF Handles!TypeOK
  <2> QED
    BY <1>1, <1>3, <1>4, <2>1 DEF Handles!Sorted
<1>6. Handles!Listed' = Handles!Listed \cup {id_'}
  BY <1>1, <1>3, <1>4 DEF Handles!Listed
<1> QED
  BY <1>1, <1>3, <1>5, <1>6 DEF Handles!GoneIsEmpty

-----------------------------------------------------------------------------
\* A step that leaves the list, the observer and the history of the slots alone keeps
\* the invariant if the handles keep what they may have and scoped ones lose nothing.
LEMMA HandlesMoveKeeps ==
    ASSUME Handles!Inductive, UNCHANGED <<list_, id_, alive, told>>, guarded' \subseteq guarded,
           plain' \in [Plain -> Handles!HeldIds], scoped' \in [Scoped -> Handles!HeldIds],
           (Handles!HeldByScoped \ Handles!HeldByScoped') \cap guarded' = {}
    PROVE  Handles!Inductive'
<1>1. Handles!TypeOK'
  BY DEF Handles!Inductive, Handles!TypeOK, Handles!HeldIds
<1>2. Handles!Listed' = Handles!Listed
  BY DEF Handles!Listed
<1>3. Handles!ScopedGuards' /\ Handles!SubscribedUntilTold'
  BY <1>2 DEF Handles!Inductive, Handles!HandlesKeepSlots, Handles!ScopedGuards,
     Handles!SubscribedUntilTold
<1> QED
  BY <1>1, <1>3 DEF Handles!Inductive, Handles!Sorted, Handles!GoneIsEmpty, Handles!HandlesKeepSlots

\* A step that runs the unsubscriber k, or none, keeps it if scoped handles lose only k,
\* and what is guarded from now on they have.
LEMMA UnsubscribeKeeps ==
    ASSUME NothingIsNoSlot, Handles!Inductive, NEW k \in Handles!HeldIds,
           list_' = Handles!Run(k), told' = Handles!Told(k), UNCHANGED <<id_, alive>>,
           plain' \in [Plain -> Handles!HeldIds], scoped' \in [Scoped -> Handles!HeldIds],
           guarded' \subseteq 1 .. id_, guarded' \subseteq guarded \cup Handles!HeldByScoped',
           Handles!HeldByScoped \subseteq Handles!HeldByScoped' \cup {k}
    PROVE  Handles!Inductive'
<1>1. /\ list_' \in Seq(1 .. id_) /\ Handles!Sorted' /\ Handles!GoneIsEmpty'
      /\ Handles!Listed' = Handles!Listed \ {k}
  BY RunTakesOut
<1>2. told' \subseteq 1 .. id_
  BY DEF Handles!Inductive, Handles!TypeOK, Handles!Told, Handles!HeldIds
<1>3. Handles!TypeOK'
  BY <1>1, <1>2 DEF Handles!Inductive, Handles!TypeOK, Handles!HeldIds
<1>4. Handles!ScopedGuards'
  BY <1>1 DEF Handles!Inductive, Handles!HandlesKeepSlots, Handles!ScopedGuards
<1>5. Handles!SubscribedUntilTold'
  <2>1. Nothing \notin 1 .. id_
    BY DEF NothingIsNoSlot, Handles!Inductive, Handles!TypeOK
  <2> QED
    BY <1>1, <2>1 DEF Handles!Inductive, Handles!HandlesKeepSlots, Handles!SubscribedUntilTold,
       Handles!Told
<1> QED
  BY <1>1, <1>3, <1>4, <1>5 DEF Handles!Inductive, Handles!HandlesKeepSlots

\* A subscription into a handle that has none keeps it: nobody has the new id yet.
LEMMA SubscribeKeeps ==
    ASSUME NothingIsNoSlot, Handles!Inductive, alive, alive' = alive,
           id_' = id_ + 1, list_' = Append(list_, id_'), told' = told,
           plain' \in [Plain -> Handles!HeldIds'], scoped' \in [Scoped -> Handles!HeldIds'],
           guarded' \subseteq guarded \cup ({id_'} \cap Handles!HeldByScoped'),
           Handles!HeldByScoped \subseteq Handles!HeldByScoped'
    PROVE  Handles!Inductive'
<1>1. /\ id_' \in Nat /\ list_' \in Seq(1 .. id_') /\ Handles!Sorted' /\ Handles!GoneIsEmpty'
      /\ Handles!Listed' = Handles!Listed \cup {id_'}
  BY AppendKeeps
<1>2. id_ \in Nat /\ told \subseteq 1 .. id_ /\ guarded \subseteq 1 .. id_
  BY DEF Handles!Inductive, Handles!TypeOK
<1>3. 1 .. id_' = (1 .. id_) \cup {id_'} /\ id_' \notin 1 .. id_
  BY <1>2
<1>4. Handles!TypeOK'
  BY <1>1, <1>2, <1>3 DEF Handles!Inductive, Handles!TypeOK
<1>5. Handles!ScopedGuards'
  BY <1>1, <1>2, <1>3 DEF Handles!Inductive, Handles!HandlesKeepSlots, Handles!ScopedGuards
<1>6. Handles!SubscribedUntilTold'
  BY <1>1, <1>2, <1>3 DEF Handles!Inductive, Handles!HandlesKeepSlots, Handles!SubscribedUntilTold
<1> QED
  BY <1>1, <1>4, <1>5, <1>6 DEF Handles!Inductive, Handles!HandlesKeepSlots

\* Without slots nothing is guarded, and everybody was told.
LEMMA EmptyKeeps ==
    ASSUME Handles!Inductive, list_' = <<>>, told' = 1 .. id_, alive' \in BOOLEAN,
           UNCHANGED <<id_, plain, scoped, guarded>>
    PROVE  Handles!Inductive'
<1>1. Handles!Listed' = {} /\ <<>> \in Seq(1 .. id_)
  BY DEF Handles!Listed
<1>2. Handles!TypeOK'
  BY <1>1 DEF Handles!Inductive, Handles!TypeOK, Handles!HeldIds
<1>3. Handles!Sorted' /\ Handles!GoneIsEmpty'
  BY DEF Handles!Sorted, Handles!GoneIsEmpty
<1>4. Handles!ScopedGuards' /\ Handles!SubscribedUntilTold'
  BY <1>1 DEF Handles!Inductive, Handles!HandlesKeepSlots, Handles!ScopedGuards,
     Handles!SubscribedUntilTold
<1> QED
  BY <1>2, <1>3, <1>4 DEF Handles!Inductive, Handles!HandlesKeepSlots

-----------------------------------------------------------------------------
\* Every operation of the handles and the observer keeps the invariant.
LEMMA NextInductive ==
    ASSUME NothingIsNoSlot, Handles!Inductive, [Handles!Next]_(Handles!vars)
    PROVE  Handles!Inductive'
<1>0. /\ id_ \in Nat /\ guarded \subseteq 1 .. id_ /\ Nothing \in Handles!HeldIds
      /\ plain \in [Plain -> Handles!HeldIds] /\ scoped \in [Scoped -> Handles!HeldIds]
  BY DEF Handles!Inductive, Handles!TypeOK, Handles!HeldIds
<1>1. ASSUME NEW p \in Plain, Handles!Subscribe(p) PROVE Handles!Inductive'
  <2>1. Handles!HeldIds \subseteq Handles!HeldIds' /\ id_' \in Handles!HeldIds'
    BY <1>0, <1>1 DEF Handles!Subscribe, Handles!HeldIds
  <2>2. plain' \in [Plain -> Handles!HeldIds'] /\ scoped' \in [Scoped -> Handles!HeldIds']
    BY <1>0, <1>1, <2>1 DEF Handles!Subscribe
  <2>3. Handles!HeldByScoped' = Handles!HeldByScoped
    BY <1>1 DEF Handles!Subscribe, Handles!HeldByScoped
  <2> QED
    BY <1>1, <2>2, <2>3, SubscribeKeeps DEF Handles!Subscribe
<1>2. ASSUME NEW p \in Plain, Handles!UnsubscribePlain(p) PROVE Handles!Inductive'
  <2>1. plain[p] \in Handles!HeldIds
    BY <1>0, <1>2
  <2>2. /\ Handles!HeldByScoped' = Handles!HeldByScoped
        /\ plain' \in [Plain -> Handles!HeldIds] /\ scoped' \in [Scoped -> Handles!HeldIds]
    BY <1>0, <1>2 DEF Handles!UnsubscribePlain, Handles!HeldByScoped
  <2> QED
    BY <1>0, <1>2, <2>1, <2>2, UnsubscribeKeeps DEF Handles!UnsubscribePlain
<1>3. ASSUME NEW p \in Plain, NEW q \in Plain,
             Handles!AssignPlain(p, q) \/ Handles!SwapPlain(p, q) \/ Handles!ForgetPlain(p)
      PROVE  Handles!Inductive'
  <2>1. /\ UNCHANGED <<list_, id_, alive, told, scoped, guarded>>
        /\ plain' \in [Plain -> Handles!HeldIds]
    BY <1>0, <1>3 DEF Handles!AssignPlain, Handles!SwapPlain, Handles!ForgetPlain
  <2>2. Handles!HeldByScoped' = Handles!HeldByScoped
    BY <2>1 DEF Handles!HeldByScoped
  <2> QED
    BY <1>0, <2>1, <2>2, HandlesMoveKeeps
<1>4. ASSUME NEW s \in Scoped, Handles!SubscribeScoped(s) PROVE Handles!Inductive'
  <2>1. Handles!HeldIds \subseteq Handles!HeldIds' /\ id_' \in Handles!HeldIds' /\ id_' # Nothing
    BY <1>0, <1>4 DEF Handles!SubscribeScoped, Handles!HeldIds, NothingIsNoSlot
  <2>2. plain' \in [Plain -> Handles!HeldIds'] /\ scoped' \in [Scoped -> Handles!HeldIds']
    BY <1>0, <1>4, <2>1 DEF Handles!SubscribeScoped
  <2>3. id_' \in Handles!HeldByScoped' /\ Handles!HeldByScoped \subseteq Handles!HeldByScoped'
    BY <1>0, <1>4, <2>1 DEF Handles!SubscribeScoped, Handles!HeldByScoped
  <2>4. guarded' = guarded \cup {id_'}
    BY <1>4, <2>1 DEF Handles!SubscribeScoped, Handles!Taken
  <2> QED
    BY <1>4, <2>2, <2>3, <2>4, SubscribeKeeps DEF Handles!SubscribeScoped
<1>5. ASSUME NEW s \in Scoped, Handles!UnsubscribeScoped(s) PROVE Handles!Inductive'
  <2>1. scoped[s] \in Handles!HeldIds
    BY <1>0, <1>5
  <2>2. /\ Handles!HeldByScoped' = Handles!HeldByScoped
        /\ plain' \in [Plain -> Handles!HeldIds] /\ scoped' \in [Scoped -> Handles!HeldIds]
    BY <1>0, <1>5 DEF Handles!UnsubscribeScoped, Handles!HeldByScoped
  <2> QED
    BY <1>0, <1>5, <2>1, <2>2, UnsubscribeKeeps DEF Handles!UnsubscribeScoped
<1>6. ASSUME NEW s \in Scoped, Handles!Reset(s) PROVE Handles!Inductive'
  <2>1. scoped[s] \in Handles!HeldIds
    BY <1>0, <1>6
  <2>2. plain' \in [Plain -> Handles!HeldIds] /\ scoped' \in [Scoped -> Handles!HeldIds]
    BY <1>0, <1>6 DEF Handles!Reset
  <2>3. Handles!HeldByScoped \subseteq Handles!HeldByScoped' \cup {scoped[s]}
    BY <1>0, <1>6 DEF Handles!Reset, Handles!HeldByScoped
  <2> QED
    BY <1>0, <1>6, <2>1, <2>2, <2>3, UnsubscribeKeeps DEF Handles!Reset
<1>7. ASSUME NEW s \in Scoped, NEW p \in Plain, Handles!CopyIn(s, p) \/ Handles!MoveIn(s, p)
      PROVE  Handles!Inductive'
  <2>1. /\ scoped[s] \in Handles!HeldIds /\ plain[p] \in Handles!HeldIds
        /\ list_' = Handles!Run(scoped[s]) /\ told' = Handles!Told(scoped[s])
        /\ UNCHANGED <<id_, alive>>
        /\ guarded' = Handles!Taken(plain[p]) /\ scoped' = [scoped EXCEPT ![s] = plain[p]]
    BY <1>0, <1>7 DEF Handles!CopyIn, Handles!MoveIn, Handles!DropOld
  <2>2. plain' \in [Plain -> Handles!HeldIds] /\ scoped' \in [Scoped -> Handles!HeldIds]
    BY <1>0, <1>7, <2>1 DEF Handles!CopyIn, Handles!MoveIn
  <2>3. /\ Handles!HeldByScoped \subseteq Handles!HeldByScoped' \cup {scoped[s]}
        /\ {plain[p]} \ {Nothing} \subseteq Handles!HeldByScoped'
    BY <1>0, <2>1 DEF Handles!HeldByScoped
  <2>4. guarded' \subseteq 1 .. id_ /\ guarded' \subseteq guarded \cup Handles!HeldByScoped'
    BY <1>0, <2>1, <2>3 DEF Handles!Taken, Handles!HeldIds
  <2> QED
    BY <2>1, <2>2, <2>3, <2>4, UnsubscribeKeeps
<1>8. ASSUME NEW s \in Scoped, NEW p \in Plain, Handles!Release(s, p) PROVE Handles!Inductive'
  <2>1. /\ plain' \in [Plain -> Handles!HeldIds] /\ scoped' \in [Scoped -> Handles!HeldIds]
        /\ guarded' \subseteq guarded
    BY <1>0, <1>8 DEF Handles!Release
  <2>2. scoped' = [scoped EXCEPT ![s] = Nothing]
    BY <1>8 DEF Handles!Release
  <2>3. Handles!HeldByScoped \ Handles!HeldByScoped' \subseteq {scoped[s]}
    BY <1>0, <2>2 DEF Handles!HeldByScoped
  <2>4. (Handles!HeldByScoped \ Handles!HeldByScoped') \cap guarded' = {}
    <3>1. CASE \E o \in Scoped \ {s} : scoped[o] = scoped[s]
      <4>1. Handles!HeldByScoped \subseteq Handles!HeldByScoped'
        BY <1>0, <2>2, <3>1 DEF Handles!HeldByScoped
      <4> QED
        BY <4>1
    <3>2. CASE ~ \E o \in Scoped \ {s} : scoped[o] = scoped[s]
      BY <1>8, <2>3, <3>2 DEF Handles!Release
    <3> QED
      BY <3>1, <3>2
  <2> QED
    BY <1>8, <2>1, <2>4, HandlesMoveKeeps DEF Handles!Release
<1>9. ASSUME NEW s \in Scoped, NEW o \in Scoped, Handles!Move(s, o) PROVE Handles!Inductive'
  <2>1. scoped[s] \in Handles!HeldIds
    BY <1>0
  <2>2. plain' \in [Plain -> Handles!HeldIds] /\ scoped' \in [Scoped -> Handles!HeldIds]
    BY <1>0, <1>9 DEF Handles!Move
  <2>3. Handles!HeldByScoped \subseteq Handles!HeldByScoped' \cup {scoped[s]}
    <3>1. /\ scoped'[s] = scoped[o]
          /\ \A r \in Scoped \ {s, o} : scoped'[r] = scoped[r]
      BY <1>0, <1>9 DEF Handles!Move
    <3> QED
      BY <3>1 DEF Handles!HeldByScoped
  <2> QED
    BY <1>0, <1>9, <2>1, <2>2, <2>3, UnsubscribeKeeps DEF Handles!Move, Handles!DropOld
<1>10. ASSUME NEW s \in Scoped, NEW o \in Scoped, Handles!Swap(s, o) PROVE Handles!Inductive'
  <2>1. plain' \in [Plain -> Handles!HeldIds] /\ scoped' \in [Scoped -> Handles!HeldIds]
    BY <1>0, <1>10 DEF Handles!Swap
  <2>2. Handles!HeldByScoped \subseteq Handles!HeldByScoped'
    <3>1. /\ scoped'[s] = scoped[o] /\ scoped'[o] = scoped[s]
          /\ \A r \in Scoped \ {s, o} : scoped'[r] = scoped[r]
      BY <1>0, <1>10 DEF Handles!Swap
    <3> QED
      BY <3>1 DEF Handles!HeldByScoped
  <2> QED
    BY <1>10, <2>1, <2>2, HandlesMoveKeeps DEF Handles!Swap
<1>11. CASE Handles!UnsubscribeAll \/ Handles!DestroyObserver
  <2>1. alive' \in BOOLEAN
    BY <1>11 DEF Handles!UnsubscribeAll, Handles!DestroyObserver, Handles!Inductive, Handles!TypeOK
  <2> QED
    BY <1>11, <2>1, EmptyKeeps DEF Handles!UnsubscribeAll, Handles!DestroyObserver
<1>12. ASSUME UNCHANGED <<list_, id_, alive, plain, scoped, guarded, told>> PROVE Handles!Inductive'
  <2>1. Handles!HeldByScoped' = Handles!HeldByScoped
    BY <1>12 DEF Handles!HeldByScoped
  <2> QED
    BY <1>0, <1>12, <2>1, HandlesMoveKeeps
<1>13. CASE UNCHANGED Handles!vars
  BY <1>12, <1>13 DEF Handles!vars
<1> QED
  BY <1>1, <1>2, <1>3, <1>4, <1>5, <1>6, <1>7, <1>8, <1>9, <1>10, <1>11, <1>13 DEF
     Handles!Next

\* The invariant holds in every state of every behaviour.
THEOREM InductiveHolds == ASSUME NothingIsNoSlot PROVE Handles!Spec => []Handles!Inductive
<1>1. Handles!Inductive /\ [Handles!Next]_(Handles!vars) => Handles!Inductive'
  BY NextInductive
<1> QED
  BY <1>1, InitInductive, PTL DEF Handles!Spec

\* For any handles and any number of slots: a slot is subscribed exactly until its own
\* unsubscriber is run (fimpl.h:61), and one that a scoped handle took and did not
\* release is subscribed only while a scoped handle has it (scoped-subscription.h:15).
THEOREM SlotsAreKept == ASSUME NothingIsNoSlot PROVE Handles!Spec => []Handles!HandlesKeepSlots
<1>1. Handles!Inductive => Handles!HandlesKeepSlots
  BY DEF Handles!Inductive
<1> QED
  BY <1>1, InductiveHolds, PTL

-----------------------------------------------------------------------------
(***************************************************************************)
(* Subsystems.                                                             *)
(***************************************************************************)
\* A sequence with an element in front of it.
LEMMA InFront ==
    ASSUME NEW S, NEW e \in S, NEW s \in Seq(S)
    PROVE  /\ <<e>> \o s \in Seq(S) /\ DOMAIN (<<e>> \o s) = 1 .. Len(s) + 1
           /\ (<<e>> \o s)[1] = e
           /\ \A n \in 1 .. Len(s) : (<<e>> \o s)[n + 1] = s[n]
<1> DEFINE f == <<e>>
<1>1. f \in Seq(S) /\ Len(f) = 1 /\ f[1] = e
  OBVIOUS
<1> HIDE DEF f
<1>2. Len(s) \in Nat
  BY LenProperties
<1>3. /\ f \o s \in Seq(S) /\ Len(f \o s) = Len(f) + Len(s)
      /\ \A i \in 1 .. Len(f) + Len(s) :
           (f \o s)[i] = IF i =< Len(f) THEN f[i] ELSE s[i - Len(f)]
  <2>1. f \in Seq(S)
    BY <1>1
  <2> QED
    BY <2>1, ConcatProperties
<1>4. DOMAIN (f \o s) = 1 .. Len(s) + 1
  BY <1>1, <1>2, <1>3, LenProperties
<1>5. (f \o s)[1] = e
  BY <1>1, <1>2, <1>3
<1>6. ASSUME NEW n \in 1 .. Len(s) PROVE (f \o s)[n + 1] = s[n]
  <2>1. n + 1 \in 1 .. 1 + Len(s) /\ ~(n + 1 =< 1) /\ (n + 1) - 1 = n
    BY <1>2
  <2> QED
    BY <1>1, <1>3, <2>1
<1> QED
  BY <1>3, <1>4, <1>5, <1>6 DEF f

\* A call under way, wherever it is in the order of its root.
AnyFrame == [root : Started!Roots, call : Functions, at : Nat, enter : BOOLEAN]

SubsystemTypes ==
    /\ frames \in [Threads -> Seq(AnyFrame)]
    /\ ifaces_order_ \in [Started!Roots -> Seq(Nat)]
    /\ since \in [Started!Roots -> SUBSET Nat]
    /\ added \in Nat

\* A call f has passed the first f.at subsystems in the order of its root, and if it is
\* an init() it has called theirs.
Passed(f, order, called) ==
    /\ f.at =< Len(order[f.root])
    /\ f.call = "init" => \A i \in 1 .. f.at : order[f.root][i] \in called
AllPassed ==
    \A t \in Threads : \A n \in DOMAIN frames[t] : Passed(frames[t][n], ifaces_order_, inited)

\* One of the calls S is an init() of r that will come to the position i.
Ahead(S, r, i) == \E n \in DOMAIN S : S[n].root = r /\ S[n].call = "init" /\ S[n].at < i

\* Of two calls of for_each() of the same root one is not of another thread.
OneThreadEach ==
    \A t, u \in Threads : \A m \in DOMAIN frames[t], n \in DOMAIN frames[u] :
        frames[t][m].root = frames[u][n].root => t = u

StartedInv == SubsystemTypes /\ AllPassed /\ OneThreadEach /\ Started!NoneLeftOut

\* The frames of a thread, its first and the others.
LEMMA FramesOf ==
    ASSUME SubsystemTypes, NEW t \in Threads
    PROVE  /\ frames[t] \in Seq(AnyFrame) /\ Len(frames[t]) \in Nat
           /\ DOMAIN frames[t] = 1 .. Len(frames[t])
           /\ \A n \in 1 .. Len(frames[t]) : frames[t][n] \in AnyFrame
           /\ frames[t] # <<>> => /\ 1 \in 1 .. Len(frames[t]) /\ Started!Top(t) = frames[t][1]
                                  /\ Tail(frames[t]) \in Seq(AnyFrame)
                                  /\ Len(Tail(frames[t])) = Len(frames[t]) - 1
                                  /\ \A n \in 1 .. Len(frames[t]) - 1 :
                                       Tail(frames[t])[n] = frames[t][n + 1]
<1>1. /\ frames[t] \in Seq(AnyFrame) /\ Len(frames[t]) \in Nat
      /\ DOMAIN frames[t] = 1 .. Len(frames[t])
      /\ \A n \in 1 .. Len(frames[t]) : frames[t][n] \in AnyFrame
  BY LenProperties, ElementOfSeq DEF SubsystemTypes
<1>2. ASSUME frames[t] # <<>>
      PROVE  /\ 1 \in 1 .. Len(frames[t]) /\ Started!Top(t) = frames[t][1]
             /\ Tail(frames[t]) \in Seq(AnyFrame)
             /\ Len(Tail(frames[t])) = Len(frames[t]) - 1
             /\ \A n \in 1 .. Len(frames[t]) - 1 : Tail(frames[t])[n] = frames[t][n + 1]
  <2>1. Len(frames[t]) # 0
    BY <1>1, <1>2, EmptySeq
  <2>2. Head(frames[t]) = frames[t][1]
    BY <1>1, <1>2, HeadTailProperties
  <2> QED
    BY <1>1, <1>2, <2>1, <2>2, HeadTailProperties DEF Started!Top
<1> QED
  BY <1>1, <1>2

\* A step of t that adds nothing keeps the invariant if its calls have passed what they
\* say, are of roots that are t's or free, and leave out nobody they would have come to.
LEMMA CallsMove ==
    ASSUME StartedInv, NEW t \in Threads, frames' \in [Threads -> Seq(AnyFrame)],
           \A u \in Threads \ {t} : frames'[u] = frames[u],
           UNCHANGED <<ifaces_order_, added>>, inited \subseteq inited',
           since' \in [Started!Roots -> SUBSET Nat],
           \A r \in Started!Roots : since'[r] \subseteq since[r],
           \A n \in DOMAIN frames'[t] :
             /\ Passed(frames'[t][n], ifaces_order_, inited')
             /\ \/ \E m \in DOMAIN frames[t] : frames[t][m].root = frames'[t][n].root
                \/ Started!Locks(t, frames'[t][n].root),
           \A r \in Started!Roots : \A i \in DOMAIN ifaces_order_[r] :
             ifaces_order_[r][i] \in since[r] \/ Ahead(frames[t], r, i) =>
               ifaces_order_[r][i] \in inited' \cup since'[r] \/ Ahead(frames'[t], r, i)
    PROVE  StartedInv'
<1>1. SubsystemTypes'
  BY DEF StartedInv, SubsystemTypes
<1>2. AllPassed'
  <2>1. ASSUME NEW u \in Threads, NEW n \in DOMAIN frames'[u]
        PROVE  Passed(frames'[u][n], ifaces_order_', inited')
    <3>1. CASE u = t
      BY <2>1, <3>1
    <3>2. CASE u # t
      <4>1. frames'[u] = frames[u]
        BY <3>2
      <4> QED
        BY <2>1, <4>1 DEF StartedInv, AllPassed, Passed
    <3> QED
      BY <3>1, <3>2
  <2> QED
    BY <2>1 DEF AllPassed
<1>3. OneThreadEach'
  <2>1. ASSUME NEW u \in Threads \ {t}, NEW m \in DOMAIN frames'[t], NEW n \in DOMAIN frames'[u]
        PROVE  frames'[t][m].root # frames'[u][n].root
    <3>1. frames'[u] = frames[u]
      OBVIOUS
    <3> QED
      BY <3>1 DEF StartedInv, OneThreadEach, Started!Locks
  <2>2. SUFFICES ASSUME NEW u \in Threads, NEW v \in Threads, u # v,
                        NEW m \in DOMAIN frames'[u], NEW n \in DOMAIN frames'[v]
                 PROVE  frames'[u][m].root # frames'[v][n].root
    BY DEF OneThreadEach
  <2>3. CASE u = t
    BY <2>1, <2>2, <2>3
  <2>4. CASE v = t
    BY <2>1, <2>2, <2>4
  <2>5. CASE u # t /\ v # t
    <3>1. frames'[u] = frames[u] /\ frames'[v] = frames[v]
      BY <2>5
    <3> QED
      BY <2>2, <3>1 DEF StartedInv, OneThreadEach
  <2> QED
    BY <2>3, <2>4, <2>5
<1>4. Started!NoneLeftOut'
  <2>1. SUFFICES ASSUME NEW r \in Started!Roots, NEW i \in DOMAIN ifaces_order_[r],
                        ifaces_order_[r][i] \notin inited' \cup since'[r]
                 PROVE  \E u \in Threads : Ahead(frames'[u], r, i)
    BY DEF Started!NoneLeftOut, Started!Coming, Ahead
  <2>2. ifaces_order_[r][i] \in since[r] \/ \E u \in Threads : Ahead(frames[u], r, i)
    BY <2>1 DEF StartedInv, Started!NoneLeftOut, Started!Coming, Ahead
  <2>3. CASE ifaces_order_[r][i] \in since[r] \/ Ahead(frames[t], r, i)
    BY <2>1, <2>3
  <2>4. ASSUME NEW u \in Threads \ {t}, Ahead(frames[u], r, i)
        PROVE  \E v \in Threads : Ahead(frames'[v], r, i)
    BY <2>4
  <2> QED
    BY <2>2, <2>3, <2>4
<1> QED
  BY <1>1, <1>2, <1>3, <1>4 DEF StartedInv

-----------------------------------------------------------------------------
\* What is added is waited for, and no call has passed it.
LEMMA AddKeeps ==
    ASSUME StartedInv, NEW t \in Threads, NEW r \in Started!Roots, NEW k, Started!Add(t, r, k)
    PROVE  StartedInv'
<1>1. /\ added' = added + 1 /\ UNCHANGED <<frames, inited>>
      /\ ifaces_order_' = [ifaces_order_ EXCEPT ![r] = Append(@, added')]
      /\ since' = [since EXCEPT ![r] = @ \cup {added'}]
  BY DEF Started!Add, Started!Ordered
<1>2. /\ ifaces_order_ \in [Started!Roots -> Seq(Nat)] /\ since \in [Started!Roots -> SUBSET Nat]
      /\ frames \in [Threads -> Seq(AnyFrame)] /\ added \in Nat /\ added' \in Nat
  BY <1>1 DEF StartedInv, SubsystemTypes
<1>3. \A q \in Started!Roots : ifaces_order_[q] \in Seq(Nat) /\ Len(ifaces_order_[q]) \in Nat
                                /\ DOMAIN ifaces_order_[q] = 1 .. Len(ifaces_order_[q])
  BY <1>2, LenProperties
<1>4. /\ ifaces_order_'[r] = Append(ifaces_order_[r], added') /\ ifaces_order_'[r] \in Seq(Nat)
      /\ Len(ifaces_order_'[r]) = Len(ifaces_order_[r]) + 1
      /\ DOMAIN ifaces_order_'[r] = 1 .. Len(ifaces_order_[r]) + 1
      /\ \A i \in 1 .. Len(ifaces_order_[r]) : ifaces_order_'[r][i] = ifaces_order_[r][i]
      /\ ifaces_order_'[r][Len(ifaces_order_[r]) + 1] = added'
  <2>1. ifaces_order_'[r] = Append(ifaces_order_[r], added')
    BY <1>1, <1>2
  <2>2. ifaces_order_'[r] \in Seq(Nat)
    BY <1>2, <1>3, <2>1, AppendProperties
  <2> QED
    BY <1>2, <1>3, <2>1, <2>2, AppendProperties, LenProperties
<1>5. \A q \in Started!Roots : q # r => ifaces_order_'[q] = ifaces_order_[q] /\ since'[q] = since[q]
  BY <1>1, <1>2
<1>6. since'[r] = since[r] \cup {added'}
  BY <1>1, <1>2
<1>7. SubsystemTypes'
  BY <1>1, <1>2, <1>4 DEF SubsystemTypes
<1>8. ASSUME NEW q \in Started!Roots
      PROVE  /\ Len(ifaces_order_[q]) =< Len(ifaces_order_'[q])
             /\ \A i \in 1 .. Len(ifaces_order_[q]) : ifaces_order_'[q][i] = ifaces_order_[q][i]
             /\ \A i \in DOMAIN ifaces_order_'[q] :
                  i \in DOMAIN ifaces_order_[q] \/ ifaces_order_'[q][i] \in since'[q]
             /\ since[q] \subseteq since'[q]
  <2>1. CASE q = r
    BY <1>3, <1>4, <1>6, <2>1
  <2>2. CASE q # r
    BY <1>3, <1>5, <2>2
  <2> QED
    BY <2>1, <2>2
<1>9. AllPassed'
  <2>1. ASSUME NEW u \in Threads, NEW n \in DOMAIN frames[u]
        PROVE  Passed(frames[u][n], ifaces_order_', inited)
    <3>1. frames[u][n] \in AnyFrame
      BY <2>1, FramesOf DEF StartedInv
    <3>2. frames[u][n].root \in Started!Roots /\ frames[u][n].at \in Nat
      BY <3>1 DEF AnyFrame
    <3>3. Passed(frames[u][n], ifaces_order_, inited)
      BY DEF StartedInv, AllPassed
    <3> DEFINE q == frames[u][n].root
               a == frames[u][n].at
    <3>4. a =< Len(ifaces_order_[q]) /\ 1 .. a \subseteq 1 .. Len(ifaces_order_[q])
      BY <1>3, <3>2, <3>3 DEF Passed
    <3>5. a =< Len(ifaces_order_'[q])
      <4>1. Len(ifaces_order_'[q]) \in Nat
        BY <1>3, <1>4, <1>5, <3>2
      <4> QED
        BY <1>3, <1>8, <3>2, <3>4, <4>1
    <3> QED
      BY <1>8, <3>2, <3>3, <3>4, <3>5 DEF Passed
  <2> QED
    BY <1>1, <2>1 DEF AllPassed
<1>10. OneThreadEach'
  BY <1>1 DEF StartedInv, OneThreadEach
<1>11. Started!NoneLeftOut'
  <2>1. ASSUME NEW q \in Started!Roots, NEW i \in DOMAIN ifaces_order_'[q]
        PROVE  ifaces_order_'[q][i] \in inited \cup since'[q] \/ Started!Coming(q, i)
    <3>1. CASE i \in DOMAIN ifaces_order_[q]
      BY <1>3, <1>8, <3>1 DEF StartedInv, Started!NoneLeftOut
    <3>2. CASE i \notin DOMAIN ifaces_order_[q]
      BY <1>8, <3>2
    <3> QED
      BY <3>1, <3>2
  <2> QED
    BY <1>1, <2>1 DEF Started!NoneLeftOut, Started!Coming
<1> QED
  BY <1>7, <1>9, <1>10, <1>11 DEF StartedInv

\* A call begins where its root is free.
LEMMA ForEachKeeps ==
    ASSUME StartedInv, NEW t \in Threads, NEW r \in Started!Roots, NEW f \in Functions,
           Started!ForEach(t, r, f)
    PROVE  StartedInv'
<1> DEFINE g == [root |-> r, call |-> f, at |-> 0, enter |-> FALSE]
<1>1. /\ frames' = [frames EXCEPT ![t] = <<g>> \o @] /\ Started!Locks(t, r)
      /\ UNCHANGED <<ifaces_order_, added, inited, since>>
  BY DEF Started!ForEach, Started!Frame
<1>2. SubsystemTypes /\ AllPassed /\ g \in AnyFrame
  BY DEF StartedInv, AnyFrame
<1> HIDE DEF g
<1>3. /\ frames[t] \in Seq(AnyFrame) /\ Len(frames[t]) \in Nat
      /\ DOMAIN frames[t] = 1 .. Len(frames[t])
  BY <1>2, FramesOf
<1>4. frames'[t] = <<g>> \o frames[t] /\ \A u \in Threads \ {t} : frames'[u] = frames[u]
  BY <1>1, <1>2 DEF SubsystemTypes
<1>5. /\ frames'[t] \in Seq(AnyFrame) /\ DOMAIN frames'[t] = 1 .. Len(frames[t]) + 1
      /\ frames'[t][1] = g
      /\ \A n \in 1 .. Len(frames[t]) : frames'[t][n + 1] = frames[t][n]
  BY <1>2, <1>3, <1>4, InFront
<1>6. frames' \in [Threads -> Seq(AnyFrame)]
  BY <1>1, <1>2, <1>4, <1>5 DEF SubsystemTypes
<1>7. ASSUME NEW n \in DOMAIN frames'[t]
      PROVE  /\ Passed(frames'[t][n], ifaces_order_, inited')
             /\ \/ \E m \in DOMAIN frames[t] : frames[t][m].root = frames'[t][n].root
                \/ Started!Locks(t, frames'[t][n].root)
  <2>1. CASE n = 1
    <3>1. g.root = r /\ g.at = 0
      BY DEF g
    <3>2. Passed(g, ifaces_order_, inited')
      <4>1. Len(ifaces_order_[r]) \in Nat
        BY <1>2, LenProperties DEF SubsystemTypes
      <4> QED
        BY <3>1, <4>1 DEF Passed
    <3> QED
      BY <1>1, <1>5, <2>1, <3>1, <3>2
  <2>2. CASE n # 1
    <3>1. n - 1 \in 1 .. Len(frames[t]) /\ frames'[t][n] = frames[t][n - 1]
      <4>1. n - 1 \in 1 .. Len(frames[t]) /\ (n - 1) + 1 = n
        BY <1>3, <1>5, <2>2
      <4> QED
        BY <1>5, <4>1
    <3> QED
      BY <1>1, <1>2, <1>3, <3>1 DEF AllPassed
  <2> QED
    BY <2>1, <2>2
<1>8. \A q, i : Ahead(frames[t], q, i) => Ahead(frames'[t], q, i)
  <2>1. \A n \in DOMAIN frames[t] : n + 1 \in DOMAIN frames'[t] /\ frames'[t][n + 1] = frames[t][n]
    BY <1>3, <1>5
  <2> QED
    BY <2>1 DEF Ahead
<1>9. since' \in [Started!Roots -> SUBSET Nat]
  BY <1>1, <1>2 DEF SubsystemTypes
<1> QED
  BY <1>1, <1>4, <1>6, <1>7, <1>8, <1>9, CallsMove

\* A call goes on to the next subsystem, which is initialised if it is an init().
LEMMA CallNextKeeps ==
    ASSUME StartedInv, NEW t \in Threads, Started!CallNext(t)
    PROVE  StartedInv'
<1> DEFINE f == frames[t][1]
           order == ifaces_order_[f.root]
           s == order[f.at + 1]
           g == [f EXCEPT !.at = f.at + 1, !.enter = Started!IsInner(s)]
<1>1. SubsystemTypes /\ AllPassed /\ frames[t] # <<>>
  BY DEF StartedInv, Started!CallNext
<1>2. /\ frames[t] \in Seq(AnyFrame) /\ DOMAIN frames[t] = 1 .. Len(frames[t]) /\ Len(frames[t]) \in Nat
      /\ 1 \in DOMAIN frames[t] /\ Started!Top(t) = f /\ f \in AnyFrame
  BY <1>1, FramesOf
<1>3. f.root \in Started!Roots /\ f.at \in Nat /\ Passed(f, ifaces_order_, inited)
  BY <1>1, <1>2 DEF AnyFrame, AllPassed
<1>4. order \in Seq(Nat) /\ Len(order) \in Nat /\ DOMAIN order = 1 .. Len(order)
  BY <1>1, <1>3, LenProperties DEF SubsystemTypes
<1>5. /\ f.at < Len(order)
      /\ inited' = IF f.call = "init" THEN inited \cup {s} ELSE inited
      /\ UNCHANGED <<ifaces_order_, added, since>>
  BY <1>2 DEF Started!CallNext, Started!HasNext
<1>6. frames' = [frames EXCEPT ![t][1].at = @ + 1, ![t][1].enter = Started!IsInner(s)]
  BY <1>2 DEF Started!CallNext
<1>7. /\ g \in AnyFrame /\ g.root = f.root /\ g.call = f.call /\ g.at = f.at + 1
  <2>1. f.at + 1 \in Nat /\ Started!IsInner(s) \in BOOLEAN
    BY <1>3 DEF Started!IsInner
  <2> QED
    BY <1>2, <2>1 DEF AnyFrame
<1>8. frames'[t] = [frames[t] EXCEPT ![1] = g] /\ \A u \in Threads \ {t} : frames'[u] = frames[u]
  BY <1>1, <1>2, <1>6 DEF SubsystemTypes
<1> HIDE DEF g
<1>9. /\ DOMAIN frames'[t] = DOMAIN frames[t] /\ frames'[t][1] = g
      /\ \A n \in DOMAIN frames[t] \ {1} : frames'[t][n] = frames[t][n]
      /\ frames'[t] \in Seq(AnyFrame)
  BY <1>2, <1>7, <1>8
<1>10. frames' \in [Threads -> Seq(AnyFrame)]
  BY <1>1, <1>6, <1>9, <1>8 DEF SubsystemTypes
<1>11. Passed(g, ifaces_order_, inited')
  <2>1. g.at =< Len(order)
    BY <1>3, <1>4, <1>5, <1>7
  <2>2. ASSUME g.call = "init", NEW i \in 1 .. g.at PROVE order[i] \in inited'
    <3>1. CASE i = f.at + 1
      BY <1>5, <1>7, <2>2, <3>1
    <3>2. CASE i # f.at + 1
      <4>1. i \in 1 .. f.at
        BY <1>3, <1>7, <3>2
      <4> QED
        BY <1>3, <1>5, <1>7, <2>2, <4>1 DEF Passed
    <3> QED
      BY <3>1, <3>2
  <2> QED
    BY <1>7, <2>1, <2>2 DEF Passed
<1>12. ASSUME NEW n \in DOMAIN frames'[t]
       PROVE  /\ Passed(frames'[t][n], ifaces_order_, inited')
              /\ \E m \in DOMAIN frames[t] : frames[t][m].root = frames'[t][n].root
  <2>1. CASE n = 1
    BY <1>2, <1>7, <1>9, <1>11, <2>1
  <2>2. CASE n # 1
    <3>1. frames'[t][n] = frames[t][n] /\ n \in DOMAIN frames[t]
      BY <1>9, <2>2
    <3>2. inited \subseteq inited'
      BY <1>5
    <3> QED
      BY <1>1, <3>1, <3>2 DEF AllPassed, Passed
  <2> QED
    BY <2>1, <2>2
<1>13. ASSUME NEW r \in Started!Roots, NEW i \in DOMAIN ifaces_order_[r], Ahead(frames[t], r, i)
       PROVE  ifaces_order_[r][i] \in inited' \/ Ahead(frames'[t], r, i)
  <2>1. PICK n \in DOMAIN frames[t] :
          frames[t][n].root = r /\ frames[t][n].call = "init" /\ frames[t][n].at < i
    BY <1>13 DEF Ahead
  <2>2. CASE n # 1
    BY <1>9, <2>1, <2>2 DEF Ahead
  <2>3. CASE n = 1 /\ i = f.at + 1
    BY <1>5, <2>1, <2>3
  <2>4. CASE n = 1 /\ i # f.at + 1
    <3>1. i \in Nat /\ f.at < i
      BY <1>4, <2>1, <2>4
    <3>2. g.at < i
      BY <1>3, <1>7, <2>4, <3>1
    <3> QED
      BY <1>2, <1>7, <1>9, <2>1, <2>4, <3>2 DEF Ahead
  <2> QED
    BY <2>2, <2>3, <2>4
<1>14. since' \in [Started!Roots -> SUBSET Nat] /\ inited \subseteq inited'
  BY <1>1, <1>5 DEF SubsystemTypes
<1> QED
  BY <1>5, <1>8, <1>10, <1>12, <1>13, <1>14, CallsMove

\* The inner root begins a call of its own, and its caller waits where it is.
LEMMA EnterInnerKeeps ==
    ASSUME StartedInv, NEW t \in Threads, Started!EnterInner(t)
    PROVE  StartedInv'
<1> DEFINE f == frames[t][1]
           g == [root |-> Inner, call |-> f.call, at |-> 0, enter |-> FALSE]
           h == [f EXCEPT !.enter = FALSE]
           rest == Tail(frames[t])
<1>1. SubsystemTypes /\ AllPassed /\ frames[t] # <<>>
  BY DEF StartedInv, Started!EnterInner
<1>2. /\ frames[t] \in Seq(AnyFrame) /\ DOMAIN frames[t] = 1 .. Len(frames[t]) /\ Len(frames[t]) \in Nat
      /\ 1 \in DOMAIN frames[t] /\ Started!Top(t) = f /\ f \in AnyFrame
      /\ rest \in Seq(AnyFrame) /\ Len(rest) = Len(frames[t]) - 1
      /\ \A n \in 1 .. Len(frames[t]) - 1 : rest[n] = frames[t][n + 1]
  BY <1>1, FramesOf
<1>3. f.root \in Started!Roots /\ f.call \in Functions /\ Passed(f, ifaces_order_, inited)
  BY <1>1, <1>2 DEF AnyFrame, AllPassed
<1>4. /\ Started!Locks(t, Inner) /\ UNCHANGED <<ifaces_order_, added, inited, since>>
      /\ frames' = [frames EXCEPT ![t] = <<g, h>> \o Tail(@)]
  BY <1>2 DEF Started!EnterInner, Started!Frame
<1>5. /\ g \in AnyFrame /\ g.root = Inner /\ g.at = 0
      /\ h \in AnyFrame /\ h.root = f.root /\ h.call = f.call /\ h.at = f.at
  BY <1>2, <1>3 DEF AnyFrame, Started!Roots
<1>6. frames'[t] = <<g, h>> \o rest /\ \A u \in Threads \ {t} : frames'[u] = frames[u]
  BY <1>1, <1>4 DEF SubsystemTypes
<1> HIDE DEF f, g, h, rest
<1>7. /\ frames'[t] \in Seq(AnyFrame) /\ DOMAIN frames'[t] = 1 .. Len(frames[t]) + 1
      /\ frames'[t][1] = g /\ frames'[t][2] = h
      /\ \A n \in DOMAIN frames[t] \ {1} : frames'[t][n + 1] = frames[t][n]
  <2> DEFINE p == <<g, h>>
  <2>1. p \in Seq(AnyFrame) /\ Len(p) = 2 /\ p[1] = g /\ p[2] = h
    BY <1>5
  <2>2. frames'[t] = p \o rest
    BY <1>6
  <2> HIDE DEF p
  <2>3. p \in Seq(AnyFrame) /\ rest \in Seq(AnyFrame)
    BY <1>2, <2>1
  <2>4. /\ p \o rest \in Seq(AnyFrame) /\ Len(p \o rest) = Len(p) + Len(rest)
        /\ \A i \in 1 .. Len(p) + Len(rest) :
             (p \o rest)[i] = IF i =< Len(p) THEN p[i] ELSE rest[i - Len(p)]
    BY <2>3, ConcatProperties
  <2>5. Len(frames'[t]) = Len(frames[t]) + 1 /\ Len(frames[t]) >= 1
    BY <1>2, <2>1, <2>2, <2>4
  <2>6. DOMAIN frames'[t] = 1 .. Len(frames[t]) + 1
    BY <2>2, <2>4, <2>5, LenProperties
  <2>7. frames'[t][1] = g /\ frames'[t][2] = h
    BY <1>2, <2>1, <2>2, <2>4, <2>5
  <2>8. ASSUME NEW n \in DOMAIN frames[t] \ {1} PROVE frames'[t][n + 1] = frames[t][n]
    <3>1. n \in 1 .. Len(frames[t]) /\ n # 1
      BY <1>2
    <3>2. /\ n + 1 \in 1 .. Len(p) + Len(rest) /\ ~(n + 1 =< Len(p)) /\ (n + 1) - Len(p) = n - 1
          /\ n - 1 \in 1 .. Len(frames[t]) - 1 /\ (n - 1) + 1 = n
      BY <1>2, <2>1, <3>1
    <3>3. frames'[t][n + 1] = rest[n - 1]
      BY <2>2, <2>4, <3>2
    <3> QED
      BY <1>2, <3>2, <3>3
  <2> QED
    BY <2>2, <2>4, <2>6, <2>7, <2>8
<1>8. frames' \in [Threads -> Seq(AnyFrame)]
  BY <1>1, <1>4, <1>6, <1>7 DEF SubsystemTypes
<1>9. ASSUME NEW n \in DOMAIN frames'[t]
      PROVE  /\ Passed(frames'[t][n], ifaces_order_, inited')
             /\ \/ \E m \in DOMAIN frames[t] : frames[t][m].root = frames'[t][n].root
                \/ Started!Locks(t, frames'[t][n].root)
  <2>1. CASE n = 1
    <3>1. Passed(g, ifaces_order_, inited')
      <4>1. Len(ifaces_order_[Inner]) \in Nat
        BY <1>1, LenProperties DEF SubsystemTypes, Started!Roots
      <4> QED
        BY <1>5, <4>1 DEF Passed
    <3> QED
      BY <1>4, <1>5, <1>7, <2>1, <3>1
  <2>2. CASE n = 2
    <3>1. Passed(h, ifaces_order_, inited')
      BY <1>3, <1>4, <1>5 DEF Passed
    <3> QED
      BY <1>2, <1>5, <1>7, <2>2, <3>1 DEF f
  <2>3. CASE n # 1 /\ n # 2
    <3>0. n \in 1 .. Len(frames[t]) + 1
      BY <1>7
    <3>1. n - 1 \in DOMAIN frames[t] \ {1} /\ (n - 1) + 1 = n
      BY <1>2, <2>3, <3>0
    <3>2. frames'[t][n] = frames[t][n - 1]
      BY <1>7, <3>1
    <3> QED
      BY <1>1, <1>4, <3>1, <3>2 DEF AllPassed
  <2> QED
    BY <2>1, <2>2, <2>3
<1>10. ASSUME NEW r, NEW i, Ahead(frames[t], r, i) PROVE Ahead(frames'[t], r, i)
  <2>1. PICK n \in DOMAIN frames[t] :
          frames[t][n].root = r /\ frames[t][n].call = "init" /\ frames[t][n].at < i
    BY <1>10 DEF Ahead
  <2>2. n + 1 \in DOMAIN frames'[t]
    BY <1>2, <1>7
  <2>3. CASE n = 1
    <3>1. 2 \in DOMAIN frames'[t] /\ frames'[t][2] = h
      BY <1>7, <2>2, <2>3
    <3> QED
      BY <1>5, <2>1, <2>3, <3>1 DEF Ahead, f
  <2>4. CASE n # 1
    BY <1>7, <2>1, <2>2, <2>4 DEF Ahead
  <2> QED
    BY <2>3, <2>4
<1>11. since' \in [Started!Roots -> SUBSET Nat]
  BY <1>1, <1>4 DEF SubsystemTypes
<1> QED
  BY <1>4, <1>6, <1>8, <1>9, <1>10, <1>11, CallsMove

\* A call that has passed the whole order returns, and an init() has initialised all.
LEMMA ReturnKeeps ==
    ASSUME StartedInv, NEW t \in Threads, Started!Return(t)
    PROVE  StartedInv'
<1> DEFINE f == frames[t][1]
           order == ifaces_order_[f.root]
           rest == Tail(frames[t])
<1>1. SubsystemTypes /\ AllPassed /\ frames[t] # <<>>
  BY DEF StartedInv, Started!Return
<1>2. /\ frames[t] \in Seq(AnyFrame) /\ DOMAIN frames[t] = 1 .. Len(frames[t]) /\ Len(frames[t]) \in Nat
      /\ 1 \in DOMAIN frames[t] /\ Started!Top(t) = f /\ f \in AnyFrame
      /\ rest \in Seq(AnyFrame) /\ Len(rest) = Len(frames[t]) - 1
      /\ \A n \in 1 .. Len(frames[t]) - 1 : rest[n] = frames[t][n + 1]
  BY <1>1, FramesOf
<1>3. f.root \in Started!Roots /\ f.at \in Nat /\ Passed(f, ifaces_order_, inited)
  BY <1>1, <1>2 DEF AnyFrame, AllPassed
<1>4. order \in Seq(Nat) /\ Len(order) \in Nat /\ DOMAIN order = 1 .. Len(order)
  BY <1>1, <1>3, LenProperties DEF SubsystemTypes
<1>5. /\ ~(f.at < Len(order)) /\ UNCHANGED <<ifaces_order_, added, inited>>
      /\ since' = IF f.call = "init" THEN [since EXCEPT ![f.root] = {}] ELSE since
      /\ frames' = [frames EXCEPT ![t] = Tail(@)]
  BY <1>2 DEF Started!Return, Started!HasNext
<1>6. f.at = Len(order)
  BY <1>3, <1>4, <1>5 DEF Passed
<1>7. frames'[t] = rest /\ \A u \in Threads \ {t} : frames'[u] = frames[u]
  BY <1>1, <1>5 DEF SubsystemTypes
<1>8. DOMAIN rest = 1 .. Len(frames[t]) - 1
  BY <1>2, LenProperties
<1> HIDE DEF rest
<1>9. frames' \in [Threads -> Seq(AnyFrame)]
  BY <1>1, <1>2, <1>5, <1>7 DEF SubsystemTypes
<1>10. since' \in [Started!Roots -> SUBSET Nat] /\ \A r \in Started!Roots : since'[r] \subseteq since[r]
  BY <1>1, <1>5 DEF SubsystemTypes
<1>11. ASSUME NEW n \in DOMAIN frames'[t]
       PROVE  /\ Passed(frames'[t][n], ifaces_order_, inited')
              /\ \E m \in DOMAIN frames[t] : frames[t][m].root = frames'[t][n].root
  <2>1. n + 1 \in DOMAIN frames[t] /\ frames'[t][n] = frames[t][n + 1]
    BY <1>2, <1>7, <1>8
  <2> QED
    BY <1>1, <1>5, <2>1 DEF AllPassed
<1>12. ASSUME NEW r \in Started!Roots, NEW i \in DOMAIN ifaces_order_[r],
              ifaces_order_[r][i] \in since[r] \/ Ahead(frames[t], r, i)
       PROVE  ifaces_order_[r][i] \in inited' \cup since'[r] \/ Ahead(frames'[t], r, i)
  <2>1. CASE f.call = "init" /\ r = f.root
    <3>1. i \in 1 .. f.at
      BY <1>4, <1>6, <2>1
    <3> QED
      BY <1>3, <1>5, <2>1, <3>1 DEF Passed
  <2>2. CASE ~(f.call = "init" /\ r = f.root) /\ ifaces_order_[r][i] \in since[r]
    BY <1>1, <1>5, <2>2 DEF SubsystemTypes
  <2>3. CASE ~(f.call = "init" /\ r = f.root) /\ Ahead(frames[t], r, i)
    <3>1. PICK n \in DOMAIN frames[t] :
            frames[t][n].root = r /\ frames[t][n].call = "init" /\ frames[t][n].at < i
      BY <2>3 DEF Ahead
    <3>2. n # 1
      BY <2>3, <3>1
    <3>3. n - 1 \in DOMAIN rest /\ (n - 1) + 1 = n
      BY <1>2, <1>8, <3>2
    <3>4. rest[n - 1] = frames[t][n]
      BY <1>2, <1>8, <3>3
    <3> QED
      BY <1>7, <3>1, <3>3, <3>4 DEF Ahead
  <2> QED
    BY <1>12, <2>1, <2>2, <2>3
<1> QED
  BY <1>5, <1>7, <1>9, <1>10, <1>11, <1>12, CallsMove

-----------------------------------------------------------------------------
\* Subsystems is right in every state: a root's calls are one thread's at a time, an
\* init() has called what it has passed, and nobody is left out.
LEMMA StartedInvariant == Started!Spec => []StartedInv
<1>1. Started!Init => StartedInv
  <2> SUFFICES ASSUME Started!Init PROVE StartedInv
    OBVIOUS
  <2>1. /\ \A t \in Threads : frames[t] = <<>> /\ DOMAIN frames[t] = {}
        /\ \A r \in Started!Roots : ifaces_order_[r] = <<>> /\ DOMAIN ifaces_order_[r] = {}
    BY DEF Started!Init
  <2>2. SubsystemTypes
    <3>1. <<>> \in Seq(Nat) /\ <<>> \in Seq(AnyFrame)
      OBVIOUS
    <3> QED
      BY <3>1 DEF Started!Init, SubsystemTypes
  <2>3. AllPassed /\ OneThreadEach /\ Started!NoneLeftOut
    BY <2>1 DEF AllPassed, OneThreadEach, Started!NoneLeftOut
  <2> QED
    BY <2>2, <2>3 DEF StartedInv
<1>2. StartedInv /\ [Started!Next]_(Started!vars) => StartedInv'
  <2> SUFFICES ASSUME StartedInv, [Started!Next]_(Started!vars) PROVE StartedInv'
    OBVIOUS
  <2>1. CASE Started!Next
    BY <2>1, AddKeeps, ForEachKeeps, CallNextKeeps, EnterInnerKeeps, ReturnKeeps DEF Started!Next
  <2>2. CASE UNCHANGED Started!vars
    BY <2>2 DEF Started!vars, StartedInv, SubsystemTypes, AllPassed, OneThreadEach,
                Started!NoneLeftOut, Started!Coming
  <2> QED
    BY <2>1, <2>2
<1> QED
  BY <1>1, <1>2, PTL DEF Started!Spec
-----------------------------------------------------------------------------
(***************************************************************************)
(* Linked lists: what LinkedListProofs proves of any lists holds of these. *)
(***************************************************************************)
Proved == INSTANCE LinkedListProofs WITH Nodes <- Addresses, Lists <- Links

\* The lists that the proofs are about are the lists of the composition.
LEMMA SameWalks == \A n : Linked!From(n) = Proved!From(n)
BY DEF Linked!From, Proved!From, Linked!Cardinality, Proved!Cardinality, Linked!IsFiniteSet,
       Proved!IsFiniteSet

\* And so are their nodes.
LEMMA SameNodes ==
    /\ \A l : Linked!NodesOf(l) = Proved!NodesOf(l)
    /\ Linked!Free = Proved!Free /\ Linked!NewNode = Proved!NewNode
<1>1. \A l : Linked!NodesOf(l) = Proved!NodesOf(l)
  BY SameWalks DEF Linked!NodesOf, Proved!NodesOf
<1>2. Linked!Free = Proved!Free
  BY <1>1 DEF Linked!Free, Proved!Free
<1>3. Linked!NewNode = Proved!NewNode
  BY <1>2 DEF Linked!NewNode, Proved!NewNode
<1> QED
  BY <1>1, <1>2, <1>3

\* And what the operations do to them.
LEMMA SameSteps == [Linked!Next]_(Linked!vars) => [Proved!Next]_(Proved!vars)
<1>1. ASSUME NEW l \in Links
      PROVE  /\ Linked!PushBack(l) => Proved!PushBack(l)
             /\ Linked!PushFront(l) => Proved!PushFront(l)
             /\ Linked!Begin(l) => Proved!Begin(l)
             /\ Linked!RBegin(l) => Proved!RBegin(l)
             /\ Linked!Clear(l) => Proved!Clear(l)
  BY SameNodes DEF Linked!PushBack, Proved!PushBack, Linked!PushFront, Proved!PushFront,
       Linked!Begin, Proved!Begin, Linked!RBegin, Proved!RBegin, Linked!Clear, Proved!Clear
<1>2. ASSUME NEW l \in Links
      PROVE  (Linked!Erase(l) => Proved!Erase(l)) /\ (Linked!RErase(l) => Proved!RErase(l))
  BY SameNodes DEF Linked!Erase, Proved!Erase, Linked!RErase, Proved!RErase, Linked!CErase,
       Proved!CErase, Linked!Joined, Proved!Joined, Linked!BackWithout, Proved!BackWithout,
       Linked!FrontWithout, Proved!FrontWithout
<1>3. (Linked!Increment => Proved!Increment) /\ (Linked!Decrement => Proved!Decrement)
  BY DEF Linked!Increment, Proved!Increment, Linked!Decrement, Proved!Decrement
<1>4. ASSUME NEW l \in Links, NEW m \in Links
      PROVE  /\ Linked!SpliceBack(l, m) => Proved!SpliceBack(l, m)
             /\ Linked!Swap(l, m) => Proved!Swap(l, m)
  BY DEF Linked!SpliceBack, Proved!SpliceBack, Linked!Swap, Proved!Swap
<1>5. Linked!Next => Proved!Next
  BY <1>1, <1>2, <1>3, <1>4 DEF Linked!Next, Proved!Next
<1> QED
  BY <1>5 DEF Linked!vars, Proved!vars

\* And so are the sequences.
LEMMA SameSequences ==
    /\ Proved!Sequence!Init => Linked!Sequence!Init
    /\ [Proved!Sequence!Next]_(Proved!Sequence!vars) => [Linked!Sequence!Next]_(Linked!Sequence!vars)
<1> DEFINE S == [l \in Links |-> Linked!From(front_[l])]
           T == [l \in Links |-> Proved!From(front_[l])]
<1>1. S = T
  BY SameWalks
<1>2. S' = T'
  BY DEF Linked!From, Proved!From, Linked!Cardinality, Proved!Cardinality, Linked!IsFiniteSet,
         Proved!IsFiniteSet
<1>3. (\A l : Linked!Sequence!Members(l) = Proved!Sequence!Members(l))
  BY SameWalks DEF Linked!Sequence!Members, Proved!Sequence!Members
<1>4. Linked!Sequence!Fresh = Proved!Sequence!Fresh
  BY <1>3 DEF Linked!Sequence!Fresh, Proved!Sequence!Fresh
<1>5. \A l, n : Linked!Sequence!Place(l, n) = Proved!Sequence!Place(l, n)
  BY <1>1 DEF Linked!Sequence!Place, Proved!Sequence!Place
<1>6. \A l, n, step : Linked!Sequence!Neighbour(l, n, step) = Proved!Sequence!Neighbour(l, n, step)
  BY <1>1, <1>5 DEF Linked!Sequence!Neighbour, Proved!Sequence!Neighbour
<1>7. ASSUME NEW l \in Links
      PROVE  /\ Proved!Sequence!Push(l) => Linked!Sequence!Push(l)
             /\ Proved!Sequence!Start(l) => Linked!Sequence!Start(l)
             /\ Proved!Sequence!Move(l) => Linked!Sequence!Move(l)
             /\ Proved!Sequence!Erase(l) => Linked!Sequence!Erase(l)
             /\ Proved!Sequence!Clear(l) => Linked!Sequence!Clear(l)
  <2>1. Proved!Sequence!Push(l) => Linked!Sequence!Push(l)
    BY <1>1, <1>2, <1>4 DEF Linked!Sequence!Push, Proved!Sequence!Push
  <2>2. Proved!Sequence!Start(l) => Linked!Sequence!Start(l)
    BY <1>1, <1>2 DEF Linked!Sequence!Start, Proved!Sequence!Start
  <2>3. Proved!Sequence!Move(l) => Linked!Sequence!Move(l)
    BY <1>1, <1>2, <1>3, <1>6 DEF Linked!Sequence!Move, Proved!Sequence!Move
  <2>4. Proved!Sequence!Erase(l) => Linked!Sequence!Erase(l)
    <3>1. \A s, i : Linked!Sequence!Without(s, i) = Proved!Sequence!Without(s, i)
      BY DEF Linked!Sequence!Without, Proved!Sequence!Without
    <3> QED
      BY <1>1, <1>2, <1>3, <1>5, <1>6, <3>1 DEF Linked!Sequence!Erase, Proved!Sequence!Erase
  <2>5. Proved!Sequence!Clear(l) => Linked!Sequence!Clear(l)
    BY <1>1, <1>2, <1>3 DEF Linked!Sequence!Clear, Proved!Sequence!Clear
  <2> QED
    BY <2>1, <2>2, <2>3, <2>4, <2>5
<1>8. ASSUME NEW l \in Links, NEW m \in Links
      PROVE  /\ Proved!Sequence!Splice(l, m) => Linked!Sequence!Splice(l, m)
             /\ Proved!Sequence!Swap(l, m) => Linked!Sequence!Swap(l, m)
  BY <1>1, <1>2 DEF Linked!Sequence!Splice, Proved!Sequence!Splice, Linked!Sequence!Swap,
       Proved!Sequence!Swap
<1>9. Proved!Sequence!Next => Linked!Sequence!Next
  BY <1>7, <1>8 DEF Linked!Sequence!Next, Proved!Sequence!Next
<1>10. UNCHANGED Proved!Sequence!vars => UNCHANGED Linked!Sequence!vars
  BY <1>1, <1>2 DEF Linked!Sequence!vars, Proved!Sequence!vars
<1>11. Proved!Sequence!Init => Linked!Sequence!Init
  BY <1>1 DEF Linked!Sequence!Init, Proved!Sequence!Init
<1> QED
  BY <1>9, <1>10, <1>11

-----------------------------------------------------------------------------
(***************************************************************************)
(* Sizepack.                                                               *)
(***************************************************************************)
\* A sequence of one byte.
LEMMA OneByte ==
    ASSUME NEW x \in Nat
    PROVE  <<x>> \in Seq(Nat) /\ Len(<<x>>) = 1 /\ <<x>>[1] = x
OBVIOUS

\* One byte put before others.
LEMMA ByteBefore ==
    ASSUME NEW x \in Nat, NEW s \in Seq(Nat)
    PROVE  /\ <<x>> \o s \in Seq(Nat) /\ Len(<<x>> \o s) = 1 + Len(s) /\ Len(s) \in Nat
           /\ (<<x>> \o s)[1] = x /\ \A i \in 1 .. Len(s) : (<<x>> \o s)[i + 1] = s[i]
<1>1. <<x>> \in Seq(Nat) /\ Len(<<x>>) = 1 /\ <<x>>[1] = x /\ Len(s) \in Nat
  BY OneByte, LenProperties
<1>2. /\ <<x>> \o s \in Seq(Nat) /\ Len(<<x>> \o s) = 1 + Len(s)
      /\ \A i \in 1 .. 1 + Len(s) : (<<x>> \o s)[i] = IF i =< 1 THEN <<x>>[i] ELSE s[i - 1]
  BY <1>1, ConcatProperties
<1>3. 1 \in 1 .. 1 + Len(s) /\ 1 =< 1
  BY <1>1
<1>4. \A i \in 1 .. Len(s) : i + 1 \in 1 .. 1 + Len(s) /\ ~(i + 1 =< 1) /\ (i + 1) - 1 = i
  BY <1>1
<1> QED
  BY <1>1, <1>2, <1>3, <1>4

\* left says what is left to read of the bytes from each place on.
Counts(left, b, base) ==
    /\ left \in [0 .. Len(b) -> Nat] /\ left[Len(b)] = 0
    /\ \A i \in 1 .. Len(b) : left[i - 1] = (b[i] % base) + base * left[i]

CountsTo(b, base, v) == \E left : Counts(left, b, base) /\ left[0] = v

\* The value of the bytes is what is left at the beginning.
LEMMA LittleEndianIs ==
    ASSUME NEW b \in Seq(Nat), NEW base \in Nat \ {0}, NEW v, CountsTo(b, base, v)
    PROVE  Packed!LittleEndian(b, base) = v
<1>0. PICK left : Counts(left, b, base) /\ left[0] = v
  BY DEF CountsTo
<1> DEFINE N == Len(b)
           Digit(n, more) == (b[n + 1] % base) + base * more
           IsValue(f) == f = [n \in 0 .. Len(b) |-> IF n = Len(b) THEN 0 ELSE Digit(n, f[n + 1])]
           value == CHOOSE f : IsValue(f)
<1>1. N \in Nat /\ left = [n \in 0 .. N |-> left[n]] /\ left[N] = 0
      /\ \A i \in 1 .. N : left[i - 1] = (b[i] % base) + base * left[i]
  BY <1>0, LenProperties DEF Counts
<1>2. \A n \in 0 .. N : n # N => left[n] = Digit(n, left[n + 1])
  <2>1. \A n \in 0 .. N : n # N => n + 1 \in 1 .. N /\ (n + 1) - 1 = n
    BY <1>1
  <2> QED
    BY <1>1, <2>1, Zenon
<1>3. Packed!LittleEndian(b, base) = value[0]
  BY DEF Packed!LittleEndian
<1> HIDE DEF Digit
<1>4. IsValue(value)
  <2>1. IsValue(left)
    <3>1. left = [n \in 0 .. N |-> IF n = N THEN 0 ELSE Digit(n, left[n + 1])]
      BY <1>1, <1>2
    <3> QED
      BY <3>1
  <2> HIDE DEF IsValue
  <2> QED
    BY <2>1
<1> HIDE DEF value
<1>5. value[N] = 0 /\ \A n \in 0 .. N : n # N => value[n] = Digit(n, value[n + 1])
  BY <1>1, <1>4
<1> DEFINE T == {k \in 0 .. N : value[N - k] = left[N - k]}
<1>6. 0 \in T
  <2>1. N - 0 = N /\ 0 \in 0 .. N
    BY <1>1
  <2> QED
    BY <1>1, <1>5, <2>1, Zenon
<1>7. ASSUME NEW k \in 1 .. N, k - 1 \in T PROVE k \in T
  <2>1. /\ N - k \in 0 .. N /\ N - k # N /\ (N - k) + 1 = N - (k - 1) /\ k \in 0 .. N
    BY <1>1
  <2>2. value[N - k] = Digit(N - k, value[(N - k) + 1]) /\ left[N - k] = Digit(N - k, left[(N - k) + 1])
    BY <1>2, <1>5, <2>1, Zenon
  <2>3. value[(N - k) + 1] = left[(N - k) + 1]
    BY <1>7, <2>1
  <2> QED
    BY <2>1, <2>2, <2>3, Zenon
<1>8. T = 0 .. N
  <2>1. T \in SUBSET (0 .. N)
    OBVIOUS
  <2> HIDE DEF T, N
  <2> QED
    BY <1>1, <1>6, <1>7, <2>1, InductionUpTo
<1>9. N \in T /\ N - N = 0
  BY <1>1, <1>8
<1> QED
  BY <1>0, <1>3, <1>9

\* One more byte before others.
LEMMA CountsBefore ==
    ASSUME NEW x \in Nat, NEW s \in Seq(Nat), NEW base \in Nat \ {0}, NEW w, CountsTo(s, base, w),
           NEW v \in Nat, v = (x % base) + base * w
    PROVE  CountsTo(<<x>> \o s, base, v)
<1>0. PICK left : Counts(left, s, base) /\ left[0] = w
  BY DEF CountsTo
<1> DEFINE N == Len(s)
           b == <<x>> \o s
           more == [i \in 0 .. N + 1 |-> IF i = 0 THEN v ELSE left[i - 1]]
<1>1. /\ b \in Seq(Nat) /\ Len(b) = N + 1 /\ N \in Nat
      /\ b[1] = x /\ \A i \in 1 .. N : b[i + 1] = s[i]
  BY ByteBefore
<1>2. left \in [0 .. N -> Nat] /\ left[N] = 0 /\ \A i \in 1 .. N : left[i - 1] = (s[i] % base) + base * left[i]
  BY <1>0 DEF Counts
<1>3. more[0] = v /\ \A i \in 1 .. N + 1 : more[i] = left[i - 1] /\ i - 1 \in 0 .. N
  BY <1>1
<1>4. more \in [0 .. N + 1 -> Nat]
  BY <1>1, <1>2
<1> HIDE DEF more, b
<1>5. more[N + 1] = 0
  <2>1. N + 1 \in 1 .. N + 1 /\ (N + 1) - 1 = N
    BY <1>1
  <2> QED
    BY <1>2, <1>3, <2>1
<1>6. ASSUME NEW i \in 1 .. N + 1 PROVE more[i - 1] = (b[i] % base) + base * more[i]
  <2>1. CASE i = 1
    BY <1>0, <1>1, <1>3, <2>1
  <2>2. CASE i # 1
    <3> DEFINE j == i - 1
    <3>1. j \in 1 .. N /\ j + 1 = i /\ j \in 1 .. N + 1 /\ i - 1 = j
      BY <1>1, <2>2
    <3> HIDE DEF j
    <3>2. b[i] = s[j]
      BY <1>1, <3>1
    <3>3. more[i] = left[j] /\ more[j] = left[j - 1]
      BY <1>3, <3>1
    <3>4. left[j - 1] = (s[j] % base) + base * left[j]
      BY <1>2, <3>1
    <3> QED
      BY <3>1, <3>2, <3>3, <3>4
  <2> QED
    BY <2>1, <2>2
<1>7. Counts(more, b, base)
  BY <1>1, <1>4, <1>5, <1>6 DEF Counts
<1> QED
  BY <1>3, <1>7 DEF b, CountsTo

\* One byte is its own value if it is less than the base.
LEMMA OneCounts ==
    ASSUME NEW x \in Nat, NEW base \in Nat \ {0}, x < base
    PROVE  CountsTo(<<x>>, base, x)
<1> DEFINE left == [i \in 0 .. 1 |-> IF i = 0 THEN x ELSE 0]
<1>1. left[0] = x /\ left[1] = 0 /\ left \in [0 .. 1 -> Nat]
  OBVIOUS
<1>2. x % base = x /\ x = (x % base) + base * 0
  OBVIOUS
<1> HIDE DEF left
<1>3. \A i \in 1 .. 1 : i = 1 /\ i - 1 = 0
  OBVIOUS
<1>4. Counts(left, <<x>>, base)
  BY <1>1, <1>2, <1>3, OneByte DEF Counts
<1> QED
  BY <1>1, <1>4 DEF CountsTo

\* append() of varint pushes seven bits after the other.
LEMMA VarintIs ==
    \A v \in Nat : Packed!VarintAppend[v] =
        IF v > 127 THEN <<(v % 128) + Packed!More>> \o Packed!VarintAppend[v \div 128] ELSE <<v>>
<1> DEFINE IsAppend(f) ==
               f = [v \in Nat |-> IF v > 127 THEN <<(v % 128) + Packed!More>> \o f[v \div 128] ELSE <<v>>]
           D == Seq(Nat)
           down == [v \in Nat |-> v \div 128]
           stop == 0 .. 127
           start == [v \in Nat |-> <<v>>]
           step == [v \in Nat |-> [s \in D |-> <<(v % 128) + Packed!More>> \o s]]
<1>1. \A v \in Nat : v \div 128 \in Nat /\ (v % 128) + Packed!More \in Nat
  BY DEF Packed!More
<1>2. /\ down \in [Nat -> Nat] /\ stop \in SUBSET Nat /\ start \in [Nat -> D] /\ step \in [Nat -> [D -> D]]
      /\ \A v \in Nat \ stop : down[v] < v
  <2>1. \A x \in Nat, s \in D : <<x>> \o s \in D /\ <<x>> \in D
    BY ByteBefore, OneByte
  <2>2. \A v \in Nat \ stop : v \div 128 < v
    OBVIOUS
  <2> QED
    BY <1>1, <2>1, <2>2
<1>3. PICK f \in [Nat -> D] : Descends(f, Nat, down, stop, start, step)
  <2> HIDE DEF D, down, stop, start, step
  <2> QED
    BY <1>2, Descent
<1>4. ASSUME NEW v \in Nat
      PROVE  f[v] = IF v > 127 THEN <<(v % 128) + Packed!More>> \o f[v \div 128] ELSE <<v>>
  <2>1. f[v] = IF v \in stop THEN start[v] ELSE step[v][f[down[v]]]
    BY <1>3 DEF Descends
  <2>2. f[down[v]] = f[v \div 128] /\ f[v \div 128] \in D
    BY <1>1, <1>3
  <2>3. v \in stop <=> ~(v > 127)
    OBVIOUS
  <2> QED
    BY <2>1, <2>2, <2>3
<1>5. IsAppend(f)
  <2> DEFINE g == [v \in Nat |-> IF v > 127 THEN <<(v % 128) + Packed!More>> \o f[v \div 128] ELSE <<v>>]
  <2>1. f = [v \in Nat |-> f[v]]
    BY <1>3
  <2>2. \A v \in Nat : f[v] = g[v]
    BY <1>4
  <2>3. f = [v \in Nat |-> g[v]]
    BY <2>1, <2>2
  <2> QED
    BY <2>3
<1>6. IsAppend(Packed!VarintAppend)
  <2>1. Packed!VarintAppend = CHOOSE h : IsAppend(h)
    BY DEF Packed!VarintAppend
  <2> HIDE DEF IsAppend
  <2> QED
    BY <1>5, <2>1
<1> QED
  BY <1>6

\* result_length() counts the groups of seven bits.
LEMMA GroupsAre ==
    \A v \in Nat : Packed!Groups[v] = IF v = 0 THEN 0 ELSE 1 + Packed!Groups[v \div 128]
<1> DEFINE IsGroups(f) == f = [v \in Nat |-> IF v = 0 THEN 0 ELSE 1 + f[v \div 128]]
           down == [v \in Nat |-> v \div 128]
           stop == {0}
           start == [v \in Nat |-> 0]
           step == [v \in Nat |-> [n \in Nat |-> 1 + n]]
<1>1. \A v \in Nat : v \div 128 \in Nat
  OBVIOUS
<1>2. /\ down \in [Nat -> Nat] /\ stop \in SUBSET Nat /\ start \in [Nat -> Nat] /\ step \in [Nat -> [Nat -> Nat]]
      /\ \A v \in Nat \ stop : down[v] < v
  <2>1. \A v \in Nat \ stop : v \div 128 < v
    OBVIOUS
  <2> QED
    BY <1>1, <2>1
<1>3. PICK f \in [Nat -> Nat] : Descends(f, Nat, down, stop, start, step)
  <2> HIDE DEF down, stop, start, step
  <2> QED
    BY <1>2, Descent
<1>4. ASSUME NEW v \in Nat
      PROVE  f[v] = IF v = 0 THEN 0 ELSE 1 + f[v \div 128]
  <2>1. f[v] = IF v \in stop THEN start[v] ELSE step[v][f[down[v]]]
    BY <1>3 DEF Descends
  <2>2. f[down[v]] = f[v \div 128] /\ f[v \div 128] \in Nat
    BY <1>1, <1>3
  <2> QED
    BY <2>1, <2>2
<1>5. IsGroups(f)
  <2> DEFINE g == [v \in Nat |-> IF v = 0 THEN 0 ELSE 1 + f[v \div 128]]
  <2>1. f = [v \in Nat |-> f[v]]
    BY <1>3
  <2>2. \A v \in Nat : f[v] = g[v]
    BY <1>4
  <2>3. f = [v \in Nat |-> g[v]]
    BY <2>1, <2>2
  <2> QED
    BY <2>3
<1>6. IsGroups(Packed!Groups)
  <2>1. Packed!Groups = CHOOSE h : IsGroups(h)
    BY DEF Packed!Groups
  <2> HIDE DEF IsGroups
  <2> QED
    BY <1>5, <2>1
<1> QED
  BY <1>6

\* A size packed as varint: the top bit marks every byte but the last, and the bytes
\* count to the size.
IsVarint(p, v) ==
    /\ p \in Seq(Nat) /\ Len(p) \in Nat \ {0}
    /\ \A i \in 1 .. Len(p) : p[i] < Packed!More <=> i = Len(p)
    /\ CountsTo(p, 128, v)
    /\ v # 0 => Packed!Groups[v] = Len(p)

\* A size of seven bits is its own byte.
LEMMA VarintOne ==
    ASSUME NEW v \in 0 .. 127
    PROVE  IsVarint(<<v>>, v)
<1>1. v \in Nat /\ v < 128 /\ 128 \in Nat \ {0} /\ v \div 128 = 0
  OBVIOUS
<1>2. <<v>> \in Seq(Nat) /\ Len(<<v>>) = 1 /\ <<v>>[1] = v
  BY <1>1, OneByte
<1>3. CountsTo(<<v>>, 128, v)
  BY <1>1, OneCounts
<1>4. v # 0 => Packed!Groups[v] = 1
  BY <1>1, GroupsAre
<1> QED
  BY <1>1, <1>2, <1>3, <1>4 DEF IsVarint, Packed!More

\* A byte with the top bit goes before what is left without its seven bits.
LEMMA VarintMore ==
    ASSUME NEW v \in Nat, v > 127, NEW q, IsVarint(q, v \div 128)
    PROVE  IsVarint(<<(v % 128) + Packed!More>> \o q, v)
<1> DEFINE x == (v % 128) + Packed!More
           p == <<x>> \o q
           w == v \div 128
<1>1. /\ x \in Nat /\ x % 128 = v % 128 /\ ~(x < Packed!More) /\ w \in Nat /\ w # 0
      /\ v = (v % 128) + 128 * w /\ 128 \in Nat \ {0}
  BY DEF Packed!More
<1> HIDE DEF x, w
<1>2. q \in Seq(Nat) /\ Len(q) \in Nat \ {0} /\ \A i \in 1 .. Len(q) : q[i] < Packed!More <=> i = Len(q)
  BY DEF IsVarint, w
<1>3. /\ p \in Seq(Nat) /\ Len(p) = 1 + Len(q) /\ p[1] = x
      /\ \A i \in 1 .. Len(q) : p[i + 1] = q[i]
  BY <1>1, <1>2, ByteBefore
<1>4. CountsTo(p, 128, v)
  <2>1. CountsTo(q, 128, w)
    BY DEF IsVarint, w
  <2>2. v = (x % 128) + 128 * w
    BY <1>1
  <2> QED
    BY <1>1, <1>2, <2>1, <2>2, CountsBefore
<1>5. Packed!Groups[v] = Len(p)
  <2>1. Packed!Groups[w] = Len(q)
    BY <1>1 DEF IsVarint, w
  <2>2. Packed!Groups[v] = 1 + Packed!Groups[w]
    BY GroupsAre DEF w
  <2> QED
    BY <1>3, <2>1, <2>2
<1> HIDE DEF p
<1>6. ASSUME NEW i \in 1 .. Len(p) PROVE p[i] < Packed!More <=> i = Len(p)
  <2>1. CASE i = 1
    BY <1>1, <1>2, <1>3, <2>1
  <2>2. CASE i # 1
    <3>1. i - 1 \in 1 .. Len(q) /\ (i - 1) + 1 = i /\ (i = Len(p) <=> i - 1 = Len(q))
      BY <1>2, <1>3, <2>2
    <3>2. p[i] = q[i - 1]
      BY <1>3, <3>1
    <3> QED
      BY <1>2, <3>1, <3>2
  <2> QED
    BY <2>1, <2>2
<1>7. Len(p) \in Nat \ {0}
  BY <1>2, <1>3
<1>8. IsVarint(p, v)
  BY <1>3, <1>4, <1>5, <1>6, <1>7 DEF IsVarint
<1> QED
  BY <1>8 DEF p, x

\* Every size is packed so: the least one that were not would be longer than a byte.
LEMMA VarintPacks ==
    ASSUME NEW v \in Nat
    PROVE  IsVarint(Packed!VarintAppend[v], v)
<1> DEFINE T == {w \in Nat : ~IsVarint(Packed!VarintAppend[w], w)}
<1>1. SUFFICES ASSUME T # {} PROVE FALSE
  OBVIOUS
<1>2. PICK w \in T : \A u \in T : w =< u
  <2>1. T \in SUBSET Nat
    OBVIOUS
  <2> HIDE DEF T
  <2> QED
    BY <1>1, <2>1, LeastNumber
<1>3. w \in Nat /\ ~IsVarint(Packed!VarintAppend[w], w)
  OBVIOUS
<1>4. CASE w > 127
  <2>1. w \div 128 \in Nat /\ ~(w =< w \div 128)
    BY <1>3, <1>4
  <2>2. IsVarint(Packed!VarintAppend[w \div 128], w \div 128)
    BY <1>2, <2>1
  <2>3. Packed!VarintAppend[w] = <<(w % 128) + Packed!More>> \o Packed!VarintAppend[w \div 128]
    BY <1>3, <1>4, VarintIs
  <2> QED
    BY <1>3, <1>4, <2>2, <2>3, VarintMore
<1>5. CASE ~(w > 127)
  <2>1. w \in 0 .. 127
    BY <1>3, <1>5
  <2>2. Packed!VarintAppend[w] = <<w>>
    BY <1>3, <1>5, VarintIs
  <2> QED
    BY <1>3, <2>1, <2>2, VarintOne
<1> QED
  BY <1>4, <1>5

\* What is left of a size when bytes are shifted out.
Shifts(left, v, n) ==
    left \in [0 .. n -> Nat] /\ left[0] = v /\ \A i \in 1 .. n : left[i] = left[i - 1] \div 256

\* One byte is shifted out after the other.
LEMMA ShiftedIs ==
    ASSUME NEW v \in Nat, NEW n \in Nat
    PROVE  Shifts(Packed!Shifted(v, n), v, n)
<1> DEFINE IsLeft(f) == f = [i \in 0 .. n |-> IF i = 0 THEN v ELSE f[i - 1] \div 256]
           step == [i \in 1 .. n |-> [w \in Nat |-> w \div 256]]
<1>1. PICK f \in [0 .. n -> Nat] : Iterates(f, n, v, step)
  <2>1. step \in [1 .. n -> [Nat -> Nat]]
    OBVIOUS
  <2> HIDE DEF step
  <2> QED
    BY <2>1, Iteration
<1>2. f[0] = v /\ \A i \in 1 .. n : f[i] = f[i - 1] \div 256
  <2>1. \A i \in 1 .. n : i - 1 \in 0 .. n
    OBVIOUS
  <2> QED
    BY <1>1, <2>1 DEF Iterates
<1>3. IsLeft(f)
  <2> DEFINE g == [i \in 0 .. n |-> IF i = 0 THEN v ELSE f[i - 1] \div 256]
  <2>1. \A i \in 0 .. n : i = 0 \/ i \in 1 .. n
    OBVIOUS
  <2>2. f = [i \in 0 .. n |-> f[i]]
    BY <1>1
  <2>3. \A i \in 0 .. n : f[i] = g[i]
    BY <1>2, <2>1
  <2>4. f = [i \in 0 .. n |-> g[i]]
    BY <2>2, <2>3
  <2> QED
    BY <2>4
<1> DEFINE left == Packed!Shifted(v, n)
<1>4. IsLeft(left)
  <2>1. left = CHOOSE h : IsLeft(h)
    BY DEF Packed!Shifted
  <2> HIDE DEF IsLeft, left
  <2> QED
    BY <1>3, <2>1
<1> HIDE DEF left
<1>5. left[0] = v /\ \A i \in 1 .. n : left[i] = left[i - 1] \div 256
  <2>1. 0 \in 0 .. n /\ \A i \in 1 .. n : i \in 0 .. n /\ i # 0
    OBVIOUS
  <2> QED
    BY <1>4, <2>1
<1> DEFINE T == {i \in 0 .. n : left[i] = f[i]}
<1>6. T = 0 .. n
  <2>1. 0 \in T
    BY <1>2, <1>5
  <2>2. ASSUME NEW i \in 1 .. n, i - 1 \in T PROVE i \in T
    BY <1>2, <1>5, <2>2
  <2>3. T \in SUBSET (0 .. n)
    OBVIOUS
  <2> HIDE DEF T
  <2> QED
    BY <2>1, <2>2, <2>3, InductionUpTo
<1>7. left \in [0 .. n -> Nat]
  <2>1. \A i \in 0 .. n : left[i] = f[i] /\ f[i] \in Nat
    BY <1>1, <1>6
  <2>2. left = [i \in 0 .. n |-> left[i]]
    BY <1>4
  <2> QED
    BY <2>1, <2>2
<1> QED
  BY <1>5, <1>7 DEF left, Shifts

\* The bytes of a size that fits count to it.
LEMMA BytesCount ==
    ASSUME NEW v \in Nat, NEW n \in Nat
    PROVE  /\ Packed!Bytes(v, n) \in Seq(Nat) /\ Len(Packed!Bytes(v, n)) = n
           /\ \A i \in 1 .. n : Packed!Bytes(v, n)[i] \in 0 .. 255
           /\ Packed!Fits(v, n) => CountsTo(Packed!Bytes(v, n), 256, v)
<1> DEFINE left == Packed!Shifted(v, n)
           b == Packed!Bytes(v, n)
<1>1. left \in [0 .. n -> Nat] /\ left[0] = v /\ \A i \in 1 .. n : left[i] = left[i - 1] \div 256
  <2>1. Shifts(left, v, n)
    BY ShiftedIs
  <2> HIDE DEF left
  <2> QED
    BY <2>1 DEF Shifts
<1>2. b = [i \in 1 .. n |-> left[i - 1] % 256]
  BY DEF Packed!Bytes
<1> HIDE DEF left
<1>3. \A i \in 1 .. n : left[i - 1] \in Nat /\ left[i - 1] % 256 \in Nat /\ left[i - 1] % 256 \in 0 .. 255
  <2>1. \A x \in Nat : x % 256 \in Nat /\ x % 256 \in 0 .. 255
    OBVIOUS
  <2>2. \A i \in 1 .. n : i - 1 \in 0 .. n
    OBVIOUS
  <2>3. \A i \in 1 .. n : left[i - 1] \in Nat
    BY <1>1, <2>2
  <2> QED
    BY <2>1, <2>3
<1>4. b \in Seq(Nat) /\ Len(b) = n /\ \A i \in 1 .. n : b[i] = left[i - 1] % 256 /\ b[i] \in 0 .. 255
  <2>1. b \in [1 .. n -> Nat]
    BY <1>2, <1>3
  <2> QED
    BY <1>2, <1>3, <2>1
<1> HIDE DEF b
<1>5. ASSUME Packed!Fits(v, n) PROVE Counts(left, b, 256)
  <2>1. left[n] = 0
    BY <1>5 DEF Packed!Fits, left
  <2>2. \A x \in Nat : x = ((x % 256) % 256) + 256 * (x \div 256)
    OBVIOUS
  <2>3. ASSUME NEW i \in 1 .. n PROVE left[i - 1] = (b[i] % 256) + 256 * left[i]
    <3>1. left[i - 1] \in Nat /\ b[i] = left[i - 1] % 256 /\ left[i] = left[i - 1] \div 256
      BY <1>1, <1>3, <1>4
    <3>2. left[i - 1] = ((left[i - 1] % 256) % 256) + 256 * (left[i - 1] \div 256)
      BY <2>2, <3>1
    <3> QED
      BY <3>1, <3>2
  <2> QED
    BY <1>1, <1>4, <2>1, <2>3 DEF Counts
<1> QED
  BY <1>1, <1>4, <1>5 DEF b, CountsTo

\* Whatever 16 bits carry fits two bytes.
LEMMA TwoBytes ==
    ASSUME NEW v \in Nat, v =< 65535
    PROVE  Packed!Fits(v, 2)
<1> DEFINE left == Packed!Shifted(v, 2)
<1>1. left[0] = v /\ left[1] = left[0] \div 256 /\ left[2] = left[1] \div 256
  <2>1. Shifts(left, v, 2)
    BY ShiftedIs
  <2> HIDE DEF left
  <2> QED
    BY <2>1 DEF Shifts
<1> HIDE DEF left
<1>2. (v \div 256) \div 256 = 0
  <2>1. v \div 256 \in 0 .. 255
    OBVIOUS
  <2>2. \A w \in 0 .. 255 : w \div 256 = 0
    OBVIOUS
  <2> QED
    BY <2>1, <2>2
<1> QED
  BY <1>1, <1>2 DEF Packed!Fits, left

\* A stream begins with the bytes in p, as far as it goes.
Begins(b, p) == Len(b) # 0 /\ \A i \in 1 .. Len(b) : i =< Len(p) => b[i] = p[i]

\* The lengths that packed_length() finds in what begins with p.
Frames(length, b, p) == length = IF Len(b) < Len(p) THEN 0 ELSE Len(p)

\* packed_length() of varint goes to the first byte without the top bit.
LEMMA VarintFrames ==
    ASSUME NEW v, NEW p, IsVarint(p, v), NEW b \in Seq(Nat), Begins(b, p)
    PROVE  Frames(Packed!VarintLength(b), b, p)
<1> DEFINE last == {n \in DOMAIN b : b[n] < Packed!More}
           n == Packed!VarintLength(b)
<1>1. p \in Seq(Nat) /\ Len(p) \in Nat \ {0} /\ \A i \in 1 .. Len(p) : p[i] < Packed!More <=> i = Len(p)
  BY DEF IsVarint
<1>2. DOMAIN b = 1 .. Len(b) /\ Len(b) \in Nat
  BY LenProperties
<1>3. \A i \in last : i \in Nat /\ Len(p) =< i
  <2>1. ASSUME NEW i \in last, i < Len(p) PROVE FALSE
    <3>1. i \in 1 .. Len(b) /\ i \in 1 .. Len(p) /\ i =< Len(p) /\ i # Len(p) /\ b[i] < Packed!More
      BY <1>1, <1>2, <2>1
    <3>2. b[i] = p[i]
      BY <3>1 DEF Begins
    <3> QED
      BY <1>1, <3>1, <3>2
  <2> QED
    BY <1>1, <1>2, <2>1
<1>4. n = IF last = {} THEN 0 ELSE CHOOSE k \in last : \A m \in last : k =< m
  BY DEF Packed!VarintLength
<1>5. CASE Len(b) < Len(p)
  <2>1. \A i \in last : i =< Len(b)
    BY <1>2
  <2>2. last = {}
    BY <1>1, <1>2, <1>3, <1>5, <2>1
  <2> QED
    BY <1>4, <1>5, <2>2 DEF Frames
<1>6. CASE ~(Len(b) < Len(p))
  <2>1. Len(p) \in last
    <3>1. Len(p) \in 1 .. Len(b) /\ Len(p) \in 1 .. Len(p) /\ Len(p) =< Len(p)
      BY <1>1, <1>2, <1>6
    <3>2. b[Len(p)] = p[Len(p)] /\ p[Len(p)] < Packed!More
      BY <1>1, <3>1 DEF Begins
    <3> QED
      BY <1>2, <3>1, <3>2
  <2> HIDE DEF last
  <2>2. \A m \in last : Len(p) =< m
    BY <1>3
  <2>3. n \in last /\ \A m \in last : n =< m
    BY <1>4, <2>1, <2>2
  <2>4. n =< Len(p) /\ Len(p) =< n /\ n \in Nat
    BY <1>3, <2>1, <2>3
  <2> QED
    BY <1>1, <1>6, <2>4 DEF Frames
<1> QED
  BY <1>5, <1>6

\* A prefix and the bytes it announces.
IsPrefixed(p, v) ==
    /\ p \in Seq(Nat) /\ Len(p) \in Nat \ {0} /\ Packed!LenByPrefix(p[1]) = Len(p)
    /\ Packed!LittleEndian(IF Packed!LenByPrefix(p[1]) = 1 THEN p ELSE Tail(p), 256) = v

\* A prefix that announces n bytes, and the n bytes of a size that fits them.
LEMMA PrefixAndBytes ==
    ASSUME NEW v \in Nat, NEW n \in Nat \ {0}, Packed!Fits(v, n), NEW x \in Nat, Packed!LenByPrefix(x) = n + 1
    PROVE  IsPrefixed(<<x>> \o Packed!Bytes(v, n), v) /\ Len(<<x>> \o Packed!Bytes(v, n)) = n + 1
<1> DEFINE q == Packed!Bytes(v, n)
           p == <<x>> \o q
<1>1. q \in Seq(Nat) /\ Len(q) = n /\ CountsTo(q, 256, v)
  BY BytesCount
<1> HIDE DEF q
<1>2. p \in Seq(Nat) /\ Len(p) = n + 1 /\ p[1] = x /\ \A i \in 1 .. n : p[i + 1] = q[i]
  BY <1>1, ByteBefore
<1> HIDE DEF p
<1>3. Tail(p) = q
  <2>1. p # <<>> /\ Len(p) - 1 = n
    BY <1>2
  <2>2. Tail(p) \in Seq(Nat) /\ Len(Tail(p)) = n /\ \A i \in 1 .. n : Tail(p)[i] = p[i + 1]
    BY <1>2, <2>1, HeadTailProperties
  <2>3. \A i \in 1 .. n : Tail(p)[i] = q[i]
    BY <1>2, <2>2
  <2> QED
    BY <1>1, <2>2, <2>3, SeqEqual
<1>4. Packed!LittleEndian(q, 256) = v
  BY <1>1, LittleEndianIs
<1>5. n + 1 # 1 /\ n + 1 \in Nat \ {0}
  OBVIOUS
<1>6. IsPrefixed(p, v)
  BY <1>2, <1>3, <1>4, <1>5 DEF IsPrefixed
<1> QED
  BY <1>2, <1>6 DEF p, q

\* pack() of blockchain_varint chooses a prefix for as many bytes as the size needs.
LEMMA BlockchainPacks ==
    ASSUME NEW v \in Nat, Packed!Fits(v, 8)
    PROVE  /\ IsPrefixed(Packed!BlockchainPack(v), v)
           /\ Packed!BlockchainResultLength(v) = Len(Packed!BlockchainPack(v))
<1>0. Packed!Prefix16 = 253 /\ Packed!Prefix32 = 254 /\ Packed!Prefix64 = 255
  BY DEF Packed!Prefix16, Packed!Prefix32, Packed!Prefix64
<1>1. /\ Packed!LenByPrefix(253) = 3 /\ Packed!LenByPrefix(254) = 5 /\ Packed!LenByPrefix(255) = 9
      /\ \A x \in 0 .. 252 : Packed!LenByPrefix(x) = 1
  BY <1>0 DEF Packed!LenByPrefix
<1>2. CASE v < 253
  <2>1. v \in 0 .. 252 /\ v < 256 /\ 256 \in Nat \ {0}
    BY <1>2
  <2>2. Packed!BlockchainPack(v) = <<v>> /\ Packed!BlockchainResultLength(v) = 1
    BY <1>0, <1>2 DEF Packed!BlockchainPack, Packed!BlockchainResultLength
  <2>3. <<v>> \in Seq(Nat) /\ Len(<<v>>) = 1 /\ <<v>>[1] = v
    BY OneByte
  <2>4. Packed!LenByPrefix(v) = 1
    BY <1>1, <2>1
  <2>5. Packed!LittleEndian(<<v>>, 256) = v
    <3>1. CountsTo(<<v>>, 256, v)
      BY <2>1, OneCounts
    <3> QED
      BY <2>1, <2>3, <3>1, LittleEndianIs, ZenonT(40)
  <2>6. 1 \in Nat \ {0}
    OBVIOUS
  <2>7. IsPrefixed(<<v>>, v)
    BY <2>3, <2>4, <2>5, <2>6 DEF IsPrefixed
  <2> QED
    BY <2>2, <2>3, <2>7
<1>3. ASSUME ~(v < 253)
      PROVE  /\ Packed!BlockchainPack(v) = Packed!Prefixed(v)
             /\ Packed!BlockchainResultLength(v) = IF v =< 65535 THEN 3 ELSE IF Packed!Fits(v, 4) THEN 5 ELSE 9
  <2>1. ~(v < Packed!Prefix16)
    BY <1>0, <1>3
  <2> QED
    BY <2>1 DEF Packed!BlockchainPack, Packed!BlockchainResultLength
<1>4. CASE ~(v < 253) /\ v =< 65535
  <2>1. Packed!BlockchainPack(v) = <<Packed!Prefix16>> \o Packed!Bytes(v, 2) /\ Packed!BlockchainResultLength(v) = 3
    BY <1>3, <1>4 DEF Packed!Prefixed
  <2>3. Packed!Fits(v, 2)
    BY <1>4, TwoBytes
  <2>4. Packed!LenByPrefix(Packed!Prefix16) = 2 + 1 /\ Packed!Prefix16 \in Nat /\ 2 \in Nat \ {0} /\ 2 + 1 = 3
    BY <1>0, <1>1
  <2>5. IsPrefixed(<<Packed!Prefix16>> \o Packed!Bytes(v, 2), v) /\ Len(<<Packed!Prefix16>> \o Packed!Bytes(v, 2)) = 2 + 1
    BY <2>3, <2>4, PrefixAndBytes
  <2> QED
    BY <2>1, <2>4, <2>5
<1>5. CASE ~(v < 253) /\ ~(v =< 65535) /\ Packed!Fits(v, 4)
  <2>1. Packed!BlockchainPack(v) = <<Packed!Prefix32>> \o Packed!Bytes(v, 4) /\ Packed!BlockchainResultLength(v) = 5
    BY <1>3, <1>5 DEF Packed!Prefixed
  <2>2. Packed!LenByPrefix(Packed!Prefix32) = 4 + 1 /\ Packed!Prefix32 \in Nat /\ 4 \in Nat \ {0} /\ 4 + 1 = 5
    BY <1>0, <1>1
  <2>3. IsPrefixed(<<Packed!Prefix32>> \o Packed!Bytes(v, 4), v) /\ Len(<<Packed!Prefix32>> \o Packed!Bytes(v, 4)) = 4 + 1
    BY <1>5, <2>2, PrefixAndBytes
  <2> QED
    BY <2>1, <2>2, <2>3
<1>6. CASE ~(v < 253) /\ ~(v =< 65535) /\ ~Packed!Fits(v, 4)
  <2>1. Packed!BlockchainPack(v) = <<Packed!Prefix64>> \o Packed!Bytes(v, 8) /\ Packed!BlockchainResultLength(v) = 9
    BY <1>3, <1>6 DEF Packed!Prefixed
  <2>2. Packed!LenByPrefix(Packed!Prefix64) = 8 + 1 /\ Packed!Prefix64 \in Nat /\ 8 \in Nat \ {0} /\ 8 + 1 = 9
    BY <1>0, <1>1
  <2>3. IsPrefixed(<<Packed!Prefix64>> \o Packed!Bytes(v, 8), v) /\ Len(<<Packed!Prefix64>> \o Packed!Bytes(v, 8)) = 8 + 1
    BY <2>2, PrefixAndBytes
  <2> QED
    BY <2>1, <2>2, <2>3
<1> QED
  BY <1>2, <1>4, <1>5, <1>6

-----------------------------------------------------------------------------
\* A size that fits n bytes has zeros for the others of its eight.
LEMMA BytesPad ==
    ASSUME NEW v \in Nat, NEW n \in 1 .. 8, Packed!Fits(v, n)
    PROVE  Packed!Bytes(v, 8) = [i \in 1 .. 8 |-> IF i =< n THEN Packed!Bytes(v, n)[i] ELSE 0]
<1> DEFINE few == Packed!Shifted(v, n)
           all == Packed!Shifted(v, 8)
<1>0. n \in Nat /\ 8 \in Nat
  OBVIOUS
<1>1. few[0] = v /\ few[n] = 0 /\ \A i \in 1 .. n : few[i] = few[i - 1] \div 256
  <2>1. Shifts(few, v, n)
    BY <1>0, ShiftedIs
  <2>2. few[n] = 0
    BY DEF Packed!Fits
  <2> HIDE DEF few
  <2> QED
    BY <2>1, <2>2 DEF Shifts
<1>2. all[0] = v /\ \A i \in 1 .. 8 : all[i] = all[i - 1] \div 256
  <2>1. Shifts(all, v, 8)
    BY <1>0, ShiftedIs
  <2> HIDE DEF all
  <2> QED
    BY <2>1 DEF Shifts
<1>3. /\ Packed!Bytes(v, 8) = [i \in 1 .. 8 |-> all[i - 1] % 256]
      /\ Packed!Bytes(v, n) = [i \in 1 .. n |-> few[i - 1] % 256]
  BY DEF Packed!Bytes
<1> HIDE DEF few, all
<1> DEFINE T == {i \in 0 .. 8 : all[i] = IF i =< n THEN few[i] ELSE 0}
<1>4. T = 0 .. 8
  <2>1. 0 \in T
    BY <1>1, <1>2
  <2>2. ASSUME NEW i \in 1 .. 8, i - 1 \in T PROVE i \in T
    <3>1. all[i] = all[i - 1] \div 256 /\ all[i - 1] = IF i - 1 =< n THEN few[i - 1] ELSE 0
      BY <1>2, <2>2
    <3>2. CASE i =< n
      BY <1>1, <3>1, <3>2
    <3>3. CASE ~(i =< n)
      <4>1. all[i - 1] = 0
        <5>1. CASE i - 1 =< n
          <6>1. i - 1 = n
            BY <3>3, <5>1
          <6> QED
            BY <1>1, <3>1, <5>1, <6>1
        <5>2. CASE ~(i - 1 =< n)
          BY <3>1, <5>2
        <5> QED
          BY <5>1, <5>2
      <4>2. 0 \div 256 = 0
        OBVIOUS
      <4> QED
        BY <3>1, <3>3, <4>1, <4>2
    <3> QED
      BY <3>2, <3>3
  <2>3. T \in SUBSET (0 .. 8)
    OBVIOUS
  <2> HIDE DEF T
  <2> QED
    BY <1>0, <2>1, <2>2, <2>3, InductionUpTo
<1>5. ASSUME NEW i \in 1 .. 8
      PROVE  all[i - 1] % 256 = IF i =< n THEN Packed!Bytes(v, n)[i] ELSE 0
  <2>1. i - 1 \in T
    BY <1>4
  <2>2. CASE i =< n
    BY <1>3, <2>1, <2>2
  <2>3. CASE ~(i =< n)
    <3>1. all[i - 1] = 0
      <4>1. CASE i - 1 =< n
        <5>1. i - 1 = n
          BY <2>3, <4>1
        <5> QED
          BY <1>1, <2>1, <4>1, <5>1
      <4>2. CASE ~(i - 1 =< n)
        BY <2>1, <4>2
      <4> QED
        BY <4>1, <4>2
    <3>2. 0 % 256 = 0
      OBVIOUS
    <3> QED
      BY <2>3, <3>1, <3>2
  <2> QED
    BY <2>2, <2>3
<1> HIDE DEF T
<1> QED
  BY <1>3, <1>5

\* The bytes that follow a prefix.
Followers == {2, 4, 8}

\* unpack(begin, end) over a prefix and its bytes, and over one byte more.
LEMMA RangeOfPrefixed ==
    ASSUME NEW v \in Nat, NEW n \in Followers, Packed!Fits(v, n), NEW x \in Nat,
           Packed!LenByPrefix(x) = n + 1
    PROVE  LET p == <<x>> \o Packed!Bytes(v, n)
           IN  /\ \A signed \in BOOLEAN : Packed!RangeResults(p, signed) = {Packed!Bytes(v, 8)}
               /\ \A next \in 0 .. 255 :
                     Packed!RangeResults(Append(p, next), FALSE) = {Packed!Bytes(v, 8)}
                         <=> next = 0 /\ n # 8
<1> DEFINE q == Packed!Bytes(v, n)
           p == <<x>> \o q
           word == Packed!Bytes(v, 8)
<1>0. n \in Nat /\ n \in 1 .. 8 /\ n \in Nat \ {0}
  BY DEF Followers
<1>1. q \in Seq(Nat) /\ Len(q) = n
  BY <1>0, BytesCount
<1>2. word = [i \in 1 .. 8 |-> IF i =< n THEN q[i] ELSE 0]
  BY <1>0, BytesPad
<1> HIDE DEF q, word
<1>3. p \in Seq(Nat) /\ Len(p) = n + 1 /\ p[1] = x /\ \A i \in 1 .. n : p[i + 1] = q[i]
  BY <1>0, <1>1, ByteBefore
<1> HIDE DEF p
<1>4. ASSUME NEW signed \in BOOLEAN PROVE Packed!RangeResults(p, signed) = {word}
  <2>1. Packed!LenByPrefix(p[1]) = n + 1 /\ n + 1 # 1 /\ ~(n + 1 < Len(p) - 1) /\ Len(p) - 1 = n /\ n =< 8
    BY <1>0, <1>3
  <2>2. Packed!RangeResults(p, signed) = {[i \in 1 .. 8 |-> IF i =< n THEN p[i + 1] ELSE 0]}
    BY <2>1 DEF Packed!RangeResults
  <2>3. \A i \in 1 .. 8 : (IF i =< n THEN p[i + 1] ELSE 0) = (IF i =< n THEN q[i] ELSE 0)
    BY <1>0, <1>3
  <2> QED
    BY <1>2, <2>2, <2>3
<1>5. ASSUME NEW next \in 0 .. 255
      PROVE  Packed!RangeResults(Append(p, next), FALSE) = {word} <=> next = 0 /\ n # 8
  <2> DEFINE b == Append(p, next)
             more == [i \in 1 .. 8 |-> IF i =< n + 1 THEN b[i + 1] ELSE 0]
  <2>1. next \in Nat
    OBVIOUS
  <2>2. Len(b) = n + 2 /\ b[1] = x /\ b[n + 2] = next /\ \A i \in 1 .. n : b[i + 1] = q[i]
    <3>1. Len(b) = Len(p) + 1 /\ \A i \in 1 .. Len(p) + 1 : b[i] = IF i <= Len(p) THEN p[i] ELSE next
      BY <1>3, <2>1, AppendProperties
    <3> HIDE DEF b
    <3>2. Len(b) = n + 2 /\ 1 \in 1 .. Len(p) + 1 /\ n + 2 \in 1 .. Len(p) + 1 /\ 1 <= Len(p) /\ ~(n + 2 <= Len(p))
      BY <1>0, <1>3, <3>1
    <3>3. b[1] = x /\ b[n + 2] = next
      BY <1>3, <3>1, <3>2
    <3>4. ASSUME NEW i \in 1 .. n PROVE b[i + 1] = q[i]
      <4>1. i + 1 \in 1 .. Len(p) + 1 /\ i + 1 <= Len(p)
        BY <1>0, <1>3
      <4> QED
        BY <1>3, <3>1, <4>1
    <3> QED
      BY <3>2, <3>3, <3>4
  <2> HIDE DEF b
  <2>3. Packed!LenByPrefix(b[1]) = n + 1 /\ n + 1 # 1 /\ ~(n + 1 < Len(b) - 1) /\ Len(b) - 1 = n + 1
    BY <1>0, <2>2
  <2>4. Packed!RangeResults(b, FALSE) =
           IF n + 1 =< 8 THEN {more} ELSE Packed!AnyFirst(more)
    BY <2>3 DEF Packed!RangeResults
  <2>5. CASE n # 8
    <3>1. n + 1 =< 8 /\ n + 1 \in 1 .. 8 /\ ~(n + 1 =< n) /\ (n + 1) + 1 = n + 2
      BY <1>0, <2>5
    <3>2. more[n + 1] = next /\ word[n + 1] = 0
      BY <1>2, <2>2, <3>1
    <3>3. ASSUME next = 0 PROVE more = word
      <4>1. ASSUME NEW i \in 1 .. 8
            PROVE  (IF i =< n + 1 THEN b[i + 1] ELSE 0) = (IF i =< n THEN q[i] ELSE 0)
        <5>1. CASE i =< n
          BY <1>0, <2>2, <5>1
        <5>2. CASE i = n + 1
          BY <1>0, <2>2, <3>1, <3>3, <5>2
        <5>3. CASE ~(i =< n) /\ i # n + 1
          BY <1>0, <5>3
        <5> QED
          BY <5>1, <5>2, <5>3
      <4> QED
        BY <1>2, <4>1
    <3> HIDE DEF more
    <3>4. next # 0 => more # word
      BY <3>2
    <3>5. Packed!RangeResults(b, FALSE) = {more}
      BY <2>4, <3>1
    <3>6. {more} = {word} <=> more = word
      OBVIOUS
    <3>7. Packed!RangeResults(b, FALSE) = {word} <=> next = 0
      BY <3>3, <3>4, <3>5, <3>6
    <3> QED
      BY <2>5, <3>7 DEF b
  <2>6. CASE n = 8
    <3> DEFINE results == Packed!RangeResults(b, FALSE)
               zero == [more EXCEPT ![1] = 0]
               one == [more EXCEPT ![1] = 1]
    <3>1. zero \in results /\ one \in results
      <4> HIDE DEF more
      <4>1. ~(n + 1 =< 8) /\ 0 \in 0 .. 255 /\ 1 \in 0 .. 255
        BY <2>6
      <4>2. results = Packed!AnyFirst(more)
        BY <2>4, <4>1
      <4>3. \A first \in 0 .. 255 : [more EXCEPT ![1] = first] \in Packed!AnyFirst(more)
        BY Zenon DEF Packed!AnyFirst
      <4> QED
        BY <4>1, <4>2, <4>3
    <3>2. zero[1] = 0 /\ one[1] = 1
      OBVIOUS
    <3> HIDE DEF zero, one, more, results
    <3>3. zero # one
      BY <3>2
    <3>4. results # {word}
      BY <3>1, <3>3
    <3> QED
      BY <2>6, <3>4 DEF b, results
  <2> QED
    BY <2>5, <2>6
<1> QED
  BY <1>4, <1>5 DEF word, p, q

\* unpack(begin, end) over a size that is a byte of its own.
LEMMA RangeOfByte ==
    ASSUME NEW v \in 0 .. 252, Packed!LenByPrefix(v) = 1, NEW b, b[1] = v
    PROVE  /\ Packed!RangeResults(b, FALSE) = {Packed!Bytes(v, 8)}
           /\ Packed!RangeResults(b, TRUE) = {Packed!Bytes(v, 8)} <=> v \notin 128 .. 252
<1> DEFINE word == Packed!Bytes(v, 8)
           left == Packed!Shifted(v, 1)
<1>1. left[0] = v /\ left[1] = v \div 256 /\ v \div 256 = 0 /\ v % 256 = v
  <2>1. Shifts(left, v, 1)
    BY ShiftedIs
  <2> HIDE DEF left
  <2>2. 1 \in 1 .. 1 /\ 1 - 1 = 0 /\ v \div 256 = 0 /\ v % 256 = v
    OBVIOUS
  <2> QED
    BY <2>1, <2>2 DEF Shifts
<1>2. Packed!Fits(v, 1)
  BY <1>1 DEF Packed!Fits
<1>3. Packed!Bytes(v, 1)[1] = v
  <2>1. Packed!Bytes(v, 1) = [i \in 1 .. 1 |-> left[i - 1] % 256]
    BY DEF Packed!Bytes
  <2> HIDE DEF left
  <2> QED
    BY <1>1, <2>1
<1> HIDE DEF left
<1>4. word = [i \in 1 .. 8 |-> IF i = 1 THEN v ELSE 0]
  <2>1. v \in Nat /\ 1 \in 1 .. 8
    OBVIOUS
  <2>2. word = [i \in 1 .. 8 |-> IF i =< 1 THEN Packed!Bytes(v, 1)[i] ELSE 0]
    BY <1>2, <2>1, BytesPad
  <2> HIDE DEF word
  <2>3. \A i \in 1 .. 8 : (IF i =< 1 THEN Packed!Bytes(v, 1)[i] ELSE 0) = (IF i = 1 THEN v ELSE 0)
    BY <1>3
  <2> QED
    BY <2>2, <2>3
<1> HIDE DEF word
<1> DEFINE unsigned == Packed!SignExtended(v, FALSE)
           extended == Packed!SignExtended(v, TRUE)
<1>5. Packed!RangeResults(b, FALSE) = {unsigned} /\ Packed!RangeResults(b, TRUE) = {extended}
  BY DEF Packed!RangeResults
<1>6. unsigned = word
  BY <1>4 DEF Packed!SignExtended
<1>7. v < 128 => extended = word
  BY <1>4 DEF Packed!SignExtended
<1>8. v >= 128 => extended # word
  <2>1. v >= 128 => extended[2] = 255
    BY DEF Packed!SignExtended
  <2>2. word[2] = 0
    BY <1>4
  <2> HIDE DEF extended
  <2> QED
    BY <2>1, <2>2
<1> HIDE DEF extended, unsigned
<1>9. (v < 128 <=> v \notin 128 .. 252) /\ (v < 128 \/ v >= 128)
  OBVIOUS
<1>10. {extended} = {word} <=> extended = word
  OBVIOUS
<1>11. extended = word <=> v \notin 128 .. 252
  BY <1>7, <1>8, <1>9
<1> QED
  BY <1>5, <1>6, <1>10, <1>11 DEF word

\* unpack(begin, end) over a prefix and its bytes agrees.
LEMMA RangeAgreesPrefixed ==
    ASSUME NEW v \in Nat, ~(v < 253), NEW n \in Followers, Packed!Fits(v, n), NEW x \in Nat,
           Packed!LenByPrefix(x) = n + 1, Packed!BlockchainPack(v) = <<x>> \o Packed!Bytes(v, n)
    PROVE  Packed!RangeAgrees(v)
<1> DEFINE p == Packed!BlockchainPack(v)
           word == Packed!Bytes(v, 8)
<1>1. Len(p) = n + 1
  <2>1. n \in Nat \ {0}
    BY DEF Followers
  <2> QED
    BY <2>1, PrefixAndBytes
<1>2. /\ \A signed \in BOOLEAN : Packed!RangeResults(p, signed) = {word}
      /\ \A next \in 0 .. 255 :
            Packed!RangeResults(Append(p, next), FALSE) = {word} <=> next = 0 /\ n # 8
  <2> DEFINE q == <<x>> \o Packed!Bytes(v, n)
  <2>1. /\ \A signed \in BOOLEAN : Packed!RangeResults(q, signed) = {word}
        /\ \A next \in 0 .. 255 :
              Packed!RangeResults(Append(q, next), FALSE) = {word} <=> next = 0 /\ n # 8
    BY RangeOfPrefixed
  <2>2. p = q
    OBVIOUS
  <2> HIDE DEF p, q, word
  <2> QED
    BY <2>1, <2>2
<1> HIDE DEF p, word
<1>3. v \notin 128 .. 252 /\ Len(p) # 1 /\ (Len(p) < 9 <=> n # 8)
  BY <1>1 DEF Followers
<1> DEFINE Nexts == {0, 1, 255}
<1>4. Nexts \subseteq 0 .. 255
  OBVIOUS
<1> HIDE DEF Nexts
<1>5. ASSUME NEW next \in Nexts
      PROVE  Packed!RangeResults(Append(p, next), FALSE) = {word}
                 <=> Len(p) = 1 \/ (next = 0 /\ Len(p) < 9)
  <2>1. next \in 0 .. 255
    BY <1>4
  <2> DEFINE gives == Packed!RangeResults(Append(p, next), FALSE) = {word}
  <2>2. gives <=> next = 0 /\ n # 8
    BY <1>2, <2>1
  <2> HIDE DEF gives
  <2>3. gives <=> Len(p) = 1 \/ (next = 0 /\ Len(p) < 9)
    BY <1>3, <2>2
  <2> QED
    BY <2>3 DEF gives
<1> QED
  BY <1>2, <1>3, <1>5 DEF Packed!RangeAgrees, p, word, Nexts

\* unpack(begin, end) gives a size back where RangeAgrees says, and nowhere else.
LEMMA RangeAgreesSo ==
    ASSUME NEW v \in Nat, Packed!Fits(v, 8)
    PROVE  Packed!RangeAgrees(v)
<1> DEFINE p == Packed!BlockchainPack(v)
           word == Packed!Bytes(v, 8)
<1>0. Packed!Prefix16 = 253 /\ Packed!Prefix32 = 254 /\ Packed!Prefix64 = 255
  BY DEF Packed!Prefix16, Packed!Prefix32, Packed!Prefix64
<1>1. /\ Packed!LenByPrefix(Packed!Prefix16) = 2 + 1 /\ Packed!LenByPrefix(Packed!Prefix32) = 4 + 1
      /\ Packed!LenByPrefix(Packed!Prefix64) = 8 + 1
      /\ \A x \in 0 .. 252 : Packed!LenByPrefix(x) = 1
  BY <1>0 DEF Packed!LenByPrefix
<1>2. /\ 2 \in Followers /\ 4 \in Followers /\ 8 \in Followers
      /\ Packed!Prefix16 \in Nat /\ Packed!Prefix32 \in Nat /\ Packed!Prefix64 \in Nat
  BY <1>0 DEF Followers
<1>3. CASE v < 253
  <2>1. v \in 0 .. 252 /\ Packed!LenByPrefix(v) = 1
    BY <1>1, <1>3
  <2>2. p = <<v>>
    BY <1>0, <1>3 DEF Packed!BlockchainPack
  <2>3. p \in Seq(Nat) /\ Len(p) = 1 /\ p[1] = v
    BY <2>2, OneByte
  <2> HIDE DEF p, word
  <2>4. ASSUME NEW b, b[1] = v
        PROVE  /\ Packed!RangeResults(b, FALSE) = {word}
               /\ Packed!RangeResults(b, TRUE) = {word} <=> v \notin 128 .. 252
    BY <2>1, <2>4, RangeOfByte DEF word
  <2> DEFINE Nexts == {0, 1, 255}
  <2>5. Nexts \subseteq Nat /\ 1 \in 1 .. 1 + 1 /\ 1 <= 1
    OBVIOUS
  <2> HIDE DEF Nexts
  <2>6. ASSUME NEW next \in Nexts PROVE Packed!RangeResults(Append(p, next), FALSE) = {word}
    <3>1. Append(p, next)[1] = v
      BY <2>3, <2>5, AppendProperties
    <3> QED
      BY <2>4, <3>1, ZenonT(40)
  <2>7. /\ Packed!RangeResults(p, FALSE) = {word}
        /\ Packed!RangeResults(p, TRUE) = {word} <=> v \notin 128 .. 252
    BY <2>3, <2>4, ZenonT(40)
  <2> QED
    BY <2>3, <2>6, <2>7 DEF Packed!RangeAgrees, p, word, Nexts
<1>4. ASSUME ~(v < 253) PROVE p = Packed!Prefixed(v)
  <2>1. ~(v < Packed!Prefix16)
    BY <1>0, <1>4
  <2> QED
    BY <2>1 DEF Packed!BlockchainPack
<1>5. ASSUME ~(v < 253), NEW n \in Followers, Packed!Fits(v, n), NEW x \in Nat,
             Packed!LenByPrefix(x) = n + 1, p = <<x>> \o Packed!Bytes(v, n)
      PROVE  Packed!RangeAgrees(v)
  BY <1>5, RangeAgreesPrefixed, Zenon
<1> HIDE DEF p
<1>6. CASE ~(v < 253) /\ v =< 65535
  <2>1. p = <<Packed!Prefix16>> \o Packed!Bytes(v, 2)
    BY <1>4, <1>6 DEF Packed!Prefixed
  <2>2. Packed!Fits(v, 2)
    BY <1>6, TwoBytes
  <2>3. ~(v < 253) /\ Packed!Fits(v, 2)
    BY <1>6, <2>2
  <2>4. 2 \in Followers /\ Packed!Prefix16 \in Nat /\ Packed!LenByPrefix(Packed!Prefix16) = 2 + 1
    BY <1>1, <1>2
  <2> QED
    BY <1>5, <2>1, <2>3, <2>4
<1>7. CASE ~(v < 253) /\ ~(v =< 65535) /\ Packed!Fits(v, 4)
  <2>1. p = <<Packed!Prefix32>> \o Packed!Bytes(v, 4)
    BY <1>4, <1>7 DEF Packed!Prefixed
  <2>2. ~(v < 253) /\ Packed!Fits(v, 4)
    BY <1>7
  <2>3. 4 \in Followers /\ Packed!Prefix32 \in Nat /\ Packed!LenByPrefix(Packed!Prefix32) = 4 + 1
    BY <1>1, <1>2
  <2> QED
    BY <1>5, <2>1, <2>2, <2>3
<1>8. CASE ~(v < 253) /\ ~(v =< 65535) /\ ~Packed!Fits(v, 4)
  <2>1. p = <<Packed!Prefix64>> \o Packed!Bytes(v, 8)
    BY <1>4, <1>8 DEF Packed!Prefixed
  <2>2. ~(v < 253) /\ Packed!Fits(v, 8)
    BY <1>8
  <2>3. 8 \in Followers /\ Packed!Prefix64 \in Nat /\ Packed!LenByPrefix(Packed!Prefix64) = 8 + 1
    BY <1>1, <1>2
  <2> QED
    BY <1>5, <2>1, <2>2, <2>3
<1> QED
  BY <1>3, <1>6, <1>7, <1>8

-----------------------------------------------------------------------------
\* packed_length() of blockchain_varint looks at the prefix.
LEMMA BlockchainFrames ==
    ASSUME NEW v, NEW p, IsPrefixed(p, v), NEW b \in Seq(Nat), Begins(b, p)
    PROVE  Frames(Packed!BlockchainLength(b), b, p)
<1>1. Len(p) \in Nat \ {0} /\ Packed!LenByPrefix(p[1]) = Len(p) /\ Len(b) \in Nat \ {0}
  BY LenProperties DEF IsPrefixed, Begins
<1>2. 1 \in 1 .. Len(b) /\ 1 =< Len(p)
  BY <1>1
<1>3. b[1] = p[1]
  BY <1>2 DEF Begins
<1>4. Packed!BlockchainLength(b) = IF Len(b) >= Len(p) THEN Len(p) ELSE 0
  BY <1>1, <1>3 DEF Packed!BlockchainLength
<1> QED
  BY <1>1, <1>4 DEF Frames

\* pack() of fixint writes the high bytes first, unpack() reads them so.
LEMMA FixintPacks ==
    ASSUME Width \in Nat, NEW v \in Nat, Packed!Fits(v, Width)
    PROVE  LET p == Packed!FixintPack(v)
           IN  /\ p \in Seq(Nat) /\ Len(p) = Width
               /\ Packed!LittleEndian([i \in 1 .. Width |-> p[Width + 1 - i]], 256) = v
<1> DEFINE q == Packed!Bytes(v, Width)
           p == Packed!FixintPack(v)
<1>1. q \in Seq(Nat) /\ Len(q) = Width /\ CountsTo(q, 256, v)
  BY BytesCount
<1>2. p = [i \in 1 .. Width |-> q[Width + 1 - i]]
  BY DEF Packed!FixintPack
<1> HIDE DEF q, p
<1>3. \A i \in 1 .. Width : Width + 1 - i \in 1 .. Width /\ Width + 1 - (Width + 1 - i) = i
  OBVIOUS
<1>4. \A i \in 1 .. Width : q[i] \in Nat
  BY <1>1, ElementOfSeq
<1>5. p \in Seq(Nat) /\ Len(p) = Width
  <2>1. p \in [1 .. Width -> Nat]
    BY <1>2, <1>3, <1>4
  <2> QED
    BY <1>2, <2>1
<1>6. [i \in 1 .. Width |-> p[Width + 1 - i]] = q
  <2>1. \A i \in 1 .. Width : p[Width + 1 - i] = q[i]
    BY <1>2, <1>3
  <2>2. q = [i \in 1 .. Width |-> q[i]]
    BY <1>1, LenProperties
  <2> QED
    BY <2>1, <2>2
<1>7. Packed!LittleEndian(q, 256) = v
  BY <1>1, LittleEndianIs
<1> QED
  BY <1>5, <1>6, <1>7 DEF p

\* What a format makes of a size: packed_length() finds its bytes at the beginning of
\* whatever follows them, unpack() gets it back from them.
Takes(p, v) ==
    /\ p \in Seq(Nat) /\ Len(p) \in Nat \ {0}
    /\ Packed!Value(p) = v /\ Packed!ResultLength(v) = Len(p)
    /\ format = "blockchain" => Packed!RangeAgrees(v)
    /\ \A b \in Seq(Nat) : Begins(b, p) => Frames(Packed!PackedLength(b), b, p)

\* Whatever the format, what pack() writes of a size is what unpack() takes for it.
LEMMA EveryFormatTakes ==
    ASSUME Packed!SizesFit, format \in Packed!Formats, NEW v \in Sizes
    PROVE  Takes(Packed!Pack(v), v)
<1>1. v \in Nat /\ Packed!Fits(v, 8) /\ Packed!Fits(v, Width) /\ Width \in Nat \ {0}
  BY DEF Packed!SizesFit
<1>2. CASE format = "varint"
  <2> DEFINE p == Packed!VarintAppend[v]
  <2>1. Packed!Pack(v) = p /\ Packed!Value(p) = Packed!LittleEndian(p, 128)
        /\ Packed!ResultLength(v) = Packed!VarintResultLength(v)
        /\ \A b : Packed!PackedLength(b) = Packed!VarintLength(b)
    BY <1>2 DEF Packed!Pack, Packed!Value, Packed!ResultLength, Packed!PackedLength
  <2> HIDE DEF p
  <2>2. IsVarint(p, v)
    BY <1>1, VarintPacks DEF p
  <2>3. p \in Seq(Nat) /\ Len(p) \in Nat \ {0} /\ CountsTo(p, 128, v)
    BY <2>2 DEF IsVarint
  <2>4. Packed!LittleEndian(p, 128) = v
    <3>1. 128 \in Nat \ {0}
      OBVIOUS
    <3> QED
      BY <2>3, <3>1, LittleEndianIs
  <2>5. Packed!VarintResultLength(v) = Len(p)
    <3>1. CASE v = 0
      <4>1. Packed!Groups[v] = 0
        BY <1>1, <3>1, GroupsAre
      <4>2. ~(v > 127)
        BY <3>1
      <4>3. p = <<v>>
        BY <1>1, <4>2, VarintIs DEF p
      <4> QED
        BY <1>1, <4>1, <4>3, OneByte DEF Packed!VarintResultLength
    <3>2. CASE v # 0
      <4>1. Packed!Groups[v] = Len(p)
        BY <2>2, <3>2 DEF IsVarint
      <4> QED
        BY <2>3, <4>1 DEF Packed!VarintResultLength
    <3> QED
      BY <3>1, <3>2
  <2>6. \A b \in Seq(Nat) : Begins(b, p) => Frames(Packed!PackedLength(b), b, p)
    BY <2>1, <2>2, VarintFrames
  <2> QED
    BY <1>2, <2>1, <2>3, <2>4, <2>5, <2>6 DEF Takes
<1>3. CASE format = "blockchain"
  <2> DEFINE p == Packed!BlockchainPack(v)
  <2>1. /\ Packed!Pack(v) = p
        /\ Packed!Value(p) = Packed!LittleEndian(IF Packed!LenByPrefix(p[1]) = 1 THEN p ELSE Tail(p), 256)
        /\ Packed!ResultLength(v) = Packed!BlockchainResultLength(v)
        /\ \A b : Packed!PackedLength(b) = Packed!BlockchainLength(b)
    BY <1>3 DEF Packed!Pack, Packed!Value, Packed!ResultLength, Packed!PackedLength
  <2> HIDE DEF p
  <2>2. IsPrefixed(p, v) /\ Packed!BlockchainResultLength(v) = Len(p)
    BY <1>1, BlockchainPacks DEF p
  <2>3. p \in Seq(Nat) /\ Len(p) \in Nat \ {0} /\ Packed!Value(p) = v /\ Packed!RangeAgrees(v)
    BY <1>1, <2>1, <2>2, RangeAgreesSo DEF IsPrefixed
  <2>4. \A b \in Seq(Nat) : Begins(b, p) => Frames(Packed!PackedLength(b), b, p)
    BY <2>1, <2>2, BlockchainFrames
  <2> QED
    BY <2>1, <2>2, <2>3, <2>4 DEF Takes
<1>4. CASE format = "fixint"
  <2> DEFINE p == Packed!FixintPack(v)
  <2>1. /\ Packed!Pack(v) = p
        /\ Packed!Value(p) = Packed!LittleEndian([i \in 1 .. Width |-> p[Width + 1 - i]], 256)
        /\ Packed!ResultLength(v) = Width
        /\ \A b : Packed!PackedLength(b) = IF Len(b) < Width THEN 0 ELSE Width
    BY <1>4 DEF Packed!Pack, Packed!Value, Packed!ResultLength, Packed!PackedLength
  <2>2. p \in Seq(Nat) /\ Len(p) = Width /\ Packed!LittleEndian([i \in 1 .. Width |-> p[Width + 1 - i]], 256) = v
    BY <1>1, FixintPacks
  <2> HIDE DEF p
  <2>3. \A b \in Seq(Nat) : Begins(b, p) => Frames(Packed!PackedLength(b), b, p)
    BY <2>1, <2>2 DEF Frames
  <2> QED
    BY <1>1, <1>4, <2>1, <2>2, <2>3 DEF Takes
<1> QED
  BY <1>2, <1>3, <1>4 DEF Packed!Formats

\* The sequences of bytes w[r + 1] to w[n] lie in b one after the other; start[i] is the
\* place before w[i + 1].
Laid(start, b, w, r, n) ==
    /\ start \in [r .. n -> Nat] /\ start[r] = 0 /\ start[n] = Len(b)
    /\ \A i, k \in r .. n : i =< k => start[i] =< start[k]
    /\ \A i \in r + 1 .. n : Len(w[i]) \in Nat /\ start[i] = start[i - 1] + Len(w[i])
    /\ \A i \in r + 1 .. n : \A j \in 1 .. Len(w[i]) : b[start[i - 1] + j] = w[i][j]
LaidOut(b, w, r, n) == \E start : Laid(start, b, w, r, n)

\* Places in a stretch of bytes, and where they are when some before it are taken.
LEMMA PlacesWithin ==
    \A a, l, m, n \in Nat : a + l =< m => \A j \in 1 .. l : a + j \in 1 .. m + n /\ a + j =< m
OBVIOUS

\* Places of a message that lie behind the first m, counted without these.
LEMMA PlacesTaken ==
    \A a, l, m, n \in Nat : m =< a /\ a + l =< m + n =>
        \A j \in 1 .. l : (a - m) + j \in 1 .. n /\ m + ((a - m) + j) = a + j
OBVIOUS

\* One more is packed behind them.
LEMMA LaidMore ==
    ASSUME NEW b \in Seq(Nat), NEW w, NEW r \in Nat, NEW n \in Nat, r =< n, LaidOut(b, w, r, n),
           NEW p \in Seq(Nat), NEW x, \A i \in r + 1 .. n : x[i] = w[i], x[n + 1] = p
    PROVE  LaidOut(b \o p, x, r, n + 1)
<1>1. PICK start : Laid(start, b, w, r, n)
  BY DEF LaidOut
<1> DEFINE more == [i \in r .. n + 1 |-> IF i = n + 1 THEN Len(b) + Len(p) ELSE start[i]]
           c == b \o p
<1>2. /\ start \in [r .. n -> Nat] /\ start[r] = 0 /\ start[n] = Len(b)
      /\ \A i, k \in r .. n : i =< k => start[i] =< start[k]
      /\ \A i \in r + 1 .. n : Len(w[i]) \in Nat /\ start[i] = start[i - 1] + Len(w[i])
      /\ \A i \in r + 1 .. n : \A j \in 1 .. Len(w[i]) : b[start[i - 1] + j] = w[i][j]
  BY <1>1 DEF Laid
<1>3. /\ Len(b) \in Nat /\ Len(p) \in Nat /\ Len(c) = Len(b) + Len(p)
      /\ \A i \in 1 .. Len(b) + Len(p) : c[i] = IF i =< Len(b) THEN b[i] ELSE p[i - Len(b)]
  BY LenProperties, ConcatProperties
<1>4. /\ \A i \in r .. n + 1 : i = n + 1 \/ i \in r .. n
      /\ \A i \in r .. n : i \in r .. n + 1 /\ i # n + 1
      /\ n + 1 \in r .. n + 1 /\ r \in r .. n /\ n \in r .. n
  OBVIOUS
<1>5. /\ more[n + 1] = Len(b) + Len(p) /\ \A i \in r .. n : more[i] = start[i]
      /\ more \in [r .. n + 1 -> Nat]
  BY <1>2, <1>3, <1>4
<1> HIDE DEF more, c
<1>6. \A i \in r .. n : start[i] \in Nat /\ start[i] =< Len(b)
  BY <1>2, <1>4
<1>7. ASSUME NEW i \in r .. n + 1, NEW k \in r .. n + 1, i =< k PROVE more[i] =< more[k]
  <2>1. CASE k = n + 1
    <3>1. CASE i = n + 1
      BY <1>3, <1>5, <2>1, <3>1
    <3>2. CASE i # n + 1
      <4>1. i \in r .. n
        BY <1>4, <3>2
      <4>2. more[i] = start[i] /\ start[i] \in Nat /\ start[i] =< Len(b)
        BY <1>5, <1>6, <4>1
      <4>3. \A y, l, q \in Nat : y =< l => y =< l + q
        OBVIOUS
      <4> QED
        BY <1>3, <1>5, <2>1, <4>2, <4>3
    <3> QED
      BY <3>1, <3>2
  <2>2. CASE k # n + 1
    <3>1. k \in r .. n
      BY <1>4, <2>2
    <3>2. i \in r .. n
      BY <1>4, <1>7, <3>1
    <3> QED
      BY <1>2, <1>5, <1>7, <3>1, <3>2
  <2> QED
    BY <2>1, <2>2
<1>8. ASSUME NEW i \in r + 1 .. n + 1
      PROVE  /\ Len(x[i]) \in Nat /\ more[i] = more[i - 1] + Len(x[i])
             /\ \A j \in 1 .. Len(x[i]) : c[more[i - 1] + j] = x[i][j]
  <2>1. CASE i = n + 1
    <3>1. i - 1 = n /\ more[i - 1] = Len(b) /\ x[i] = p /\ more[i] = Len(b) + Len(p)
      BY <1>2, <1>4, <1>5, <2>1
    <3>2. ASSUME NEW j \in 1 .. Len(p) PROVE c[Len(b) + j] = p[j]
      <4>1. Len(b) + j \in 1 .. Len(b) + Len(p) /\ ~(Len(b) + j =< Len(b)) /\ (Len(b) + j) - Len(b) = j
        BY <1>3
      <4> QED
        BY <1>3, <4>1
    <3> QED
      BY <1>3, <3>1, <3>2
  <2>2. CASE i # n + 1
    <3>1. i \in r + 1 .. n /\ i \in r .. n /\ i - 1 \in r .. n
      BY <2>2
    <3>2. Len(w[i]) \in Nat /\ x[i] = w[i] /\ more[i] = start[i] /\ more[i - 1] = start[i - 1] /\ start[i] = start[i - 1] + Len(w[i])
      BY <1>2, <1>5, <3>1
    <3>3. ASSUME NEW j \in 1 .. Len(w[i]) PROVE c[start[i - 1] + j] = w[i][j]
      <4>1. b[start[i - 1] + j] = w[i][j]
        BY <1>2, <3>1
      <4>2. start[i - 1] \in Nat /\ start[i - 1] + Len(w[i]) =< Len(b) /\ start[i] \in Nat
        BY <1>6, <3>1, <3>2
      <4>3. start[i - 1] + j \in 1 .. Len(b) + Len(p) /\ start[i - 1] + j =< Len(b)
        BY <1>3, <3>2, <4>2, PlacesWithin
      <4> QED
        BY <1>3, <4>1, <4>3
    <3> QED
      BY <3>2, <3>3
  <2> QED
    BY <2>1, <2>2
<1>9. more[r] = 0 /\ more[n + 1] = Len(c)
  BY <1>2, <1>3, <1>4, <1>5
<1>10. Laid(more, c, x, r, n + 1)
  BY <1>5, <1>7, <1>8, <1>9 DEF Laid
<1> QED
  BY <1>10 DEF LaidOut, c

\* The first of them is where the stream begins.
StartsWith(b, p) == Len(p) =< Len(b) /\ \A j \in 1 .. Len(p) : b[j] = p[j]

\* The first size laid out begins where the bytes begin.
LEMMA LaidFirst ==
    ASSUME NEW b \in Seq(Nat), NEW w, NEW r \in Nat, NEW n \in Nat, r < n, LaidOut(b, w, r, n),
           w[r + 1] \in Seq(Nat)
    PROVE  StartsWith(b, w[r + 1])
<1>1. PICK start : Laid(start, b, w, r, n)
  BY DEF LaidOut
<1>2. r + 1 \in r + 1 .. n /\ r \in r .. n /\ r + 1 \in r .. n /\ n \in r .. n /\ (r + 1) - 1 = r /\ r + 1 =< n
  OBVIOUS
<1>3. start[r] = 0 /\ start[r + 1] = start[r] + Len(w[r + 1]) /\ start[r + 1] =< start[n] /\ start[n] = Len(b)
  BY <1>1, <1>2 DEF Laid
<1>4. \A j \in 1 .. Len(w[r + 1]) : b[start[r] + j] = w[r + 1][j]
  BY <1>1, <1>2 DEF Laid
<1>5. Len(w[r + 1]) \in Nat
  BY LenProperties
<1> QED
  BY <1>3, <1>4, <1>5 DEF StartsWith

\* It is taken from the stream.
LEMMA LaidLess ==
    ASSUME NEW b \in Seq(Nat), NEW w, NEW r \in Nat, NEW n \in Nat, r < n, LaidOut(b, w, r, n),
           w[r + 1] \in Seq(Nat), NEW c \in Seq(Nat), Len(b) = Len(w[r + 1]) + Len(c),
           \A i \in 1 .. Len(c) : c[i] = b[Len(w[r + 1]) + i]
    PROVE  LaidOut(c, w, r + 1, n)
<1>1. PICK start : Laid(start, b, w, r, n)
  BY DEF LaidOut
<1> DEFINE m == Len(w[r + 1])
           less == [i \in r + 1 .. n |-> start[i] - m]
<1>2. /\ start \in [r .. n -> Nat] /\ start[r] = 0 /\ start[n] = Len(b)
      /\ \A i, k \in r .. n : i =< k => start[i] =< start[k]
      /\ \A i \in r + 1 .. n : Len(w[i]) \in Nat /\ start[i] = start[i - 1] + Len(w[i])
      /\ \A i \in r + 1 .. n : \A j \in 1 .. Len(w[i]) : b[start[i - 1] + j] = w[i][j]
  BY <1>1 DEF Laid
<1>3. m \in Nat /\ Len(c) \in Nat /\ Len(b) = m + Len(c)
  BY LenProperties
<1>4. /\ \A i \in r + 1 .. n : i \in r .. n /\ r + 1 =< i /\ i =< n
      /\ r + 1 \in r .. n /\ r + 1 \in r + 1 .. n /\ n \in r + 1 .. n /\ (r + 1) - 1 = r
  OBVIOUS
<1>5. start[r + 1] = m
  BY <1>2, <1>3, <1>4
<1>6. \A i \in r + 1 .. n : start[i] \in Nat /\ m =< start[i] /\ start[i] =< Len(b)
  BY <1>2, <1>4, <1>5
<1>7. \A i \in r + 1 .. n : less[i] = start[i] - m
  OBVIOUS
<1>8. less \in [r + 1 .. n -> Nat]
  BY <1>3, <1>6
<1> HIDE DEF less, m
<1>9. less[r + 1] = 0 /\ less[n] = Len(c)
  <2>1. less[r + 1] = m - m
    BY <1>4, <1>5, <1>7
  <2>2. less[n] = Len(b) - m
    BY <1>2, <1>4, <1>7
  <2> QED
    BY <1>3, <2>1, <2>2
<1>10. ASSUME NEW i \in r + 1 .. n, NEW k \in r + 1 .. n, i =< k PROVE less[i] =< less[k]
  <2>1. start[i] =< start[k]
    BY <1>2, <1>4, <1>10
  <2> QED
    BY <1>3, <1>6, <1>7, <2>1
<1>11. ASSUME NEW i \in (r + 1) + 1 .. n
       PROVE  /\ Len(w[i]) \in Nat /\ less[i] = less[i - 1] + Len(w[i])
              /\ \A j \in 1 .. Len(w[i]) : c[less[i - 1] + j] = w[i][j]
  <2>1. i \in r + 1 .. n /\ i - 1 \in r + 1 .. n
    OBVIOUS
  <2>2. less[i] = start[i] - m /\ less[i - 1] = start[i - 1] - m /\ start[i] = start[i - 1] + Len(w[i])
    BY <1>2, <1>7, <2>1
  <2>3. start[i] \in Nat /\ start[i - 1] \in Nat /\ m =< start[i - 1] /\ start[i] =< m + Len(c)
    BY <1>3, <1>6, <2>1
  <2>4. Len(w[i]) \in Nat
    BY <1>2, <2>1
  <2>5. less[i] = less[i - 1] + Len(w[i])
    <3>1. \A y, l, q \in Nat : (y + l) - q = (y - q) + l
      OBVIOUS
    <3>2. (start[i - 1] + Len(w[i])) - m = (start[i - 1] - m) + Len(w[i])
      BY <1>3, <2>3, <2>4, <3>1
    <3> QED
      BY <2>2, <3>2
  <2>6. ASSUME NEW j \in 1 .. Len(w[i]) PROVE c[less[i - 1] + j] = w[i][j]
    <3>1. b[start[i - 1] + j] = w[i][j]
      BY <1>2, <2>1
    <3> DEFINE k == (start[i - 1] - m) + j
    <3>0. less[i - 1] + j = k
      BY <2>2
    <3>2. k \in 1 .. Len(c) /\ m + k = start[i - 1] + j
      <4>1. start[i - 1] + Len(w[i]) =< m + Len(c)
        BY <2>2, <2>3
      <4> DEFINE a == start[i - 1]
                 l == Len(w[i])
      <4>2. a \in Nat /\ l \in Nat /\ m \in Nat /\ Len(c) \in Nat /\ m =< a /\ a + l =< m + Len(c) /\ j \in 1 .. l
        BY <1>3, <2>3, <2>4, <4>1
      <4> HIDE DEF a, l
      <4>3. (a - m) + j \in 1 .. Len(c) /\ m + ((a - m) + j) = a + j
        BY <4>2, PlacesTaken
      <4> QED
        BY <4>3 DEF a
    <3> HIDE DEF k
    <3>3. c[k] = b[m + k]
      BY <3>2 DEF m
    <3> QED
      BY <3>0, <3>1, <3>2, <3>3
  <2> QED
    BY <2>4, <2>5, <2>6
<1>12. Laid(less, c, w, r + 1, n)
  BY <1>8, <1>9, <1>10, <1>11 DEF Laid
<1> QED
  BY <1>12 DEF LaidOut

\* What is under way are the bytes of the sizes that were packed and not read, one after
\* the other.
Packs == [i \in 1 .. Len(sent) |-> Packed!Pack(sent[i])]
PackedInv ==
    /\ format \in Packed!Formats /\ sent \in Seq(Sizes) /\ read \in Seq(Sizes)
    /\ wire \in Seq(Nat) /\ buffer \in Seq(Nat)
    /\ Len(read) =< Len(sent) /\ \A i \in 1 .. Len(read) : read[i] = sent[i]
    /\ LaidOut(buffer \o wire, Packs, Len(read), Len(sent))

\* Nothing is under way at the beginning.
LEMMA PackedInits == Packed!Init => PackedInv
<1> SUFFICES ASSUME Packed!Init PROVE PackedInv
  OBVIOUS
<1>1. /\ format \in Packed!Formats /\ sent = <<>> /\ wire = <<>> /\ buffer = <<>> /\ read = <<>>
  BY DEF Packed!Init
<1>2. buffer \o wire = <<>> /\ Len(read) = 0 /\ Len(sent) = 0 /\ Len(buffer \o wire) = 0
  BY <1>1
<1>3. LaidOut(buffer \o wire, Packs, Len(read), Len(sent))
  <2> DEFINE start == [i \in 0 .. 0 |-> 0]
  <2>1. start \in [0 .. 0 -> Nat] /\ start[0] = 0 /\ 0 + 1 .. 0 = {}
    OBVIOUS
  <2>2. \A i, k \in 0 .. 0 : start[i] =< start[k]
    OBVIOUS
  <2> HIDE DEF start
  <2>3. Laid(start, buffer \o wire, Packs, 0, 0)
    BY <1>2, <2>1, <2>2 DEF Laid
  <2> QED
    BY <1>2, <2>3 DEF LaidOut
<1> QED
  BY <1>1, <1>2, <1>3 DEF PackedInv

\* A size packed goes behind what is under way.
LEMMA SendKeeps ==
    ASSUME Packed!SizesFit, PackedInv, NEW v \in Sizes, Packed!Send(v)
    PROVE  PackedInv'
<1> DEFINE n == Len(sent)
           p == Packed!Pack(v)
<1>1. /\ sent' = Append(sent, v) /\ wire' = wire \o p /\ format' = format
      /\ buffer' = buffer /\ read' = read
  BY DEF Packed!Send
<1>2. p \in Seq(Nat)
  BY EveryFormatTakes DEF PackedInv, Takes
<1> HIDE DEF p
<1>3. /\ sent' \in Seq(Sizes) /\ n \in Nat /\ Len(sent') = n + 1 /\ sent'[n + 1] = v
      /\ \A i \in 1 .. n : sent'[i] = sent[i]
  BY <1>1, AppendProperties, LenProperties DEF PackedInv
<1>4. wire' \in Seq(Nat) /\ buffer' \o wire' = (buffer \o wire) \o p /\ buffer \o wire \in Seq(Nat)
  <2>1. wire \in Seq(Nat) /\ buffer \in Seq(Nat)
    BY DEF PackedInv
  <2>2. wire \o p \in Seq(Nat) /\ buffer \o wire \in Seq(Nat)
    BY <1>2, <2>1, ConcatProperties
  <2>3. (buffer \o wire) \o p = buffer \o (wire \o p)
    BY <1>2, <2>1, ConcatAssociative
  <2> QED
    BY <1>1, <2>2, <2>3
<1>5. Packs'[n + 1] = p /\ \A i \in 1 .. n : Packs'[i] = Packs[i]
  <2>1. \A x : Packed!Pack(x)' = Packed!Pack(x)
    BY <1>1 DEF Packed!Pack, Packed!BlockchainPack
  <2>2. n + 1 \in 1 .. n + 1 /\ \A i \in 1 .. n : i \in 1 .. n + 1
    BY <1>3
  <2>3. Packs' = [i \in 1 .. n + 1 |-> Packed!Pack(sent'[i])]
    BY <1>1, <1>3 DEF Packs, Packed!Pack
  <2> QED
    BY <1>3, <2>2, <2>3 DEF Packs, p
<1>6. LaidOut((buffer \o wire) \o p, Packs', Len(read), n + 1)
  <2>1. Len(read) \in Nat /\ Len(read) =< n /\ LaidOut(buffer \o wire, Packs, Len(read), n)
    BY LenProperties DEF PackedInv
  <2>2. \A i \in Len(read) + 1 .. n : i \in 1 .. n
    BY <1>3, <2>1
  <2>3. \A i \in Len(read) + 1 .. n : Packs'[i] = Packs[i]
    BY <1>5, <2>2
  <2> HIDE DEF n
  <2> QED
    BY <1>2, <1>3, <1>4, <1>5, <2>1, <2>3, LaidMore
<1>7. Len(read) =< n + 1 /\ \A i \in 1 .. Len(read) : read[i] = sent'[i]
  <2>1. Len(read) \in Nat /\ Len(read) =< n
    BY LenProperties DEF PackedInv
  <2> QED
    BY <1>3, <2>1 DEF PackedInv
<1> QED
  BY <1>1, <1>3, <1>4, <1>6, <1>7 DEF PackedInv

\* A byte that arrives goes from the one end of what is under way to the other.
LEMMA ArriveKeeps ==
    ASSUME PackedInv, Packed!Arrive
    PROVE  PackedInv'
<1>1. /\ wire # <<>> /\ buffer' = Append(buffer, Head(wire)) /\ wire' = Tail(wire)
      /\ format' = format /\ sent' = sent /\ read' = read
  BY DEF Packed!Arrive
<1>2. wire \in Seq(Nat) /\ buffer \in Seq(Nat)
  BY DEF PackedInv
<1>3. /\ Head(wire) \in Nat /\ Tail(wire) \in Seq(Nat) /\ Len(Tail(wire)) = Len(wire) - 1
      /\ Len(wire) \in Nat \ {0} /\ wire[1] = Head(wire)
      /\ \A i \in 1 .. Len(wire) - 1 : Tail(wire)[i] = wire[i + 1]
  BY <1>1, <1>2, HeadTailProperties, LenProperties, EmptySeq
<1>4. <<Head(wire)>> \o Tail(wire) = wire
  <2>1. /\ <<Head(wire)>> \o Tail(wire) \in Seq(Nat) /\ Len(<<Head(wire)>> \o Tail(wire)) = Len(wire)
        /\ (<<Head(wire)>> \o Tail(wire))[1] = wire[1]
        /\ \A i \in 1 .. Len(wire) - 1 : (<<Head(wire)>> \o Tail(wire))[i + 1] = wire[i + 1]
    BY <1>3, ByteBefore
  <2>2. ASSUME NEW i \in 1 .. Len(wire) PROVE (<<Head(wire)>> \o Tail(wire))[i] = wire[i]
    <3>1. i = 1 \/ (i - 1 \in 1 .. Len(wire) - 1 /\ (i - 1) + 1 = i)
      BY <1>3
    <3> QED
      BY <2>1, <3>1
  <2> QED
    BY <1>2, <2>1, <2>2, SeqEqual
<1>5. Append(buffer, Head(wire)) = buffer \o <<Head(wire)>> /\ <<Head(wire)>> \in Seq(Nat)
  BY <1>2, <1>3, OneByte, AppendIsConcat
<1>6. buffer' \o wire' = buffer \o wire
  <2>1. (buffer \o <<Head(wire)>>) \o Tail(wire) = buffer \o (<<Head(wire)>> \o Tail(wire))
    BY <1>2, <1>3, <1>5, ConcatAssociative
  <2>2. buffer' \o wire' = (buffer \o <<Head(wire)>>) \o Tail(wire)
    BY <1>1, <1>5
  <2> QED
    BY <1>4, <2>1, <2>2
<1>7. buffer' \in Seq(Nat)
  BY <1>1, <1>2, <1>3, AppendProperties
<1>8. Packs' = Packs
  BY <1>1 DEF Packs, Packed!Pack
<1> QED
  BY <1>1, <1>3, <1>6, <1>7, <1>8 DEF PackedInv

\* A part of a sequence.
LEMMA PartOf ==
    ASSUME NEW S, NEW s \in Seq(S), NEW k \in 0 .. Len(s), NEW n \in 0 .. Len(s) - k
    PROVE  /\ SubSeq(s, k + 1, k + n) \in Seq(S) /\ Len(SubSeq(s, k + 1, k + n)) = n
           /\ \A i \in 1 .. n : SubSeq(s, k + 1, k + n)[i] = s[k + i]
<1>1. Len(s) \in Nat /\ k \in Nat /\ n \in Nat
  BY LenProperties
<1>2. \A i \in k + 1 .. k + n : s[i] \in S
  <2>1. \A i \in k + 1 .. k + n : i \in 1 .. Len(s)
    BY <1>1
  <2> QED
    BY <2>1, ElementOfSeq
<1>3. /\ k + 1 \in Int /\ k + n \in Int /\ (k + n) - (k + 1) + 1 = n /\ (k + 1 =< k + n <=> n # 0)
      /\ \A i \in 1 .. n : (k + 1) + i - 1 = k + i
  BY <1>1
<1>4. /\ SubSeq(s, k + 1, k + n) \in Seq(S)
      /\ Len(SubSeq(s, k + 1, k + n)) = IF k + 1 =< k + n THEN (k + n) - (k + 1) + 1 ELSE 0
      /\ \A i \in 1 .. (k + n) - (k + 1) + 1 : SubSeq(s, k + 1, k + n)[i] = s[(k + 1) + i - 1]
  BY <1>2, <1>3, SubSeqProperties
<1> QED
  BY <1>3, <1>4

\* unpack() takes the first size that is under way, all its bytes and no others.
LEMMA ReceiveKeeps ==
    ASSUME Packed!SizesFit, PackedInv, Packed!Receive
    PROVE  PackedInv'
<1> DEFINE r == Len(read)
           m == Len(sent)
           n == Packed!PackedLength(buffer)
           all == buffer \o wire
           p == Packed!Pack(sent[r + 1])
<1>1. /\ buffer # <<>> /\ n > 0 /\ read' = Append(read, Packed!Value(SubSeq(buffer, 1, n)))
      /\ buffer' = SubSeq(buffer, n + 1, Len(buffer)) /\ format' = format /\ sent' = sent /\ wire' = wire
  BY DEF Packed!Receive, Packed!Unpack
<1>2. /\ format \in Packed!Formats /\ sent \in Seq(Sizes) /\ read \in Seq(Sizes)
      /\ wire \in Seq(Nat) /\ buffer \in Seq(Nat) /\ r \in Nat /\ m \in Nat /\ r =< m
      /\ \A i \in 1 .. r : read[i] = sent[i]
      /\ LaidOut(all, Packs, r, m)
  BY LenProperties DEF PackedInv
<1> HIDE DEF r, m, n, p
<1>3. /\ all \in Seq(Nat) /\ Len(all) = Len(buffer) + Len(wire)
      /\ Len(buffer) \in Nat \ {0} /\ Len(wire) \in Nat
      /\ \A i \in 1 .. Len(buffer) + Len(wire) : all[i] = IF i =< Len(buffer) THEN buffer[i] ELSE wire[i - Len(buffer)]
  <2>1. Len(buffer) \in Nat /\ Len(wire) \in Nat /\ Len(buffer) # 0
    BY <1>1, <1>2, LenProperties, EmptySeq
  <2> QED
    BY <1>2, <2>1, ConcatProperties
<1> HIDE DEF all
<1>4. r < m
  <2>1. SUFFICES ASSUME r = m PROVE FALSE
    BY <1>2
  <2>2. PICK start : Laid(start, all, Packs, r, r)
    BY <1>2, <2>1 DEF LaidOut
  <2>3. start[r] = 0 /\ start[r] = Len(all)
    BY <2>2 DEF Laid
  <2> QED
    BY <1>3, <2>3
<1>5. r + 1 \in 1 .. m /\ sent[r + 1] \in Sizes /\ Packs[r + 1] = p
  <2>1. r + 1 \in 1 .. m
    BY <1>2, <1>4
  <2> QED
    BY <1>2, <2>1, ElementOfSeq DEF Packs, m, p
<1>6. /\ p \in Seq(Nat) /\ Len(p) \in Nat \ {0} /\ Packed!Value(p) = sent[r + 1]
      /\ Begins(buffer, p) => Frames(n, buffer, p)
  <2>1. Takes(p, sent[r + 1])
    BY <1>2, <1>5, EveryFormatTakes DEF p
  <2> QED
    BY <1>2, <2>1 DEF Takes, n
<1>7. Len(p) =< Len(all) /\ \A j \in 1 .. Len(p) : all[j] = p[j]
  <2>1. Packs[r + 1] \in Seq(Nat)
    BY <1>5, <1>6
  <2>2. StartsWith(all, Packs[r + 1])
    BY <1>2, <1>3, <1>4, <2>1, LaidFirst
  <2> QED
    BY <1>5, <2>2 DEF StartsWith
<1>8. Begins(buffer, p)
  <2>1. ASSUME NEW i \in 1 .. Len(buffer), i =< Len(p) PROVE buffer[i] = p[i]
    <3>1. i \in 1 .. Len(buffer) + Len(wire) /\ i =< Len(buffer) /\ i \in 1 .. Len(p)
      BY <1>3, <1>6, <2>1
    <3> QED
      BY <1>3, <1>7, <3>1
  <2> QED
    BY <1>3, <2>1 DEF Begins
<1>9. n = Len(p) /\ n \in 1 .. Len(buffer)
  <2>1. n = IF Len(buffer) < Len(p) THEN 0 ELSE Len(p)
    BY <1>6, <1>8 DEF Frames
  <2> QED
    BY <1>1, <1>3, <1>6, <2>1
<1>10. SubSeq(buffer, 1, n) = p
  <2>1. 0 \in 0 .. Len(buffer) /\ n \in 0 .. Len(buffer) - 0 /\ 0 + 1 = 1 /\ 0 + n = n
    BY <1>3, <1>9
  <2>2. /\ SubSeq(buffer, 1, n) \in Seq(Nat) /\ Len(SubSeq(buffer, 1, n)) = n
        /\ \A i \in 1 .. n : SubSeq(buffer, 1, n)[i] = buffer[0 + i]
    BY <1>2, <2>1, PartOf
  <2>3. \A i \in 1 .. n : 0 + i = i /\ i \in 1 .. Len(buffer) /\ i =< Len(p)
    BY <1>3, <1>9
  <2>4. \A i \in 1 .. n : SubSeq(buffer, 1, n)[i] = p[i]
    BY <1>8, <2>2, <2>3 DEF Begins
  <2> QED
    BY <1>6, <1>9, <2>2, <2>4, SeqEqual
<1>11. /\ read' \in Seq(Sizes) /\ Len(read') = r + 1 /\ r + 1 =< m
       /\ \A i \in 1 .. r + 1 : read'[i] = sent[i]
  <2>1. read' = Append(read, sent[r + 1])
    BY <1>1, <1>6, <1>10
  <2>2. /\ read' \in Seq(Sizes) /\ Len(read') = r + 1 /\ read'[r + 1] = sent[r + 1]
        /\ \A i \in 1 .. r : read'[i] = read[i]
    BY <1>2, <1>5, <2>1, AppendProperties DEF r
  <2>3. \A i \in 1 .. r + 1 : i = r + 1 \/ i \in 1 .. r
    BY <1>2
  <2> QED
    BY <1>2, <1>4, <2>2, <2>3
<1>12. /\ buffer' \in Seq(Nat) /\ Len(buffer') = Len(buffer) - n
       /\ \A i \in 1 .. Len(buffer) - n : buffer'[i] = buffer[n + i]
  <2>1. n \in 0 .. Len(buffer) /\ Len(buffer) - n \in 0 .. Len(buffer) - n /\ n + (Len(buffer) - n) = Len(buffer)
    BY <1>3, <1>9
  <2> DEFINE k == Len(buffer) - n
  <2>2. k \in 0 .. Len(buffer) - n
    BY <2>1
  <2> HIDE DEF k
  <2>3. /\ SubSeq(buffer, n + 1, n + k) \in Seq(Nat) /\ Len(SubSeq(buffer, n + 1, n + k)) = k
        /\ \A i \in 1 .. k : SubSeq(buffer, n + 1, n + k)[i] = buffer[n + i]
    BY <1>2, <2>1, <2>2, PartOf
  <2>4. buffer' = SubSeq(buffer, n + 1, n + k)
    BY <1>1, <2>1 DEF k
  <2> QED
    BY <2>3, <2>4 DEF k
<1> DEFINE rest == buffer' \o wire
<1>13. /\ rest \in Seq(Nat) /\ Len(rest) = Len(buffer') + Len(wire)
       /\ \A i \in 1 .. Len(buffer') + Len(wire) :
              rest[i] = IF i =< Len(buffer') THEN buffer'[i] ELSE wire[i - Len(buffer')]
  BY <1>2, <1>12, ConcatProperties
<1> HIDE DEF rest
<1>14. Len(all) = Len(p) + Len(rest)
  BY <1>3, <1>9, <1>12, <1>13
<1>15. ASSUME NEW i \in 1 .. Len(rest) PROVE rest[i] = all[Len(p) + i]
  <2>1. /\ i \in 1 .. Len(buffer') + Len(wire) /\ n + i \in 1 .. Len(buffer) + Len(wire)
        /\ i =< Len(buffer') <=> n + i =< Len(buffer)
        /\ i - Len(buffer') = (n + i) - Len(buffer)
    BY <1>3, <1>9, <1>12, <1>13
  <2>2. CASE i =< Len(buffer')
    <3>1. i \in 1 .. Len(buffer) - n
      BY <1>3, <1>9, <1>12, <2>2
    <3>2. rest[i] = buffer'[i] /\ buffer'[i] = buffer[n + i]
      BY <1>12, <1>13, <2>1, <2>2, <3>1
    <3> QED
      BY <1>3, <1>9, <2>1, <2>2, <3>2
  <2>3. CASE ~(i =< Len(buffer'))
    BY <1>3, <1>9, <1>13, <2>1, <2>3
  <2> QED
    BY <2>2, <2>3
<1>16. LaidOut(rest, Packs, r + 1, m)
  BY <1>2, <1>3, <1>4, <1>5, <1>6, <1>13, <1>14, <1>15, LaidLess
<1>17. Packs' = Packs
  BY <1>1 DEF Packs, Packed!Pack
<1> QED
  BY <1>1, <1>2, <1>11, <1>12, <1>16, <1>17 DEF PackedInv, rest, m

\* Sizes are read in the order in which they were packed.
LEMMA PackedInvReads ==
    ASSUME Packed!SizesFit, PackedInv
    PROVE  Packed!ReadInOrder
<1> DEFINE r == Len(read)
           m == Len(sent)
<1>1. /\ sent \in Seq(Sizes) /\ read \in Seq(Sizes) /\ r \in Nat /\ m \in Nat /\ r =< m
      /\ \A i \in 1 .. r : read[i] = sent[i]
      /\ LaidOut(buffer \o wire, Packs, r, m)
  BY LenProperties DEF PackedInv
<1>2. read = SubSeq(sent, 1, r)
  <2>1. /\ SubSeq(sent, 1, r) \in Seq(Sizes) /\ Len(SubSeq(sent, 1, r)) = r
        /\ \A i \in 1 .. r : SubSeq(sent, 1, r)[i] = sent[i]
    <3>1. 0 \in 0 .. m /\ r \in 0 .. m - 0 /\ 0 + 1 = 1 /\ 0 + r = r /\ \A i \in 1 .. r : 0 + i = i
      BY <1>1
    <3> QED
      BY <1>1, <3>1, PartOf
  <2>2. \A i \in 1 .. r : read[i] = SubSeq(sent, 1, r)[i]
    BY <1>1, <2>1
  <2> QED
    BY <1>1, <2>1, <2>2, SeqEqual
<1>3. ASSUME wire = <<>>, buffer = <<>> PROVE read = sent
  <2>1. buffer \o wire \in Seq(Nat) /\ Len(buffer \o wire) = 0
    BY <1>3
  <2>2. r = m
    <3>1. SUFFICES ASSUME r < m PROVE FALSE
      BY <1>1
    <3>2. r + 1 \in 1 .. m /\ sent[r + 1] \in Sizes
      <4>1. r + 1 \in 1 .. m
        BY <1>1, <3>1
      <4> QED
        BY <1>1, <4>1, ElementOfSeq
    <3>3. Packs[r + 1] \in Seq(Nat) /\ Len(Packs[r + 1]) \in Nat \ {0}
      BY <3>2, EveryFormatTakes DEF PackedInv, Packs, Takes
    <3>4. Len(Packs[r + 1]) =< Len(buffer \o wire)
      BY <1>1, <2>1, <3>1, <3>3, LaidFirst DEF StartsWith
    <3> QED
      BY <2>1, <3>3, <3>4
  <2>4. \A i \in 1 .. r : read[i] = sent[i]
    BY <1>1
  <2> QED
    BY <1>1, <2>2, <2>4, SeqEqual
<1> QED
  BY <1>1, <1>2, <1>3 DEF Packed!ReadInOrder

\* Every step keeps it, if all sizes fit.
LEMMA PackedStepKeeps ==
    ASSUME Packed!SizesFit, PackedInv, [Packed!Next]_(Packed!vars)
    PROVE  PackedInv'
<1>1. CASE Packed!Next
  BY <1>1, SendKeeps, ArriveKeeps, ReceiveKeeps DEF Packed!Next
<1>2. CASE UNCHANGED Packed!vars
  <2>1. UNCHANGED <<format, sent, wire, buffer, read>>
    BY <1>2 DEF Packed!vars
  <2>2. Packs' = Packs
    BY <2>1 DEF Packs, Packed!Pack
  <2> QED
    BY <2>1, <2>2 DEF PackedInv
<1> QED
  BY <1>1, <1>2

\* However many sizes are packed, and in whatever order their bytes arrive and are
\* unpacked (append(), unpack() of sizepack): what is under way is what is packed of the
\* sizes not yet read, one after the other and nothing else.
THEOREM PackedInvariant == ASSUME Packed!SizesFit PROVE Packed!Spec => []PackedInv
<1>1. PackedInv /\ [Packed!Next]_(Packed!vars) => PackedInv'
  BY PackedStepKeeps
<1> QED
  BY <1>1, PackedInits, PTL DEF Packed!Spec

\* The lengths of one size agree, and those of its parts.
LEMMA LengthsAgree ==
    ASSUME NEW p, NEW v, Takes(p, v)
    PROVE  /\ Packed!ResultLength(v) = Len(p) /\ Packed!PackedLength(p) = Len(p)
           /\ \A n \in 1 .. Len(p) - 1 : Packed!PackedLength(SubSeq(p, 1, n)) = 0
           /\ format = "blockchain" => Packed!RangeAgrees(v)
<1>1. /\ p \in Seq(Nat) /\ Len(p) \in Nat \ {0} /\ Packed!ResultLength(v) = Len(p)
      /\ format = "blockchain" => Packed!RangeAgrees(v)
      /\ \A b \in Seq(Nat) : Begins(b, p) => Frames(Packed!PackedLength(b), b, p)
  BY DEF Takes
<1>2. Packed!PackedLength(p) = Len(p)
  <2>1. Begins(p, p)
    BY <1>1 DEF Begins
  <2> QED
    BY <1>1, <2>1 DEF Frames
<1>3. ASSUME NEW n \in 1 .. Len(p) - 1 PROVE Packed!PackedLength(SubSeq(p, 1, n)) = 0
  <2> DEFINE b == SubSeq(p, 1, n)
  <2>1. b \in Seq(Nat) /\ Len(b) = n /\ \A i \in 1 .. n : b[i] = p[i]
    <3>1. 0 \in 0 .. Len(p) /\ n \in 0 .. Len(p) - 0 /\ 0 + 1 = 1 /\ 0 + n = n /\ \A i \in 1 .. n : 0 + i = i
      BY <1>1
    <3> QED
      BY <1>1, <3>1, PartOf
  <2> HIDE DEF b
  <2>2. Begins(b, p) /\ n < Len(p)
    BY <1>1, <2>1 DEF Begins
  <2>3. Packed!PackedLength(b) = 0
    BY <1>1, <2>1, <2>2 DEF Frames
  <2> QED
    BY <2>3 DEF b
<1> QED
  BY <1>1, <1>2, <1>3

\* The two ways of zigzag of one byte.
LEMMA ZigzagOfBytes == Packed!ZigzagAgrees(128)
<1> SUFFICES ASSUME NEW p \in 0 .. 255
             PROVE  LET n == Packed!Signed(128, p)
                    IN  /\ Packed!ToUnsigned(128, p) = IF n >= 0 THEN 2 * n ELSE -2 * n - 1
                        /\ Packed!ToSigned(128, Packed!ToUnsigned(128, p)) = p
  BY DEF Packed!ZigzagAgrees
<1>1. CASE p >= 128
  <2>1. (2 * p) % 256 = 2 * p - 256
    BY <1>1
  <2>2. Packed!ToUnsigned(128, p) = 511 - 2 * p
    BY <1>1, <2>1 DEF Packed!ToUnsigned
  <2>3. Packed!ToSigned(128, 511 - 2 * p) = p
    <3>1. (511 - 2 * p) % 2 = 1 /\ (511 - 2 * p) \div 2 = 255 - p
      OBVIOUS
    <3> QED
      BY <3>1 DEF Packed!ToSigned
  <2>4. Packed!Signed(128, p) = p - 256
    BY <1>1 DEF Packed!Signed
  <2> QED
    BY <2>2, <2>3, <2>4
<1>2. CASE ~(p >= 128)
  <2>1. Packed!ToUnsigned(128, p) = 2 * p /\ Packed!Signed(128, p) = p
    BY <1>2 DEF Packed!ToUnsigned, Packed!Signed
  <2>2. Packed!ToSigned(128, 2 * p) = p
    <3>1. (2 * p) % 2 = 0 /\ (2 * p) \div 2 = p
      OBVIOUS
    <3> QED
      BY <3>1 DEF Packed!ToSigned
  <2> QED
    BY <2>1, <2>2
<1> QED
  BY <1>1, <1>2

\* What value() turns round is what write() writes, and read() reads it back.
LEMMA OrdersOfBytes == Packed!ByteOrdersAgree
<1> SUFFICES ASSUME NEW n \in {1, 2, 4, 8}, NEW order \in Packed!Orders, NEW host \in Packed!Orders
             PROVE  LET b == [i \in 1 .. n |-> i]
                    IN  /\ Packed!ReadBytes(Packed!Write(b, order), order) = b
                        /\ Packed!InMemory(Packed!OrderValue(b, order, host), host) = Packed!Write(b, order)
                               <=> ~(n = 8 /\ order = "LITTLE")
  BY DEF Packed!ByteOrdersAgree
<1> DEFINE b == [i \in 1 .. n |-> i]
           c == Packed!Reverse(b)
<1>1. n \in Nat /\ Len(b) = n /\ \A i \in 1 .. n : b[i] = i
  OBVIOUS
<1>2. Len(c) = n /\ c = [i \in 1 .. n |-> b[(n - i) + 1]]
  BY <1>1 DEF Packed!Reverse
<1>3. Packed!Reverse(c) = b
  <2>1. Packed!Reverse(c) = [i \in 1 .. n |-> c[(n - i) + 1]]
    BY <1>2 DEF Packed!Reverse
  <2> HIDE DEF c
  <2>2. \A i \in 1 .. n : (n - i) + 1 \in 1 .. n /\ (n - ((n - i) + 1)) + 1 = i
    BY <1>1
  <2>3. \A i \in 1 .. n : c[(n - i) + 1] = i
    BY <1>1, <1>2, <2>2
  <2> QED
    BY <2>1, <2>3
<1>4. n = 1 => c = b
  <2>1. SUFFICES ASSUME n = 1 PROVE c = b
    OBVIOUS
  <2>2. \A i \in 1 .. n : (n - i) + 1 = i
    BY <2>1
  <2> QED
    BY <1>2, <2>2
<1> HIDE DEF b, c
<1>5. \A x : Packed!Write(x, order) = IF order = "BIG" THEN x ELSE Packed!Reverse(x)
  BY DEF Packed!Write
<1>6. Packed!ReadBytes(Packed!Write(b, order), order) = b
  BY <1>3, <1>5 DEF Packed!ReadBytes, c
<1>7. ASSUME ~(n = 8 /\ order = "LITTLE")
      PROVE  Packed!InMemory(Packed!OrderValue(b, order, host), host) = Packed!Write(b, order)
  <2>0. \A x : Packed!InMemory(x, host) = IF host = "BIG" THEN x ELSE Packed!Reverse(x)
    BY DEF Packed!InMemory, Packed!Write
  <2>1. order \in {"BIG", "LITTLE"} /\ host \in {"BIG", "LITTLE"}
    BY DEF Packed!Orders
  <2>2. CASE n = 1
    <3>1. Packed!OrderValue(b, order, host) = b /\ Packed!Reverse(b) = b
      BY <1>1, <1>4, <2>2 DEF Packed!OrderValue, c
    <3> QED
      BY <1>5, <2>0, <3>1
  <2>3. CASE n # 1 /\ order = host
    <3>1. Packed!OrderValue(b, order, host) = b
      BY <1>1, <1>7, <2>1, <2>3 DEF Packed!OrderValue
    <3> QED
      BY <1>5, <2>0, <2>3, <3>1
  <2>4. CASE n # 1 /\ order # host
    <3>1. Packed!OrderValue(b, order, host) = c
      BY <1>1, <1>7, <2>1, <2>4 DEF Packed!OrderValue, Packed!Swap, c
    <3> QED
      BY <1>3, <1>5, <2>0, <2>1, <2>4, <3>1 DEF c
  <2> QED
    BY <2>2, <2>3, <2>4
<1>8. n = 8 => c # b
  <2>1. n = 8 => 1 \in 1 .. n /\ (n - 1) + 1 \in 1 .. n /\ (n - 1) + 1 = 8
    BY <1>1
  <2>2. n = 8 => c[1] = 8 /\ b[1] = 1
    BY <1>1, <1>2, <2>1
  <2> QED
    BY <2>2
<1>9. ASSUME n = 8 /\ order = "LITTLE"
      PROVE  Packed!InMemory(Packed!OrderValue(b, order, host), host) # Packed!Write(b, order)
  <2>1. Packed!Write(b, order) = c
    BY <1>5, <1>9 DEF c
  <2>2. Packed!OrderValue(b, order, host) = IF host = "BIG" THEN b ELSE c
    BY <1>1, <1>9 DEF Packed!OrderValue, Packed!Swap, c
  <2>3. Packed!InMemory(Packed!OrderValue(b, order, host), host) = b
    BY <1>3, <2>2 DEF Packed!InMemory, Packed!Write
  <2> QED
    BY <1>8, <1>9, <2>1, <2>3
<1> QED
  BY <1>6, <1>7, <1>9 DEF b

\* Every size packed was one of Sizes, so its lengths agree.
LEMMA PackedInvAgrees ==
    ASSUME Packed!SizesFit, PackedInv
    PROVE  Packed!OverloadsAgree
<1>1. ASSUME NEW i \in DOMAIN sent PROVE Takes(Packed!Pack(sent[i]), sent[i])
  <2>1. sent[i] \in Sizes
    BY LenProperties, ElementOfSeq DEF PackedInv
  <2> QED
    BY <2>1, EveryFormatTakes DEF PackedInv
<1> QED
  BY <1>1, LengthsAgree, ZigzagOfBytes, OrdersOfBytes DEF Packed!OverloadsAgree

-----------------------------------------------------------------------------
(***************************************************************************)
(* Text.                                                                   *)
(***************************************************************************)
\* flat[k] is the first k of the sequences in w, one after the other.
Flattens(flat, w) == flat[0] = <<>> /\ \A i \in 1 .. Len(w) : flat[i] = flat[i - 1] \o w[i]

\* Whatever does so to the end gives the flat sequence.
LEMMA FlattenIs ==
    ASSUME NEW S, NEW w \in Seq(Seq(S)), NEW flat \in [0 .. Len(w) -> Seq(S)], Flattens(flat, w)
    PROVE  Encoded!FlattenSeq(w) = flat[Len(w)]
<1> DEFINE n == Len(w)
           IsFlat(f) == f = [i \in 1 .. Len(w) |-> IF i = 1 THEN w[i] ELSE f[i - 1] \o w[i]]
           flatten == CHOOSE f : IsFlat(f)
<1>1. n \in Nat /\ flat[0] = <<>> /\ \A i \in 1 .. n : flat[i] = flat[i - 1] \o w[i] /\ w[i] \in Seq(S)
  BY LenProperties, ElementOfSeq DEF Flattens
<1>2. CASE n = 0
  <2>1. w = <<>>
    BY <1>2, EmptySeq
  <2> QED
    BY <1>1, <1>2, <2>1 DEF Encoded!FlattenSeq
<1>3. ASSUME n # 0 PROVE Encoded!FlattenSeq(w) = flat[n]
  <2>1. Encoded!FlattenSeq(w) = flatten[n]
    BY <1>3 DEF Encoded!FlattenSeq
  <2>2. flat[1] = w[1]
    <3>1. 1 \in 1 .. n /\ 1 - 1 = 0
      BY <1>1, <1>3
    <3>2. flat[1] = flat[0] \o w[1] /\ w[1] \in Seq(S)
      BY <1>1, <3>1
    <3> QED
      BY <1>1, <3>2, ConcatEmptySeq
  <2>3. IsFlat([i \in 1 .. n |-> flat[i]])
    <3> DEFINE f == [i \in 1 .. n |-> flat[i]]
               g == [i \in 1 .. n |-> IF i = 1 THEN w[i] ELSE f[i - 1] \o w[i]]
    <3>1. ASSUME NEW i \in 1 .. n PROVE f[i] = g[i]
      <4>1. CASE i = 1
        BY <2>2, <4>1
      <4>2. CASE i # 1
        <5>1. i - 1 \in 1 .. n
          BY <1>1, <4>2
        <5> QED
          BY <1>1, <4>2, <5>1
      <4> QED
        BY <4>1, <4>2
    <3>2. f = g
      BY <3>1
    <3> QED
      BY <3>2
  <2>4. IsFlat(flatten)
    <3> HIDE DEF IsFlat
    <3> QED
      BY <2>3
  <2> HIDE DEF flatten
  <2>5. \A i \in 1 .. n : flatten[i] = IF i = 1 THEN w[i] ELSE flatten[i - 1] \o w[i]
    BY <2>4
  <2> DEFINE T == {i \in 0 .. n : i # 0 => flatten[i] = flat[i]}
  <2>6. T = 0 .. n
    <3>1. 0 \in T
      BY <1>1
    <3>2. ASSUME NEW i \in 1 .. n, i - 1 \in T PROVE i \in T
      <4>1. i \in 0 .. n
        BY <1>1
      <4>2. CASE i = 1
        BY <2>2, <2>5, <4>1, <4>2
      <4>3. CASE i # 1
        <5>1. i - 1 # 0
          BY <1>1, <4>3
        <5>2. flatten[i - 1] = flat[i - 1]
          BY <3>2, <5>1
        <5>3. flatten[i] = flatten[i - 1] \o w[i] /\ flat[i] = flat[i - 1] \o w[i]
          BY <1>1, <2>5, <4>3
        <5> QED
          BY <4>1, <5>2, <5>3
      <4> QED
        BY <4>2, <4>3
    <3>3. T \in SUBSET (0 .. n)
      OBVIOUS
    <3> HIDE DEF T, n, flatten
    <3> QED
      BY <1>1, <3>1, <3>2, <3>3, InductionUpTo
  <2>7. n \in T
    <3>1. n \in 0 .. n
      BY <1>1
    <3> HIDE DEF T, n
    <3> QED
      BY <2>6, <3>1
  <2> QED
    BY <1>3, <2>1, <2>7
<1> QED
  BY <1>2, <1>3

\* There is such a function.
LEMMA FlattensExists ==
    ASSUME NEW S, NEW w \in Seq(Seq(S))
    PROVE  \E flat \in [0 .. Len(w) -> Seq(S)] : Flattens(flat, w)
<1> DEFINE D == Seq(S)
           step == [i \in 1 .. Len(w) |-> [s \in D |-> s \o w[i]]]
<1>1. Len(w) \in Nat /\ <<>> \in D /\ \A i \in 1 .. Len(w) : w[i] \in D
  BY LenProperties, ElementOfSeq, EmptySeq
<1>2. \A s \in D, i \in 1 .. Len(w) : s \o w[i] \in D
  BY <1>1, ConcatProperties
<1>3. step \in [1 .. Len(w) -> [D -> D]]
  BY <1>2
<1>4. PICK f \in [0 .. Len(w) -> D] : Iterates(f, Len(w), <<>>, step)
  <2> HIDE DEF D, step
  <2> QED
    BY <1>1, <1>3, Iteration
<1>5. \A i \in 1 .. Len(w) : f[i] = f[i - 1] \o w[i]
  <2>1. \A i \in 1 .. Len(w) : f[i] = step[i][f[i - 1]]
    BY <1>4 DEF Iterates
  <2>2. \A i \in 1 .. Len(w) : i - 1 \in 0 .. Len(w)
    BY <1>1
  <2>3. \A i \in 1 .. Len(w) : f[i - 1] \in D
    BY <1>4, <2>2
  <2> QED
    BY <2>1, <2>3
<1>6. Flattens(f, w)
  BY <1>4, <1>5 DEF Flattens, Iterates
<1> QED
  BY <1>6

\* The places of the sequences in the flat one.
LEMMA FlattenLaid ==
    ASSUME NEW w \in Seq(Seq(Nat)), NEW flat \in [0 .. Len(w) -> Seq(Nat)], Flattens(flat, w)
    PROVE  Laid([i \in 0 .. Len(w) |-> Len(flat[i])], flat[Len(w)], w, 0, Len(w))
<1> DEFINE n == Len(w)
           st == [i \in 0 .. n |-> Len(flat[i])]
           T == {i \in 0 .. n : LaidOut(flat[i], w, 0, i)}
<1>1. n \in Nat /\ flat[0] = <<>> /\ \A i \in 1 .. n : flat[i] = flat[i - 1] \o w[i] /\ w[i] \in Seq(Nat)
  BY LenProperties, ElementOfSeq DEF Flattens
<1>2. 0 \in T
  <2> DEFINE start == [i \in 0 .. 0 |-> 0]
  <2>1. Laid(start, <<>>, w, 0, 0)
    <3>1. start \in [0 .. 0 -> Nat] /\ start[0] = 0 /\ Len(<<>>) = 0 /\ 0 .. 0 = {0}
      OBVIOUS
    <3>2. 0 + 1 .. 0 = {}
      OBVIOUS
    <3> HIDE DEF start
    <3> QED
      BY <3>1, <3>2 DEF Laid
  <2>2. LaidOut(<<>>, w, 0, 0)
    BY <2>1 DEF LaidOut
  <2> QED
    BY <1>1, <2>2
<1>3. ASSUME NEW i \in 1 .. n, i - 1 \in T PROVE i \in T
  <2>1. i - 1 \in Nat /\ 0 =< i - 1 /\ (i - 1) + 1 = i /\ i \in 0 .. n /\ i - 1 \in 0 .. n
    BY <1>1
  <2>2. LaidOut(flat[i - 1], w, 0, i - 1) /\ flat[i - 1] \in Seq(Nat) /\ w[i] \in Seq(Nat)
    BY <1>1, <1>3, <2>1
  <2>3. LaidOut(flat[i - 1] \o w[i], w, 0, (i - 1) + 1)
    <3>1. w[(i - 1) + 1] = w[i] /\ \A k \in 0 + 1 .. i - 1 : w[k] = w[k]
      BY <2>1
    <3> QED
      BY <2>1, <2>2, <3>1, LaidMore
  <2> QED
    BY <1>1, <2>1, <2>3
<1>4. T = 0 .. n
  <2>1. T \in SUBSET (0 .. n)
    OBVIOUS
  <2> HIDE DEF T, n
  <2> QED
    BY <1>1, <1>2, <1>3, <2>1, InductionUpTo
<1>5. PICK start : Laid(start, flat[n], w, 0, n)
  <2>1. n \in T
    BY <1>1, <1>4
  <2> QED
    BY <2>1 DEF LaidOut
<1>6. /\ start \in [0 .. n -> Nat] /\ start[0] = 0
      /\ \A i \in 1 .. n : start[i] = start[i - 1] + Len(w[i])
  <2>1. 0 + 1 = 1
    OBVIOUS
  <2> HIDE DEF n, st, T
  <2> QED
    BY <1>5, <2>1 DEF Laid
<1> DEFINE U == {i \in 0 .. n : start[i] = Len(flat[i])}
<1>7. U = 0 .. n
  <2>1. 0 \in U
    BY <1>1, <1>6
  <2>2. ASSUME NEW i \in 1 .. n, i - 1 \in U PROVE i \in U
    <3>1. i \in 0 .. n /\ i - 1 \in 0 .. n
      BY <1>1
    <3>2. flat[i - 1] \in Seq(Nat) /\ w[i] \in Seq(Nat)
      BY <1>1, <3>1
    <3>3. Len(flat[i - 1] \o w[i]) = Len(flat[i - 1]) + Len(w[i])
      BY <3>2, ConcatProperties
    <3> QED
      BY <1>1, <1>6, <2>2, <3>1, <3>3
  <2>3. U \in SUBSET (0 .. n)
    OBVIOUS
  <2> HIDE DEF U, n
  <2> QED
    BY <1>1, <2>1, <2>2, <2>3, InductionUpTo
<1>8. start = st
  <2>1. \A i \in 0 .. n : start[i] = st[i]
    BY <1>7
  <2>2. start = [i \in 0 .. n |-> start[i]]
    BY <1>6
  <2>3. start = [i \in 0 .. n |-> st[i]]
    BY <2>1, <2>2
  <2> QED
    BY <2>3
<1> QED
  BY <1>5, <1>8

\* x are the first of the sequences in w.
FirstOf(x, w) == Len(x) =< Len(w) /\ \A i \in 1 .. Len(x) : x[i] = w[i]

\* They make what is flat so far.
LEMMA FlattenFirst ==
    ASSUME NEW S, NEW w \in Seq(Seq(S)), NEW flat \in [0 .. Len(w) -> Seq(S)], Flattens(flat, w),
           NEW x \in Seq(Seq(S)), FirstOf(x, w)
    PROVE  Encoded!FlattenSeq(x) = flat[Len(x)]
<1> DEFINE m == Len(x)
           f == [i \in 0 .. m |-> flat[i]]
<1>0. m \in 0 .. Len(w) /\ Len(x) = m /\ \A i \in 1 .. m : x[i] = w[i]
  BY LenProperties DEF FirstOf
<1> HIDE DEF m
<1>1. Len(w) \in Nat /\ m \in Nat
  BY <1>0, LenProperties
<1>2. /\ \A i \in 0 .. m : i \in 0 .. Len(w)
      /\ \A i \in 1 .. m : i \in 1 .. Len(w) /\ i - 1 \in 0 .. m /\ i \in 0 .. m
  BY <1>0, <1>1
<1>3. f \in [0 .. Len(x) -> Seq(S)] /\ \A i \in 0 .. m : f[i] = flat[i]
  BY <1>0, <1>2
<1> HIDE DEF f
<1>4. f[0] = <<>> /\ \A i \in 1 .. Len(x) : f[i] = f[i - 1] \o x[i]
  <2>0. flat[0] = <<>> /\ \A i \in 1 .. Len(w) : flat[i] = flat[i - 1] \o w[i]
    BY DEF Flattens
  <2>1. 0 \in 0 .. m
    BY <1>1
  <2>2. ASSUME NEW i \in 1 .. m PROVE f[i] = f[i - 1] \o x[i]
    <3>1. f[i] = flat[i] /\ f[i - 1] = flat[i - 1] /\ x[i] = w[i] /\ flat[i] = flat[i - 1] \o w[i]
      BY <1>0, <1>2, <1>3, <2>0
    <3> QED
      BY <3>1
  <2> QED
    BY <1>0, <1>3, <2>0, <2>1, <2>2
<1>5. Encoded!FlattenSeq(x) = f[Len(x)]
  BY <1>3, <1>4, FlattenIs DEF Flattens
<1> QED
  BY <1>0, <1>1, <1>3, <1>5
\* What is shifted out of a code point, six bits at a time.
Sixes(left, v, n) ==
    left \in [0 .. n -> Nat] /\ left[0] = v /\ \A i \in 1 .. n : left[i] = left[i - 1] \div 64

\* One group of bits after the other.
LEMMA SixesAre ==
    ASSUME NEW v \in Nat, NEW n \in Nat
    PROVE  Sixes(Encoded!Shifted(v, n), v, n)
<1> DEFINE IsLeft(f) == f = [i \in 0 .. n |-> IF i = 0 THEN v ELSE f[i - 1] \div 64]
           step == [i \in 1 .. n |-> [w \in Nat |-> w \div 64]]
<1>1. PICK f \in [0 .. n -> Nat] : Iterates(f, n, v, step)
  <2>1. step \in [1 .. n -> [Nat -> Nat]]
    OBVIOUS
  <2> HIDE DEF step
  <2> QED
    BY <2>1, Iteration
<1>2. f[0] = v /\ \A i \in 1 .. n : f[i] = f[i - 1] \div 64
  <2>1. \A i \in 1 .. n : i - 1 \in 0 .. n
    OBVIOUS
  <2> QED
    BY <1>1, <2>1 DEF Iterates
<1>3. IsLeft(f)
  <2> DEFINE g == [i \in 0 .. n |-> IF i = 0 THEN v ELSE f[i - 1] \div 64]
  <2>1. \A i \in 0 .. n : i = 0 \/ i \in 1 .. n
    OBVIOUS
  <2>2. f = [i \in 0 .. n |-> f[i]]
    BY <1>1
  <2>3. \A i \in 0 .. n : f[i] = g[i]
    BY <1>2, <2>1
  <2>4. f = [i \in 0 .. n |-> g[i]]
    BY <2>2, <2>3
  <2> QED
    BY <2>4
<1> DEFINE left == Encoded!Shifted(v, n)
<1>4. IsLeft(left)
  <2>1. left = CHOOSE h : IsLeft(h)
    BY DEF Encoded!Shifted
  <2> HIDE DEF IsLeft, left
  <2> QED
    BY <1>3, <2>1
<1> HIDE DEF left
<1>5. left[0] = v /\ \A i \in 1 .. n : left[i] = left[i - 1] \div 64
  <2>1. 0 \in 0 .. n /\ \A i \in 1 .. n : i \in 0 .. n /\ i # 0
    OBVIOUS
  <2> QED
    BY <1>4, <2>1
<1> DEFINE T == {i \in 0 .. n : left[i] = f[i]}
<1>6. T = 0 .. n
  <2>1. 0 \in T
    BY <1>2, <1>5
  <2>2. ASSUME NEW i \in 1 .. n, i - 1 \in T PROVE i \in T
    BY <1>2, <1>5, <2>2
  <2>3. T \in SUBSET (0 .. n)
    OBVIOUS
  <2> HIDE DEF T
  <2> QED
    BY <2>1, <2>2, <2>3, InductionUpTo
<1>7. left \in [0 .. n -> Nat]
  <2>1. \A i \in 0 .. n : left[i] = f[i] /\ f[i] \in Nat
    BY <1>1, <1>6
  <2>2. left = [i \in 0 .. n |-> left[i]]
    BY <1>4
  <2> QED
    BY <2>1, <2>2
<1> QED
  BY <1>5, <1>7 DEF left, Sixes

\* The first bytes and the ranges of the six lengths.
LEMMA SixLengths ==
    /\ Encoded!Lead[1] = 0 /\ Encoded!Lead[2] = 192 /\ Encoded!Lead[3] = 224
    /\ Encoded!Lead[4] = 240 /\ Encoded!Lead[5] = 248 /\ Encoded!Lead[6] = 252
    /\ Encoded!Ranges[1] = 127 /\ Encoded!Ranges[2] = 2047 /\ Encoded!Ranges[3] = 65535
    /\ Encoded!Ranges[4] = 2097151 /\ Encoded!Ranges[5] = 67108863 /\ Encoded!Ranges[6] = 2147483647
BY DEF Encoded!Lead, Encoded!Ranges

\* The bytes that sizes() takes for a first one, and those that it does not.
LEMMA SizesAre ==
    /\ \A b \in 0 .. 127 : Encoded!SizesOf(b) = 1
    /\ \A b \in 128 .. 191 : Encoded!SizesOf(b) = 0
    /\ \A b \in 192 .. 223 : Encoded!SizesOf(b) = 2
    /\ \A b \in 224 .. 239 : Encoded!SizesOf(b) = 3
    /\ \A b \in 240 .. 247 : Encoded!SizesOf(b) = 4
    /\ \A b \in 248 .. 251 : Encoded!SizesOf(b) = 5
    /\ \A b \in 252 .. 253 : Encoded!SizesOf(b) = 6
    /\ \A b \in Nat : b > 253 => Encoded!SizesOf(b) = 0
BY DEF Encoded!SizesOf

\* A code point is as long as its range says.
LEMMA LengthIs ==
    ASSUME NEW v \in Nat, v =< Encoded!Ranges[6]
    PROVE  LET n == Encoded!Length(v)
           IN  n \in 1 .. 6 /\ v =< Encoded!Ranges[n] /\ (n > 1 => v > Encoded!Ranges[n - 1])
<1> DEFINE Fit(n) == v =< Encoded!Ranges[n] /\ (n > 1 => v > Encoded!Ranges[n - 1])
<1>1. \E n \in 1 .. 6 : Fit(n)
  <2>1. CASE v =< 127
    BY <2>1, SixLengths
  <2>2. CASE 127 < v /\ v =< 2047
    <3>1. Fit(2) /\ 2 \in 1 .. 6
      BY <2>2, SixLengths
    <3> QED
      BY <3>1
  <2>3. CASE 2047 < v /\ v =< 65535
    <3>1. Fit(3) /\ 3 \in 1 .. 6
      BY <2>3, SixLengths
    <3> QED
      BY <3>1
  <2>4. CASE 65535 < v /\ v =< 2097151
    <3>1. Fit(4) /\ 4 \in 1 .. 6
      BY <2>4, SixLengths
    <3> QED
      BY <3>1
  <2>5. CASE 2097151 < v /\ v =< 67108863
    <3>1. Fit(5) /\ 5 \in 1 .. 6
      BY <2>5, SixLengths
    <3> QED
      BY <3>1
  <2>6. CASE 67108863 < v
    <3>1. Fit(6) /\ 6 \in 1 .. 6
      BY <2>6, SixLengths
    <3> QED
      BY <3>1
  <2> QED
    BY <2>1, <2>2, <2>3, <2>4, <2>5, <2>6
<1>2. Encoded!Length(v) = CHOOSE n \in 1 .. 6 : Fit(n)
  BY DEF Encoded!Length
<1> HIDE DEF Fit
<1>3. Encoded!Length(v) \in 1 .. 6 /\ Fit(Encoded!Length(v))
  BY <1>1, <1>2
<1> QED
  BY <1>3 DEF Fit

\* The bytes e of the code point v: the first one tells how many they are, the others
\* cannot be taken for a first one, and what is left of v after each comes back.
IsCode(e, v) ==
    /\ e \in Seq(Nat) /\ Len(e) \in 1 .. 6 /\ Encoded!SizesOf(e[1]) = Len(e)
    /\ \A i \in 2 .. Len(e) : Encoded!SizesOf(e[i]) = 0
    /\ \A i \in 1 .. Len(e) : e[i] \in 0 .. 255
    /\ \E left \in [0 .. Len(e) -> Nat] :
           /\ left[0] = v /\ left[Len(e) - 1] = e[1] - Encoded!Lead[Len(e)]
           /\ \A i \in 2 .. Len(e) : left[Len(e) - i] = left[Len(e) - (i - 1)] * 64 + (e[i] - 128)

\* What is left when all but the first byte are shifted out lies beside the first byte's
\* marks.
LEMMA FirstByte ==
    ASSUME NEW v \in Nat, v =< Encoded!Ranges[6], NEW n \in 1 .. 6, v =< Encoded!Ranges[n],
           NEW left, Sixes(left, v, n)
    PROVE  /\ Encoded!SizesOf(Encoded!Lead[n] + left[n - 1]) = n
           /\ Encoded!Lead[n] \in Nat /\ Encoded!Lead[n] + left[n - 1] \in 0 .. 255
<1>1. left \in [0 .. n -> Nat] /\ left[0] = v /\ \A i \in 1 .. n : left[i] = left[i - 1] \div 64
  BY DEF Sixes
<1>2. \A x, m \in Nat : x < 64 * m => x \div 64 \in Nat /\ x \div 64 < m
  OBVIOUS
<1>4. CASE n = 1
  <2>1. v < 128 /\ left[n - 1] = v /\ Encoded!Lead[n] = 0
    BY <1>1, <1>4, SixLengths, SMT
  <2>2. 0 + v = v /\ v \in 0 .. 127 /\ v \in 0 .. 255
    BY <2>1
  <2> QED
    BY <1>4, <2>1, <2>2, SizesAre
<1>5. CASE n = 2
  <2>1. /\ v < 2048 /\ n - 1 = 1 /\ Encoded!Lead[n] = 192
        /\ left[1] = v \div 64
    BY <1>1, <1>5, SixLengths, SMT
  <2>2. left[1] \in Nat /\ left[1] < 32
    BY <1>2, <2>1, SMT
  <2>3. 192 + left[1] \in 192 .. 223 /\ 192 + left[1] \in 0 .. 255
    BY <2>2
  <2> QED
    BY <1>5, <2>1, <2>3, SizesAre
<1>6. CASE n = 3
  <2>1. /\ v < 65536 /\ n - 1 = 2 /\ Encoded!Lead[n] = 224
        /\ left[1] = v \div 64 /\ left[2] = left[1] \div 64
    BY <1>1, <1>6, SixLengths, SMT
  <2>2. left[1] \in Nat /\ left[1] < 1024
    BY <1>2, <2>1, SMT
  <2>3. left[2] \in Nat /\ left[2] < 16
    BY <1>2, <2>1, <2>2, SMT
  <2>4. 224 + left[2] \in 224 .. 239 /\ 224 + left[2] \in 0 .. 255
    BY <2>3
  <2> QED
    BY <1>6, <2>1, <2>4, SizesAre
<1>7. CASE n = 4
  <2>1. /\ v < 2097152 /\ n - 1 = 3 /\ Encoded!Lead[n] = 240
        /\ left[1] = v \div 64 /\ left[2] = left[1] \div 64 /\ left[3] = left[2] \div 64
    BY <1>1, <1>7, SixLengths, SMT
  <2>2. left[1] \in Nat /\ left[1] < 32768
    BY <1>2, <2>1, SMT
  <2>3. left[2] \in Nat /\ left[2] < 512
    BY <1>2, <2>1, <2>2, SMT
  <2>4. left[3] \in Nat /\ left[3] < 8
    BY <1>2, <2>1, <2>3, SMT
  <2>5. 240 + left[3] \in 240 .. 247 /\ 240 + left[3] \in 0 .. 255
    BY <2>4
  <2> QED
    BY <1>7, <2>1, <2>5, SizesAre
<1>8. CASE n = 5
  <2>1. /\ v < 67108864 /\ n - 1 = 4 /\ Encoded!Lead[n] = 248
        /\ left[1] = v \div 64 /\ left[2] = left[1] \div 64 /\ left[3] = left[2] \div 64
        /\ left[4] = left[3] \div 64
    BY <1>1, <1>8, SixLengths, SMT
  <2>2. left[1] \in Nat /\ left[1] < 1048576
    BY <1>2, <2>1, SMT
  <2>3. left[2] \in Nat /\ left[2] < 16384
    BY <1>2, <2>1, <2>2, SMT
  <2>4. left[3] \in Nat /\ left[3] < 256
    BY <1>2, <2>1, <2>3, SMT
  <2>5. left[4] \in Nat /\ left[4] < 4
    BY <1>2, <2>1, <2>4, SMT
  <2>6. 248 + left[4] \in 248 .. 251 /\ 248 + left[4] \in 0 .. 255
    BY <2>5
  <2> QED
    BY <1>8, <2>1, <2>6, SizesAre
<1>9. CASE n = 6
  <2>1. /\ v < 2147483648 /\ n - 1 = 5 /\ Encoded!Lead[n] = 252
        /\ left[1] = v \div 64 /\ left[2] = left[1] \div 64 /\ left[3] = left[2] \div 64
        /\ left[4] = left[3] \div 64 /\ left[5] = left[4] \div 64
    BY <1>1, <1>9, SixLengths, SMT
  <2>2. left[1] \in Nat /\ left[1] < 33554432
    BY <1>2, <2>1, SMT
  <2>3. left[2] \in Nat /\ left[2] < 524288
    BY <1>2, <2>1, <2>2, SMT
  <2>4. left[3] \in Nat /\ left[3] < 8192
    BY <1>2, <2>1, <2>3, SMT
  <2>5. left[4] \in Nat /\ left[4] < 128
    BY <1>2, <2>1, <2>4, SMT
  <2>6. left[5] \in Nat /\ left[5] < 2
    BY <1>2, <2>1, <2>5, SMT
  <2>7. 252 + left[5] \in 252 .. 253 /\ 252 + left[5] \in 0 .. 255
    BY <2>6
  <2> QED
    BY <1>9, <2>1, <2>7, SizesAre
<1> QED
  BY <1>4, <1>5, <1>6, <1>7, <1>8, <1>9

\* ucs4_to_utf8() of one code point.
LEMMA Encodes ==
    ASSUME NEW v \in Nat, v =< Encoded!Ranges[6]
    PROVE  IsCode(Encoded!Encode(v), v)
<1> DEFINE n == Encoded!Length(v)
           left == Encoded!Shifted(v, n)
           e == Encoded!Encode(v)
<1>1. n \in 1 .. 6 /\ v =< Encoded!Ranges[n] /\ n \in Nat
  BY LengthIs
<1> HIDE DEF n
<1>2. Sixes(left, v, n)
  BY <1>1, SixesAre
<1>3. left \in [0 .. n -> Nat] /\ left[0] = v /\ \A i \in 1 .. n : left[i] = left[i - 1] \div 64
  <2> HIDE DEF left
  <2> QED
    BY <1>2 DEF Sixes
<1>4. e = [i \in 1 .. n |-> IF i = 1 THEN Encoded!Lead[n] + left[n - 1] ELSE 128 + (left[n - i] % 64)]
  BY DEF Encoded!Encode, n
<1> HIDE DEF left, e
<1>5. /\ Encoded!SizesOf(Encoded!Lead[n] + left[n - 1]) = n
      /\ Encoded!Lead[n] \in Nat /\ Encoded!Lead[n] + left[n - 1] \in 0 .. 255
  BY <1>1, <1>2, FirstByte
<1>6. /\ 1 \in 1 .. n /\ n - 1 \in 0 .. n /\ \A i \in 1 .. n : n - i \in 0 .. n
      /\ \A i \in 2 .. n : i \in 1 .. n /\ i # 1 /\ n - (i - 1) \in 1 .. n /\ n - (i - 1) - 1 = n - i
  BY <1>1
<1>7. e[1] = Encoded!Lead[n] + left[n - 1] /\ \A i \in 2 .. n : e[i] = 128 + (left[n - i] % 64)
  BY <1>4, <1>6
<1>8. \A i \in 2 .. n : e[i] \in 128 .. 191
  <2>1. \A x \in Nat : 128 + (x % 64) \in 128 .. 191
    OBVIOUS
  <2>2. \A i \in 2 .. n : left[n - i] \in Nat
    BY <1>3, <1>6
  <2> QED
    BY <1>7, <2>1, <2>2
<1>9. \A i \in 1 .. n : e[i] \in 0 .. 255 /\ e[i] \in Nat
  <2>1. \A x \in 128 .. 191 : x \in 0 .. 255 /\ x \in Nat
    OBVIOUS
  <2>2. \A i \in 1 .. n : i = 1 \/ i \in 2 .. n
    BY <1>1
  <2>3. \A x \in 0 .. 255 : x \in Nat
    OBVIOUS
  <2> QED
    BY <1>5, <1>7, <1>8, <2>1, <2>2, <2>3
<1>10. e \in Seq(Nat) /\ Len(e) = n
  <2>1. e \in [1 .. n -> Nat]
    BY <1>4, <1>9
  <2> QED
    BY <1>1, <2>1
<1>11. \A i \in 2 .. n : Encoded!SizesOf(e[i]) = 0
  BY <1>8, SizesAre
<1>12. left[n - 1] = e[1] - Encoded!Lead[n]
  <2>1. left[n - 1] \in Nat
    BY <1>3, <1>6
  <2> QED
    BY <1>5, <1>7, <2>1
<1>13. ASSUME NEW i \in 2 .. n PROVE left[n - i] = left[n - (i - 1)] * 64 + (e[i] - 128)
  <2>1. \A x \in Nat : x = (x \div 64) * 64 + ((128 + (x % 64)) - 128)
    OBVIOUS
  <2>2. left[n - i] \in Nat
    BY <1>3, <1>6
  <2>3. left[n - (i - 1)] = left[n - i] \div 64
    BY <1>3, <1>6
  <2>4. left[n - i] = (left[n - i] \div 64) * 64 + ((128 + (left[n - i] % 64)) - 128)
    BY <2>1, <2>2
  <2> QED
    BY <1>7, <2>3, <2>4
<1>14. IsCode(e, v)
  BY <1>1, <1>3, <1>5, <1>7, <1>9, <1>10, <1>11, <1>12, <1>13 DEF IsCode
<1> QED
  BY <1>14 DEF e

\* utf8_to_ucs4() of one code point whose bytes lie in b from i on.
LEMMA DecodedIs ==
    ASSUME NEW b \in Seq(Nat), NEW i \in 1 .. Len(b), NEW e, NEW v \in Nat, IsCode(e, v),
           Encoded!Used(b, i) = Len(e), \A k \in 1 .. Len(e) : b[i + k - 1] = e[k]
    PROVE  Encoded!Decoded(b, i) = v
<1> DEFINE n == Len(e)
           Reads(f) == f = [k \in 1 .. n |-> IF k = 1 THEN b[i] - Encoded!Lead[n]
                                               ELSE f[k - 1] * 64 + (b[i + k - 1] - 128)]
           value == CHOOSE f : Reads(f)
<1>1. n \in 1 .. 6
  BY DEF IsCode
<1>2. PICK left \in [0 .. n -> Nat] :
          /\ left[0] = v /\ left[n - 1] = e[1] - Encoded!Lead[n]
          /\ \A k \in 2 .. n : left[n - k] = left[n - (k - 1)] * 64 + (e[k] - 128)
  BY DEF IsCode
<1>3. Encoded!Decoded(b, i) = value[n]
  BY DEF Encoded!Decoded
<1>4. b[i] = e[1] /\ \A k \in 1 .. n : b[i + k - 1] = e[k]
  <2>1. 1 \in 1 .. n /\ i + 1 - 1 = i
    BY <1>1
  <2> QED
    BY <2>1
<1> DEFINE f == [k \in 1 .. n |-> left[n - k]]
           g == [k \in 1 .. n |-> IF k = 1 THEN b[i] - Encoded!Lead[n]
                                  ELSE f[k - 1] * 64 + (b[i + k - 1] - 128)]
<1>5. ASSUME NEW k \in 1 .. n PROVE f[k] = g[k]
  <2>1. CASE k = 1
    BY <1>2, <1>4, <2>1
  <2>2. CASE k # 1
    <3>1. k - 1 \in 1 .. n /\ k \in 2 .. n
      BY <1>1, <2>2
    <3> QED
      BY <1>2, <1>4, <2>2, <3>1
  <2> QED
    BY <2>1, <2>2
<1>6. Reads(f)
  <2>1. f = g
    BY <1>5
  <2> QED
    BY <2>1
<1>7. Reads(value)
  <2> HIDE DEF Reads
  <2> QED
    BY <1>6
<1> HIDE DEF value
<1>8. value[1] = b[i] - Encoded!Lead[n] /\ \A k \in 2 .. n : value[k] = value[k - 1] * 64 + (b[i + k - 1] - 128)
  <2>1. 1 \in 1 .. n /\ \A k \in 2 .. n : k \in 1 .. n /\ k # 1
    BY <1>1
  <2> QED
    BY <1>7, <2>1
<1> DEFINE T == {k \in 0 .. n : k # 0 => value[k] = left[n - k]}
<1>9. T = 0 .. n
  <2>1. 0 \in T
    BY <1>1
  <2>2. ASSUME NEW k \in 1 .. n, k - 1 \in T PROVE k \in T
    <3>1. k \in 0 .. n
      BY <1>1
    <3>2. CASE k = 1
      BY <1>2, <1>4, <1>8, <3>1, <3>2
    <3>3. CASE k # 1
      <4>1. k \in 2 .. n /\ k - 1 # 0
        BY <1>1, <3>3
      <4>2. value[k - 1] = left[n - (k - 1)]
        BY <2>2, <4>1
      <4>3. value[k] = value[k - 1] * 64 + (b[i + k - 1] - 128)
        BY <1>8, <4>1
      <4>4. left[n - k] = left[n - (k - 1)] * 64 + (e[k] - 128) /\ b[i + k - 1] = e[k]
        BY <1>2, <1>4, <4>1
      <4>5. value[k] = left[n - k]
        BY <4>2, <4>3, <4>4
      <4> QED
        BY <3>1, <4>5
    <3> QED
      BY <3>2, <3>3
  <2>3. T \in SUBSET (0 .. n)
    OBVIOUS
  <2>4. n \in Nat
    BY <1>1
  <2> HIDE DEF T, n
  <2> QED
    BY <2>1, <2>2, <2>3, <2>4, InductionUpTo
<1>10. value[n] = left[0]
  <2>1. n \in 0 .. n /\ n # 0 /\ n - n = 0
    <3> HIDE DEF n
    <3> QED
      BY <1>1
  <2>2. n \in T
    BY <1>9, <2>1
  <2> QED
    BY <2>1, <2>2
<1> QED
  BY <1>2, <1>3, <1>10

\* from[i] is what the loop over b gives from i on.
Loops(from, b) ==
    \A i \in 1 .. Len(b) + 1 :
        from[i] = IF i > Len(b) THEN <<>>
                  ELSE IF Encoded!Used(b, i) = 0 THEN <<Encoded!Question>> \o from[i + 1]
                  ELSE <<Encoded!Decoded(b, i)>> \o from[i + Encoded!Used(b, i)]

\* A code point uses no more than there is.
LEMMA UsedIs ==
    ASSUME NEW b \in Seq(Nat), NEW i \in 1 .. Len(b)
    PROVE  Encoded!Used(b, i) \in 0 .. Len(b) + 1 - i
<1>1. Encoded!SizesOf(b[i]) \in 0 .. 6
  <2>1. \A x \in Nat : Encoded!SizesOf(x) \in 0 .. 6
    BY DEF Encoded!SizesOf
  <2>2. b[i] \in Nat
    BY ElementOfSeq
  <2> QED
    BY <2>1, <2>2
<1>2. Len(b) \in Nat
  BY LenProperties
<1> QED
  BY <1>1, <1>2 DEF Encoded!Used

\* Places counted from the end.
LEMMA FromTheEnd ==
    /\ \A n \in Nat : \A i \in 1 .. n : n + 1 - i \in 1 .. n /\ n + 1 - (n + 1 - i) = i
    /\ \A n \in Nat : \A i \in 1 .. n : \A t \in 1 .. n + 1 - i :
           /\ i + t \in 1 .. n + 1 /\ n + 1 - (i + t) = (n + 1 - i) - t
           /\ (n + 1 - i) - t \in 0 .. n /\ ~(n + 1 - i =< (n + 1 - i) - t)
OBVIOUS

\* The loop of utf8_to_ucs4() comes to an end, for each turn of it uses a byte.
LEMMA DecodeIs ==
    ASSUME NEW b \in Seq(Nat), NEW S, Encoded!Question \in S,
           \A i \in 1 .. Len(b) : Encoded!Decoded(b, i) \in S
    PROVE  \E from \in [1 .. Len(b) + 1 -> Seq(S)] : Loops(from, b) /\ Encoded!Decode(b) = from[1]
<1> DEFINE N == Len(b)
           D == Seq(S)
           Uses(i) == IF Encoded!Used(b, i) = 0 THEN 1 ELSE Encoded!Used(b, i)
           Gives(i) == IF Encoded!Used(b, i) = 0 THEN <<Encoded!Question>> ELSE <<Encoded!Decoded(b, i)>>
           stop == {k \in Nat : k = 0 \/ k > N}
           start == [k \in Nat |-> <<>>]
           down == [k \in Nat |-> IF k \in stop THEN 0 ELSE k - Uses(N + 1 - k)]
           step == [k \in Nat |-> [s \in D |-> IF k \in stop THEN <<>> ELSE Gives(N + 1 - k) \o s]]
<1>1. N \in Nat
  BY LenProperties
<1>2. \A i \in 1 .. N : Uses(i) \in 1 .. N + 1 - i
  <2>1. \A i \in 1 .. N : Encoded!Used(b, i) \in 0 .. N + 1 - i
    BY UsedIs
  <2> QED
    BY <1>1, <2>1
<1>3. \A i \in 1 .. N : Gives(i) \in D
  OBVIOUS
<1>4. \A k \in Nat \ stop : N + 1 - k \in 1 .. N
  BY <1>1
<1>0. N = Len(b)
  OBVIOUS
<1> HIDE DEF Uses, Gives, N
<1>5. \A k \in Nat \ stop : down[k] = k - Uses(N + 1 - k) /\ down[k] \in Nat /\ down[k] < k
  <2>1. ASSUME NEW k \in Nat \ stop PROVE down[k] = k - Uses(N + 1 - k) /\ down[k] \in Nat /\ down[k] < k
    <3>1. Uses(N + 1 - k) \in 1 .. N + 1 - (N + 1 - k)
      BY <1>2, <1>4
    <3>2. down[k] = k - Uses(N + 1 - k)
      OBVIOUS
    <3>3. N + 1 - (N + 1 - k) = k
      BY <1>1
    <3> QED
      BY <3>1, <3>2, <3>3
  <2> QED
    BY <2>1
<1>6. stop \in SUBSET Nat /\ start \in [Nat -> D] /\ down \in [Nat -> Nat]
  <2>1. \A k \in stop : down[k] = 0
    OBVIOUS
  <2>2. \A k \in Nat : down[k] \in Nat
    BY <1>5, <2>1
  <2> QED
    BY <2>2
<1>7. step \in [Nat -> [D -> D]]
  <2>1. \A k \in Nat : k \notin stop => Gives(N + 1 - k) \in D
    BY <1>3, <1>4
  <2>2. \A s, t \in D : s \o t \in D
    BY ConcatProperties
  <2>3. <<>> \in D
    BY EmptySeq
  <2> HIDE DEF D, stop
  <2> QED
    BY <2>1, <2>2, <2>3
<1>8. PICK h \in [Nat -> D] : Descends(h, Nat, down, stop, start, step)
  <2>1. \A k \in Nat \ stop : down[k] < k
    BY <1>5
  <2> HIDE DEF down, stop, start, step, D
  <2> QED
    BY <1>6, <1>7, <2>1, Descent
<1>9. /\ h[0] = <<>>
      /\ \A k \in 1 .. N : h[k] = Gives(N + 1 - k) \o h[k - Uses(N + 1 - k)]
  <2>1. 0 \in stop /\ \A k \in 1 .. N : k \in Nat \ stop
    BY <1>1
  <2>2. h[0] = <<>>
    BY <1>8, <2>1 DEF Descends
  <2>3. ASSUME NEW k \in 1 .. N PROVE h[k] = Gives(N + 1 - k) \o h[k - Uses(N + 1 - k)]
    <3>1. h[k] = step[k][h[down[k]]]
      BY <1>8, <2>1 DEF Descends
    <3>2. k \in Nat /\ k \notin stop /\ h[down[k]] \in D
      BY <1>5, <1>8, <2>1
    <3>3. down[k] = k - Uses(N + 1 - k)
      BY <1>5, <2>1
    <3> HIDE DEF stop, down
    <3>4. step[k][h[down[k]]] = Gives(N + 1 - k) \o h[down[k]]
      BY <3>2
    <3> QED
      BY <3>1, <3>3, <3>4
  <2> QED
    BY <2>2, <2>3
<1> DEFINE Turn(f, i) == IF i > N THEN <<>>
                          ELSE IF Encoded!Used(b, i) = 0 THEN <<Encoded!Question>> \o f[i + 1]
                          ELSE <<Encoded!Decoded(b, i)>> \o f[i + Encoded!Used(b, i)]
           IsFrom(f) == f = [i \in 1 .. N + 1 |-> Turn(f, i)]
           from == CHOOSE f : IsFrom(f)
<1>10. ASSUME NEW f, NEW i \in 1 .. N PROVE Turn(f, i) = Gives(i) \o f[i + Uses(i)]
  <2>1. ~(i > N)
    BY <1>1
  <2>2. CASE Encoded!Used(b, i) = 0
    BY <2>1, <2>2 DEF Gives, Uses
  <2>3. CASE Encoded!Used(b, i) # 0
    BY <2>1, <2>3 DEF Gives, Uses
  <2> QED
    BY <2>2, <2>3
<1>11. Encoded!Decode(b) = from[1]
  BY <1>0 DEF Encoded!Decode, Encoded!Question
<1>12. \E f : IsFrom(f)
  <2> DEFINE f == [i \in 1 .. N + 1 |-> h[N + 1 - i]]
  <2>1. ASSUME NEW i \in 1 .. N + 1 PROVE f[i] = Turn(f, i)
    <3>1. CASE i = N + 1
      <4>1. N + 1 - i = 0 /\ i > N
        BY <1>1, <3>1
      <4> QED
        BY <1>9, <4>1
    <3>2. CASE i # N + 1
      <4>1. i \in 1 .. N /\ N + 1 - i \in 1 .. N /\ N + 1 - (N + 1 - i) = i
        <5>1. i \in 1 .. N
          BY <1>1, <3>2
        <5> QED
          BY <1>1, <5>1, FromTheEnd
      <4>2. f[i] = Gives(i) \o h[(N + 1 - i) - Uses(i)]
        BY <1>9, <4>1
      <4>3. Uses(i) \in 1 .. N + 1 - i
        BY <1>2, <4>1
      <4>4. i + Uses(i) \in 1 .. N + 1 /\ N + 1 - (i + Uses(i)) = (N + 1 - i) - Uses(i)
        BY <1>1, <4>1, <4>3, FromTheEnd
      <4>5. f[i + Uses(i)] = h[(N + 1 - i) - Uses(i)]
        BY <4>4
      <4> HIDE DEF f, Turn
      <4> QED
        BY <1>10, <4>1, <4>2, <4>5
    <3> QED
      BY <3>1, <3>2
  <2> DEFINE g == [i \in 1 .. N + 1 |-> Turn(f, i)]
  <2>2. f = g
    <3> HIDE DEF Turn
    <3> QED
      BY <2>1
  <2> QED
    BY <2>2
<1>13. IsFrom(from)
  <2> HIDE DEF IsFrom
  <2> QED
    BY <1>12
<1> HIDE DEF from
<1>14. \A i \in 1 .. N + 1 : from[i] = Turn(from, i)
  <2> HIDE DEF Turn
  <2> QED
    BY <1>13
<1>15. Loops(from, b)
  BY <1>0, <1>14 DEF Loops
<1> DEFINE T == {k \in 0 .. N : from[N + 1 - k] \notin D}
<1>16. T = {}
  <2>1. SUFFICES ASSUME T # {} PROVE FALSE
    OBVIOUS
  <2>2. PICK k \in T : \A j \in T : k =< j
    <3>1. T \in SUBSET Nat
      OBVIOUS
    <3> HIDE DEF T
    <3> QED
      BY <2>1, <3>1, LeastNumber
  <2>3. k \in 0 .. N /\ from[N + 1 - k] \notin D
    OBVIOUS
  <2>4. CASE k = 0
    <3>1. N + 1 - k = N + 1 /\ N + 1 \in 1 .. N + 1 /\ N + 1 > N
      BY <1>1, <2>4
    <3>2. from[N + 1] = <<>>
      BY <1>14, <3>1
    <3>3. <<>> \in D
      BY EmptySeq
    <3> QED
      BY <2>3, <3>1, <3>2, <3>3
  <2>5. CASE k # 0
    <3> DEFINE i == N + 1 - k
    <3>1. i \in 1 .. N /\ i \in 1 .. N + 1 /\ k = N + 1 - i /\ i = N + 1 - k
      BY <1>1, <2>3, <2>5
    <3> HIDE DEF i
    <3>2. Uses(i) \in 1 .. N + 1 - i
      BY <1>2, <3>1
    <3>3. /\ k - Uses(i) \in 0 .. N /\ N + 1 - (k - Uses(i)) = i + Uses(i)
          /\ ~(k =< k - Uses(i))
      <4>1. \A x, y, t \in Int : x + 1 - ((x + 1 - y) - t) = y + t
        OBVIOUS
      <4>2. /\ i + Uses(i) \in 1 .. N + 1 /\ N + 1 - (i + Uses(i)) = (N + 1 - i) - Uses(i)
            /\ (N + 1 - i) - Uses(i) \in 0 .. N /\ ~(N + 1 - i =< (N + 1 - i) - Uses(i))
        BY <1>1, <3>1, <3>2, FromTheEnd
      <4>3. N \in Int /\ i \in Int /\ Uses(i) \in Int
        BY <1>1, <3>1, <3>2
      <4>4. N + 1 - ((N + 1 - i) - Uses(i)) = i + Uses(i)
        BY <4>1, <4>3
      <4>5. N + 1 - (k - Uses(i)) = i + Uses(i)
        BY <3>1, <4>4
      <4>6. k - Uses(i) \in 0 .. N /\ ~(k =< k - Uses(i))
        BY <3>1, <4>2
      <4> QED
        BY <4>5, <4>6
    <3>4. k - Uses(i) \notin T
      BY <2>2, <3>3
    <3>5. from[i + Uses(i)] \in D
      BY <3>3, <3>4
    <3>6. from[i] = Turn(from, i)
      BY <1>14, <3>1
    <3> HIDE DEF Turn
    <3>7. from[i] = Gives(i) \o from[i + Uses(i)]
      BY <1>10, <3>1, <3>6
    <3>8. from[i] \in D
      BY <1>3, <3>1, <3>5, <3>7, ConcatProperties
    <3> QED
      BY <2>3, <3>1, <3>8
  <2> QED
    BY <2>4, <2>5
<1>17. \A i \in 1 .. N + 1 : from[i] \in D
  <2>1. \A i \in 1 .. N + 1 : N + 1 - i \in 0 .. N /\ N + 1 - (N + 1 - i) = i
    BY <1>1
  <2> QED
    BY <1>16, <2>1
<1>18. from \in [1 .. Len(b) + 1 -> D]
  <2> HIDE DEF Turn
  <2>1. from = [i \in 1 .. N + 1 |-> from[i]]
    BY <1>13
  <2> QED
    BY <1>0, <1>17, <2>1
<1> QED
  BY <1>11, <1>15, <1>18

\* What stands for m bytes that cannot be read.
Row(m) == [n \in 1 .. m |-> Encoded!Question]

\* One more of them.
LEMMA RowIs ==
    ASSUME NEW S, Encoded!Question \in S
    PROVE  /\ Row(0) = <<>>
           /\ \A m \in Nat : Row(m) \in Seq(S)
           /\ \A m \in Nat \ {0} : Row(m) = Row(m - 1) \o <<Encoded!Question>>
<1> DEFINE q == Encoded!Question
<1>1. Row(0) = <<>>
  BY DEF Row
<1> HIDE DEF q
<1>2. ASSUME NEW m \in Nat PROVE Row(m) \in Seq(S) /\ Len(Row(m)) = m /\ \A i \in 1 .. m : Row(m)[i] = q
  <2>1. Row(m) = [n \in 1 .. m |-> q] /\ q \in S
    BY DEF Row, q
  <2> QED
    BY <2>1
<1>3. ASSUME NEW m \in Nat \ {0} PROVE Row(m) = Row(m - 1) \o <<q>>
  <2>1. m \in Nat /\ m - 1 \in Nat /\ (m - 1) + 1 = m /\ \A i \in 1 .. m : i =< m - 1 => i \in 1 .. m - 1
    OBVIOUS
  <2>2. <<q>> \in Seq(S) /\ Len(<<q>>) = 1 /\ q \in S
    BY DEF q
  <2>3. /\ Row(m - 1) \o <<q>> \in Seq(S) /\ Len(Row(m - 1) \o <<q>>) = m
        /\ \A i \in 1 .. m : (Row(m - 1) \o <<q>>)[i] = IF i =< m - 1 THEN Row(m - 1)[i] ELSE <<q>>[i - (m - 1)]
    <3>1. Row(m - 1) \in Seq(S) /\ Len(Row(m - 1)) = m - 1
      BY <1>2, <2>1
    <3> QED
      BY <2>1, <2>2, <3>1, ConcatProperties
  <2>4. ASSUME NEW i \in 1 .. m PROVE (Row(m - 1) \o <<q>>)[i] = q
    <3>1. CASE i =< m - 1
      BY <1>2, <2>1, <2>3, <3>1
    <3>2. CASE ~(i =< m - 1)
      <4>1. i - (m - 1) = 1
        BY <2>1, <3>2
      <4> QED
        BY <2>3, <3>2, <4>1
    <3> QED
      BY <3>1, <3>2
  <2>5. Row(m) \in Seq(S) /\ Len(Row(m)) = m /\ \A i \in 1 .. m : Row(m)[i] = q
    BY <1>2, <2>1
  <2> QED
    BY <2>3, <2>4, <2>5, SeqEqual
<1> QED
  BY <1>1, <1>2, <1>3 DEF q

\* None of the m bytes from i on begins a code point that is there.
Unread(b, i, m) ==
    /\ i \in 1 .. Len(b) + 1 /\ m \in Nat /\ i + m =< Len(b) + 1
    /\ \A j \in 0 .. m - 1 : Encoded!Used(b, i + j) = 0

\* What the loop gives from i on is s, and then what it gives from j on.
Yields(from, i, s, j) == from[i] = s \o from[j]

\* Each of them is marked.
LEMMA Marks ==
    ASSUME NEW b \in Seq(Nat), NEW S, Encoded!Question \in S,
           NEW from \in [1 .. Len(b) + 1 -> Seq(S)], Loops(from, b),
           NEW i \in Nat, NEW m \in Nat, Unread(b, i, m)
    PROVE  Yields(from, i, Row(m), i + m)
<1> DEFINE N == Len(b)
           T == {k \in 0 .. m : from[i] = Row(k) \o from[i + k]}
<1>0. /\ i \in 1 .. N + 1 /\ m \in Nat /\ i + m =< N + 1
      /\ \A j \in 0 .. m - 1 : Encoded!Used(b, i + j) = 0
  BY DEF Unread
<1>1. N \in Nat
  BY LenProperties
<1>2. \A k \in 0 .. m : i + k \in 1 .. N + 1
  <2> HIDE DEF N
  <2> QED
    BY <1>0, <1>1
<1>3. from \in [1 .. N + 1 -> Seq(S)]
  OBVIOUS
<1>4. \A k \in 1 .. N : Encoded!Used(b, k) = 0 => from[k] = <<Encoded!Question>> \o from[k + 1]
  <2>1. \A k \in 1 .. N : k \in 1 .. Len(b) + 1 /\ ~(k > Len(b))
    BY <1>1
  <2> QED
    BY <2>1 DEF Loops
<1> HIDE DEF N
<1>5. 0 \in T
  <2>1. 0 \in 0 .. m /\ i + 0 = i /\ i \in 1 .. N + 1
    BY <1>0, <1>1
  <2>2. <<>> \o from[i] = from[i]
    BY <1>3, <2>1, ConcatEmptySeq
  <2>3. Row(0) = <<>>
    BY RowIs
  <2> QED
    BY <2>1, <2>2, <2>3
<1>6. ASSUME NEW k \in 1 .. m, k - 1 \in T PROVE k \in T
  <2>1. /\ k \in 0 .. m /\ k - 1 \in 0 .. m - 1 /\ k - 1 \in 0 .. m /\ k \in Nat \ {0} /\ k - 1 \in Nat
        /\ (i + (k - 1)) + 1 = i + k
    BY <1>0, <1>1
  <2>2. i + (k - 1) \in 1 .. N
    <3>1. i + k \in 1 .. N + 1 /\ i + (k - 1) \in 1 .. N + 1
      BY <1>2, <2>1
    <3> QED
      BY <1>1, <2>1, <3>1
  <2>3. from[i + (k - 1)] = <<Encoded!Question>> \o from[i + k]
    BY <1>0, <1>4, <2>1, <2>2
  <2>4. from[i] = Row(k - 1) \o from[i + (k - 1)]
    BY <1>6
  <2>5. /\ Row(k - 1) \in Seq(S) /\ Row(k) = Row(k - 1) \o <<Encoded!Question>>
        /\ <<Encoded!Question>> \in Seq(S) /\ from[i + k] \in Seq(S)
    <3>1. from[i + k] \in Seq(S)
      BY <1>2, <1>3, <2>1
    <3>2. Row(k - 1) \in Seq(S) /\ Row(k) = Row(k - 1) \o <<Encoded!Question>>
      BY <2>1, RowIs
    <3> QED
      BY <3>1, <3>2
  <2>6. from[i] = Row(k) \o from[i + k]
    <3>1. (Row(k - 1) \o <<Encoded!Question>>) \o from[i + k] = Row(k - 1) \o (<<Encoded!Question>> \o from[i + k])
      <4> DEFINE r == Row(k - 1)
                 q == <<Encoded!Question>>
                 f == from[i + k]
      <4>1. r \in Seq(S) /\ q \in Seq(S) /\ f \in Seq(S)
        BY <2>5
      <4> HIDE DEF r, q, f, T
      <4>2. (r \o q) \o f = r \o (q \o f)
        BY <4>1, ConcatAssociative
      <4> QED
        BY <4>2 DEF r, q, f
    <3> QED
      BY <2>3, <2>4, <2>5, <3>1
  <2> QED
    BY <2>1, <2>6
<1>7. T = 0 .. m
  <2>1. T \in SUBSET (0 .. m)
    OBVIOUS
  <2> HIDE DEF T
  <2> QED
    BY <1>0, <1>5, <1>6, <2>1, InductionUpTo
<1>8. m \in T
  <2>1. m \in 0 .. m
    BY <1>0
  <2> HIDE DEF T
  <2> QED
    BY <1>7, <2>1
<1> QED
  BY <1>8 DEF Yields

\* The bytes of every code point of s.
Codes(s) == [k \in 1 .. Len(s) |-> Encoded!Encode(s[k])]

\* They are bytes.
LEMMA CodesAre ==
    ASSUME Encoded!Encodable, NEW s \in Seq(CodePoints)
    PROVE  /\ Codes(s) \in Seq(Seq(0 .. 255)) /\ Len(Codes(s)) = Len(s)
           /\ Encoded!EncodeAll(s) = Encoded!FlattenSeq(Codes(s))
           /\ \A k \in 1 .. Len(s) : /\ s[k] \in CodePoints /\ s[k] \in Nat
                                     /\ Codes(s)[k] = Encoded!Encode(s[k]) /\ IsCode(Codes(s)[k], s[k])
<1>1. Len(s) \in Nat /\ DOMAIN s = 1 .. Len(s)
  BY LenProperties
<1>2. \A k \in 1 .. Len(s) : s[k] \in CodePoints /\ s[k] \in Nat /\ s[k] =< Encoded!Ranges[6]
  BY ElementOfSeq DEF Encoded!Encodable
<1>3. \A k \in 1 .. Len(s) : Codes(s)[k] = Encoded!Encode(s[k]) /\ IsCode(Codes(s)[k], s[k])
  <2>1. \A k \in 1 .. Len(s) : Codes(s)[k] = Encoded!Encode(s[k])
    BY DEF Codes
  <2> QED
    BY <1>2, <2>1, Encodes
<1>4. ASSUME NEW e, NEW v, IsCode(e, v) PROVE e \in Seq(0 .. 255)
  <2>1. e \in Seq(Nat) /\ Len(e) \in Nat /\ \A i \in 1 .. Len(e) : e[i] \in 0 .. 255
    BY <1>4 DEF IsCode
  <2>2. e \in [1 .. Len(e) -> Nat]
    BY <2>1, LenProperties
  <2>3. e \in [1 .. Len(e) -> 0 .. 255]
    BY <2>1, <2>2
  <2> QED
    BY <2>1, <2>3
<1>5. Codes(s) \in Seq(Seq(0 .. 255)) /\ Len(Codes(s)) = Len(s)
  <2>1. \A k \in 1 .. Len(s) : Codes(s)[k] \in Seq(0 .. 255)
    BY <1>3, <1>4
  <2>2. Codes(s) = [k \in 1 .. Len(s) |-> Codes(s)[k]]
    BY DEF Codes
  <2>3. Codes(s) \in [1 .. Len(s) -> Seq(0 .. 255)]
    BY <2>1, <2>2
  <2> QED
    BY <1>1, <2>3
<1>6. Encoded!EncodeAll(s) = Encoded!FlattenSeq(Codes(s))
  BY <1>1 DEF Encoded!EncodeAll, Codes
<1> QED
  BY <1>2, <1>3, <1>5, <1>6

\* b are the bytes of s, those of the k-th code point lie behind the first places[k - 1].
Written(s, b, places) ==
    /\ b = Encoded!EncodeAll(s) /\ b \in Seq(0 .. 255) /\ b \in Seq(Nat)
    /\ places \in [0 .. Len(s) -> Nat] /\ places[0] = 0 /\ places[Len(s)] = Len(b)
    /\ \A i, k \in 0 .. Len(s) : i =< k => places[i] =< places[k]
    /\ \A k \in 1 .. Len(s) :
           /\ s[k] \in Nat /\ IsCode(Encoded!Encode(s[k]), s[k])
           /\ places[k] = places[k - 1] + Len(Encoded!Encode(s[k]))
           /\ Len(Encoded!EncodeAll(SubSeq(s, 1, k - 1))) = places[k - 1]
           /\ \A j \in 1 .. Len(Encoded!Encode(s[k])) : b[places[k - 1] + j] = Encoded!Encode(s[k])[j]

\* The code points of a text are written one after the other.
LEMMA WrittenIs ==
    ASSUME Encoded!Encodable, NEW s \in Seq(CodePoints)
    PROVE  \E places : Written(s, Encoded!EncodeAll(s), places)
<1> DEFINE w == Codes(s)
           n == Len(s)
<1>1. n \in Nat
  BY LenProperties
<1>2. /\ w \in Seq(Seq(0 .. 255)) /\ Len(w) = n /\ Encoded!EncodeAll(s) = Encoded!FlattenSeq(w)
      /\ \A k \in 1 .. n : /\ s[k] \in CodePoints /\ s[k] \in Nat
                           /\ w[k] = Encoded!Encode(s[k]) /\ IsCode(w[k], s[k])
  BY CodesAre
<1> HIDE DEF w
<1>3. PICK flat : flat \in [0 .. n -> Seq(0 .. 255)] /\ Flattens(flat, w)
  BY <1>2, FlattensExists
<1> DEFINE places == [i \in 0 .. n |-> Len(flat[i])]
           b == Encoded!EncodeAll(s)
<1>4. b = flat[n]
  BY <1>2, <1>3, FlattenIs
<1> HIDE DEF b
<1>5. \A x : x \in Seq(0 .. 255) => x \in Seq(Nat)
  <2>1. 0 .. 255 \subseteq Nat
    OBVIOUS
  <2> QED
    BY <2>1, SeqMonotonic
<1>6. b \in Seq(0 .. 255) /\ b \in Seq(Nat) /\ w \in Seq(Seq(Nat)) /\ flat \in [0 .. n -> Seq(Nat)]
  <2>1. b \in Seq(0 .. 255)
    BY <1>1, <1>3, <1>4
  <2>2. Seq(0 .. 255) \subseteq Seq(Nat)
    BY <1>5
  <2>3. w \in Seq(Seq(Nat))
    BY <1>2, <2>2, SeqMonotonic
  <2>4. \A i \in 0 .. n : flat[i] \in Seq(Nat)
    BY <1>3, <2>2
  <2> QED
    BY <1>3, <2>1, <2>2, <2>3, <2>4
<1>7. Laid(places, b, w, 0, n)
  BY <1>2, <1>3, <1>4, <1>6, FlattenLaid
<1>8. /\ places \in [0 .. n -> Nat] /\ places[0] = 0 /\ places[n] = Len(b)
      /\ \A i, k \in 0 .. n : i =< k => places[i] =< places[k]
      /\ \A i \in 1 .. n : Len(w[i]) \in Nat /\ places[i] = places[i - 1] + Len(w[i])
      /\ \A i \in 1 .. n : \A j \in 1 .. Len(w[i]) : b[places[i - 1] + j] = w[i][j]
  <2>1. 0 + 1 = 1
    OBVIOUS
  <2> HIDE DEF places, n
  <2> QED
    BY <1>7, <2>1 DEF Laid
<1>9. ASSUME NEW k \in 1 .. n PROVE Len(Encoded!EncodeAll(SubSeq(s, 1, k - 1))) = places[k - 1]
  <2> DEFINE t == SubSeq(s, 1, k - 1)
             first == Codes(t)
  <2>1. k - 1 \in 0 .. n /\ k - 1 \in Nat /\ \A i \in 1 .. k - 1 : i \in 1 .. n
    BY <1>1
  <2>2. t \in Seq(CodePoints) /\ Len(t) = k - 1 /\ \A i \in 1 .. k - 1 : t[i] = s[i]
    <3>1. \A i \in 1 .. k - 1 : s[i] \in CodePoints
      BY <1>2, <2>1
    <3>2. 1 \in Int /\ k - 1 \in Int /\ (k - 1) - 1 + 1 = k - 1 /\ (~(1 =< k - 1) => k - 1 = 0)
          /\ \A i \in 1 .. k - 1 : 1 + i - 1 = i
      BY <2>1
    <3>3. /\ t \in Seq(CodePoints) /\ Len(t) = IF 1 =< k - 1 THEN (k - 1) - 1 + 1 ELSE 0
          /\ \A i \in 1 .. (k - 1) - 1 + 1 : t[i] = s[1 + i - 1]
      BY <3>1, <3>2, SubSeqProperties
    <3> HIDE DEF t
    <3> QED
      BY <3>2, <3>3
  <2> HIDE DEF t
  <2>3. /\ first \in Seq(Seq(0 .. 255)) /\ Len(first) = k - 1 /\ Encoded!EncodeAll(t) = Encoded!FlattenSeq(first)
        /\ \A i \in 1 .. k - 1 : first[i] = Encoded!Encode(t[i])
    BY <2>2, CodesAre
  <2> HIDE DEF first
  <2>4. \A i \in 1 .. k - 1 : first[i] = w[i]
    BY <1>2, <2>1, <2>2, <2>3
  <2>5. Encoded!FlattenSeq(first) = flat[k - 1]
    <3>1. /\ flat \in [0 .. Len(w) -> Seq(0 .. 255)] /\ w \in Seq(Seq(0 .. 255))
          /\ Flattens(flat, w)
      BY <1>2, <1>3
    <3>2. first \in Seq(Seq(0 .. 255)) /\ Len(first) = k - 1
      BY <2>3
    <3>3. FirstOf(first, w)
      BY <1>2, <2>1, <2>4, <3>2 DEF FirstOf
    <3> HIDE DEF n, places
    <3>4. ASSUME NEW x \in Seq(Seq(0 .. 255)), FirstOf(x, w) PROVE Encoded!FlattenSeq(x) = flat[Len(x)]
      BY <3>1, <3>4, FlattenFirst
    <3>5. Encoded!FlattenSeq(first) = flat[Len(first)]
      BY <3>2, <3>3, <3>4
    <3> QED
      BY <3>2, <3>5
  <2> QED
    BY <2>1, <2>3, <2>5 DEF t
<1>10. Written(s, b, places)
  <2> HIDE DEF places
  <2>1. b = Encoded!EncodeAll(s)
    BY DEF b
  <2>2. \A k \in 1 .. n : w[k] = Encoded!Encode(s[k])
    BY <1>2
  <2> QED
    BY <1>2, <1>6, <1>8, <1>9, <2>1, <2>2 DEF Written
<1> QED
  BY <1>10 DEF b

\* Where the reading of the bytes a to z is when x bytes of the text lie behind it,
\* those before a and behind z left out.
At(x, a, z) == IF x + 1 < a THEN 1 ELSE IF x > z THEN z - a + 2 ELSE x - a + 2

\* The places of the bytes of one code point among those read.
LEMMA AtIs ==
    ASSUME NEW a \in Nat \ {0}, NEW z \in Nat, a =< z + 1, NEW x \in Nat, NEW l \in Nat
    PROVE  /\ At(x, a, z) \in 1 .. z - a + 2 /\ At(x + l, a, z) \in 1 .. z - a + 2
           /\ At(x, a, z) =< At(x + l, a, z)
           /\ (x + 1 .. x + l) \cap (a .. z) = At(x, a, z) + a - 1 .. At(x + l, a, z) + a - 2
<1>1. At(x, a, z) \in 1 .. z - a + 2 /\ At(x + l, a, z) \in 1 .. z - a + 2 /\ At(x, a, z) =< At(x + l, a, z)
  BY DEF At
<1>2. ASSUME NEW i \in Int
      PROVE  i \in (x + 1 .. x + l) \cap (a .. z) <=> i \in At(x, a, z) + a - 1 .. At(x + l, a, z) + a - 2
  BY DEF At
<1>3. (x + 1 .. x + l) \cap (a .. z) = At(x, a, z) + a - 1 .. At(x + l, a, z) + a - 2
  BY <1>1, <1>2
<1> QED
  BY <1>1, <1>3

\* At the two ends of the text, and where all bytes of a code point are read.
LEMMA AtEnds ==
    \A a \in Nat \ {0}, z \in Nat : a =< z + 1 =>
        /\ At(0, a, z) = 1
        /\ \A n \in Nat : z =< n => At(n, a, z) = z - a + 2
BY DEF At
\* Where a code point that is there in full is read.
LEMMA AtWhole ==
    ASSUME NEW a \in Nat \ {0}, NEW z \in Nat, NEW x \in Nat, NEW l \in Nat,
           a =< x + 1, x + l =< z, 1 =< l
    PROVE  At(x, a, z) = x - a + 2 /\ At(x + l, a, z) = (x - a + 2) + l
<1>1. ~(x + 1 < a) /\ ~(x > z) /\ ~(x + l + 1 < a) /\ ~(x + l > z) /\ (x + l) - a + 2 = (x - a + 2) + l
  OBVIOUS
<1> QED
  BY <1>1 DEF At

\* What the bytes a to z give of the k-th code point.
Piece(k, a, z) ==
    IF Encoded!BytesOf(k) \subseteq a .. z THEN <<text[k]>>
    ELSE Row(Cardinality(Encoded!BytesOf(k) \cap a .. z))

\* b are read from the bytes a to z of the text.
ReadFrom(b, a, z) ==
    /\ a \in Nat \ {0} /\ z \in Nat /\ a =< z + 1 /\ z =< Len(bytes)
    /\ b \in Seq(Nat) /\ Len(b) = z - a + 1 /\ \A i \in 1 .. z - a + 1 : b[i] = bytes[a + i - 1]

\* Numbers of the places of one code point.
LEMMA PlacesRead ==
    \A a \in Nat \ {0}, z, x, l \in Nat : a =< x + 1 /\ x + l =< z /\ 1 =< l =>
        /\ x - a + 2 \in 1 .. z - a + 1 /\ (z - a + 1) - (x - a + 2) + 1 = z - x
        /\ \A j \in 1 .. l : /\ (x - a + 2) + j - 1 \in 1 .. z - a + 1
                             /\ a + ((x - a + 2) + j - 1) - 1 = x + j
OBVIOUS

\* A code point that is there in full is read, and nothing of the next one.
LEMMA ReadWhole ==
    ASSUME NEW places, Written(text, bytes, places), NEW b, NEW a, NEW z, ReadFrom(b, a, z),
           NEW from, Loops(from, b), NEW k \in 1 .. Len(text),
           Encoded!BytesOf(k) \subseteq a .. z
    PROVE  Yields(from, At(places[k - 1], a, z), <<text[k]>>, At(places[k], a, z))
<1> DEFINE e == Encoded!Encode(text[k])
           l == Len(e)
           x == places[k - 1]
           i == x - a + 2
<1>1. /\ k - 1 \in 0 .. Len(text) /\ k \in 0 .. Len(text)
      /\ places \in [0 .. Len(text) -> Nat] /\ places[Len(text)] = Len(bytes) /\ places[k] = x + l
      /\ \A j \in 1 .. l : bytes[x + j] = e[j]
      /\ text[k] \in Nat /\ IsCode(e, text[k])
      /\ Encoded!BytesOf(k) = x + 1 .. x + l
  <2>1. /\ places \in [0 .. Len(text) -> Nat] /\ places[Len(text)] = Len(bytes) /\ places[k] = x + l
        /\ \A j \in 1 .. l : bytes[x + j] = e[j]
        /\ text[k] \in Nat /\ IsCode(e, text[k])
        /\ Len(Encoded!EncodeAll(SubSeq(text, 1, k - 1))) = x
    BY DEF Written
  <2>2. Encoded!BytesOf(k) = x + 1 .. x + l
    BY <2>1 DEF Encoded!BytesOf
  <2>3. k - 1 \in 0 .. Len(text) /\ k \in 0 .. Len(text)
    OBVIOUS
  <2> QED
    BY <2>1, <2>2, <2>3
<1>2. /\ a \in Nat \ {0} /\ z \in Nat /\ a =< z + 1 /\ z =< Len(bytes)
      /\ b \in Seq(Nat) /\ Len(b) = z - a + 1 /\ \A j \in 1 .. z - a + 1 : b[j] = bytes[a + j - 1]
  BY DEF ReadFrom
<1>3. /\ l \in 1 .. 6 /\ l \in Nat /\ Encoded!SizesOf(e[1]) = l
  <2>1. l \in 1 .. 6 /\ Encoded!SizesOf(e[1]) = l
    BY <1>1 DEF IsCode
  <2>2. \A y \in 1 .. 6 : y \in Nat
    OBVIOUS
  <2> QED
    BY <2>1, <2>2
<1>4. x \in Nat
  BY <1>1
<1> HIDE DEF e, l, x
<1>5. a =< x + 1 /\ x + l =< z
  <2>1. x + 1 \in x + 1 .. x + l /\ x + l \in x + 1 .. x + l
    BY <1>3, <1>4
  <2>2. x + 1 \in a .. z /\ x + l \in a .. z
    BY <1>1, <2>1
  <2> QED
    BY <1>2, <1>4, <2>2
<1>6. At(x, a, z) = i /\ At(x + l, a, z) = i + l
  <2>1. 1 =< l
    BY <1>3
  <2>2. a \in Nat \ {0} /\ z \in Nat /\ l \in Nat
    BY <1>2, <1>3
  <2>3. At(x, a, z) = x - a + 2 /\ At(x + l, a, z) = (x - a + 2) + l
    BY <1>4, <1>5, <2>1, <2>2, AtWhole
  <2> QED
    BY <2>3
<1>7. /\ i \in 1 .. Len(b) /\ Len(b) - i + 1 = z - x
      /\ \A j \in 1 .. l : i + j - 1 \in 1 .. z - a + 1 /\ a + (i + j - 1) - 1 = x + j
  <2>1. 1 =< l
    BY <1>3
  <2>2. /\ i \in 1 .. z - a + 1 /\ (z - a + 1) - i + 1 = z - x
        /\ \A j \in 1 .. l : i + j - 1 \in 1 .. z - a + 1 /\ a + (i + j - 1) - 1 = x + j
    BY <1>2, <1>3, <1>4, <1>5, <2>1, PlacesRead
  <2> HIDE DEF i
  <2> QED
    BY <1>2, <2>2
<1> HIDE DEF i
<1>8. \A j \in 1 .. l : b[i + j - 1] = e[j]
  BY <1>1, <1>2, <1>7
<1>9. b[i] = e[1]
  <2>1. 1 \in 1 .. l /\ i + 1 - 1 = i
    BY <1>3, <1>7
  <2> QED
    BY <1>8, <2>1
<1>10. Encoded!Used(b, i) = l
  <2>1. ~(z - x < l)
    BY <1>2, <1>3, <1>4, <1>5
  <2> QED
    BY <1>3, <1>7, <1>9, <2>1 DEF Encoded!Used
<1>11. Encoded!Decoded(b, i) = text[k]
  BY <1>1, <1>2, <1>7, <1>8, <1>10, DecodedIs DEF l
<1>12. from[i] = <<Encoded!Decoded(b, i)>> \o from[i + Encoded!Used(b, i)]
  <2>1. i \in 1 .. Len(b) + 1 /\ ~(i > Len(b)) /\ l # 0
    <3>1. \A y \in 1 .. 6 : y # 0
      OBVIOUS
    <3>2. Len(b) \in Nat
      BY <1>2, LenProperties
    <3>3. i \in 1 .. Len(b) + 1 /\ ~(i > Len(b))
      BY <1>7, <3>2
    <3> QED
      BY <1>3, <3>1, <3>3
  <2> QED
    BY <1>10, <2>1 DEF Loops
<1>13. Yields(from, At(x, a, z), <<text[k]>>, At(x + l, a, z))
  BY <1>6, <1>10, <1>11, <1>12 DEF Yields
<1> QED
  BY <1>1, <1>13 DEF x

\* Each byte that is there of a code point that was cut is marked.
LEMMA ReadCut ==
    ASSUME NEW places, Written(text, bytes, places),
           NEW b, NEW a, NEW z, ReadFrom(b, a, z), NEW S, Encoded!Question \in S,
           NEW from \in [1 .. Len(b) + 1 -> Seq(S)], Loops(from, b),
           NEW k \in 1 .. Len(text), ~(Encoded!BytesOf(k) \subseteq a .. z)
    PROVE  Yields(from, At(places[k - 1], a, z), Row(Cardinality(Encoded!BytesOf(k) \cap a .. z)),
                  At(places[k], a, z))
<1> DEFINE e == Encoded!Encode(text[k])
           l == Len(e)
           x == places[k - 1]
           i == At(x, a, z)
           m == At(x + l, a, z) - i
<1>1. /\ places \in [0 .. Len(text) -> Nat] /\ places[k] = x + l
      /\ \A j \in 1 .. l : bytes[x + j] = e[j]
      /\ IsCode(e, text[k])
      /\ Encoded!BytesOf(k) = x + 1 .. x + l
  <2>1. /\ places \in [0 .. Len(text) -> Nat] /\ places[k] = x + l
        /\ \A j \in 1 .. l : bytes[x + j] = e[j]
        /\ IsCode(e, text[k])
        /\ Len(Encoded!EncodeAll(SubSeq(text, 1, k - 1))) = x
    BY DEF Written
  <2>2. Encoded!BytesOf(k) = x + 1 .. x + l
    BY <2>1 DEF Encoded!BytesOf
  <2> QED
    BY <2>1, <2>2
<1>2. /\ a \in Nat \ {0} /\ z \in Nat /\ a =< z + 1 /\ z =< Len(bytes)
      /\ b \in Seq(Nat) /\ Len(b) = z - a + 1 /\ \A j \in 1 .. z - a + 1 : b[j] = bytes[a + j - 1]
  BY DEF ReadFrom
<1>3. /\ l \in 1 .. 6 /\ l \in Nat /\ Encoded!SizesOf(e[1]) = l
      /\ \A j \in 2 .. l : Encoded!SizesOf(e[j]) = 0
  <2>1. l \in 1 .. 6 /\ Encoded!SizesOf(e[1]) = l /\ \A j \in 2 .. l : Encoded!SizesOf(e[j]) = 0
    BY <1>1 DEF IsCode
  <2>2. \A y \in 1 .. 6 : y \in Nat
    OBVIOUS
  <2> QED
    BY <2>1, <2>2
<1>4. x \in Nat
  <2>1. k - 1 \in 0 .. Len(text)
    OBVIOUS
  <2> QED
    BY <1>1, <2>1
<1> HIDE DEF e, l, x, i, m
<1>5. /\ i \in 1 .. z - a + 2 /\ At(x + l, a, z) \in 1 .. z - a + 2 /\ i =< At(x + l, a, z)
      /\ (x + 1 .. x + l) \cap (a .. z) = i + a - 1 .. At(x + l, a, z) + a - 2
  <2>1. /\ At(x, a, z) \in 1 .. z - a + 2 /\ At(x + l, a, z) \in 1 .. z - a + 2
        /\ At(x, a, z) =< At(x + l, a, z)
        /\ (x + 1 .. x + l) \cap (a .. z) = At(x, a, z) + a - 1 .. At(x + l, a, z) + a - 2
    BY <1>2, <1>3, <1>4, AtIs, ZenonT(30)
  <2> QED
    BY <2>1, Zenon DEF i
<1>6. /\ m \in Nat /\ i + m = At(x + l, a, z) /\ i + m =< Len(b) + 1 /\ i \in 1 .. Len(b) + 1
  BY <1>2, <1>5 DEF m
<1>7. (x + 1 .. x + l) \cap (a .. z) = i + a - 1 .. i + m + a - 2
  BY <1>5, <1>6
<1>8. Cardinality((x + 1 .. x + l) \cap (a .. z)) = m
  <2> DEFINE u == i + a - 1
             v == i + m + a - 2
  <2>1. u \in Int /\ v \in Int /\ (u > v => m = 0) /\ (~(u > v) => v - u + 1 = m)
    BY <1>2, <1>5, <1>6
  <2> HIDE DEF u, v
  <2>2. Cardinality(u .. v) = IF u > v THEN 0 ELSE v - u + 1
    BY <2>1, FS_Interval
  <2>3. Cardinality(u .. v) = m
    BY <2>1, <2>2
  <2> QED
    BY <1>7, <2>3 DEF u, v
<1>9. ASSUME NEW j \in 0 .. m - 1 PROVE Encoded!Used(b, i + j) = 0
  <2> DEFINE g == a + (i + j) - 1
             h == g - x
  <2>1. g \in i + a - 1 .. i + m + a - 2
    BY <1>2, <1>5, <1>6
  <2>2. g \in x + 1 .. x + l /\ g \in a .. z
    BY <1>7, <2>1
  <2>3. /\ h \in 1 .. l /\ g = x + h /\ i + j \in 1 .. z - a + 1
        /\ (z - a + 1) - (i + j) + 1 = z - (x + h) + 1 /\ z - (x + h) + 1 \in Nat
    BY <1>2, <1>3, <1>4, <1>5, <1>6, <2>2
  <2> HIDE DEF h
  <2>4. b[i + j] = bytes[g]
    BY <1>2, <2>3
  <2> HIDE DEF g
  <2>5. b[i + j] = e[h]
    BY <1>1, <2>3, <2>4
  <2>6. Len(b) - (i + j) + 1 = z - (x + h) + 1
    BY <1>2, <2>3
  <2>7. CASE h = 1
    <3>1. ~(a =< x + 1 /\ x + l =< z)
      <4>1. a =< x + 1 /\ x + l =< z => (x + 1 .. x + l) \subseteq a .. z
        BY <1>2, <1>3, <1>4
      <4> QED
        BY <1>1, <4>1
    <3>2. x + 1 \in a .. z
      BY <2>2, <2>3, <2>7
    <3>3. z - (x + h) + 1 < l
      BY <1>2, <1>3, <1>4, <2>7, <3>1, <3>2
    <3> QED
      BY <1>3, <2>5, <2>6, <2>7, <3>3 DEF Encoded!Used
  <2>8. CASE h # 1
    <3>1. h \in 2 .. l
      BY <1>3, <2>3, <2>8
    <3>2. ~(z - (x + h) + 1 < 0)
      BY <2>3
    <3> QED
      BY <1>3, <2>5, <2>6, <3>1, <3>2 DEF Encoded!Used
  <2> QED
    BY <2>7, <2>8
<1>10. Yields(from, i, Row(m), i + m)
  <2>1. Unread(b, i, m) /\ m \in Nat
    BY <1>6, <1>9 DEF Unread
  <2>2. i \in Nat
    BY <1>2, <1>5
  <2>3. b \in Seq(Nat)
    BY <1>2
  <2> QED
    BY <2>1, <2>2, <2>3, Marks
<1>11. Yields(from, i, Row(Cardinality(Encoded!BytesOf(k) \cap a .. z)), At(x + l, a, z))
  BY <1>1, <1>6, <1>8, <1>10
<1> QED
  BY <1>1, <1>11 DEF i, x

\* Any part of the bytes is a sequence of bytes to read.
LEMMA PartRead ==
    ASSUME bytes \in Seq(Nat), NEW a \in 1 .. Len(bytes) + 1, NEW z \in a - 1 .. Len(bytes)
    PROVE  ReadFrom(SubSeq(bytes, a, z), a, z)
<1> DEFINE b == SubSeq(bytes, a, z)
           n == Len(bytes)
<1>1. n \in Nat /\ \A i \in 1 .. n : bytes[i] \in Nat
  BY LenProperties, ElementOfSeq
<1>2. a \in 1 .. n + 1 /\ z \in a - 1 .. n
  OBVIOUS
<1> HIDE DEF n
<1>3. /\ a \in Nat \ {0} /\ z \in Nat /\ a =< z + 1 /\ z =< n
      /\ a \in Int /\ z \in Int /\ \A i \in a .. z : i \in 1 .. n
      /\ (~(a =< z) => z - a + 1 = 0)
  BY <1>1, <1>2
<1>4. \A i \in a .. z : bytes[i] \in Nat
  BY <1>1, <1>3
<1>5. /\ b \in Seq(Nat) /\ Len(b) = IF a =< z THEN z - a + 1 ELSE 0
      /\ \A i \in 1 .. z - a + 1 : b[i] = bytes[a + i - 1]
  BY <1>3, <1>4, SubSeqProperties
<1>6. Len(b) = z - a + 1
  BY <1>3, <1>5
<1> QED
  BY <1>3, <1>5, <1>6 DEF ReadFrom, n

\* The bytes of a code point that are read are finitely many.
LEMMA BytesRead ==
    ASSUME NEW places, Written(text, bytes, places), NEW k \in 1 .. Len(text), NEW a \in Int, NEW z \in Int
    PROVE  Cardinality(Encoded!BytesOf(k) \cap a .. z) \in Nat
<1> DEFINE x == Len(Encoded!EncodeAll(SubSeq(text, 1, k - 1)))
           l == Len(Encoded!Encode(text[k]))
<1>1. x + 1 \in Int /\ x + l \in Int
  <2>1. x = places[k - 1] /\ places \in [0 .. Len(text) -> Nat] /\ IsCode(Encoded!Encode(text[k]), text[k])
    BY DEF Written
  <2>2. l \in 1 .. 6
    BY <2>1 DEF IsCode
  <2>3. k - 1 \in 0 .. Len(text)
    OBVIOUS
  <2>4. x \in Nat
    BY <2>1, <2>3
  <2> HIDE DEF x, l
  <2> QED
    BY <2>2, <2>4
<1>2. Encoded!BytesOf(k) = x + 1 .. x + l
  BY DEF Encoded!BytesOf
<1> HIDE DEF x, l
<1>3. IsFiniteSet(x + 1 .. x + l)
  BY <1>1, FS_Interval
<1>4. IsFiniteSet(Encoded!BytesOf(k) \cap a .. z)
  BY <1>2, <1>3, FS_Intersection
<1> QED
  BY <1>4, FS_CardinalityType

\* What is to be read of the bytes a to z, piece by piece.
LEMMA ReadableIs ==
    ASSUME text \in Seq(CodePoints), NEW a, NEW z
    PROVE  Encoded!Readable(a, z) = Encoded!FlattenSeq([k \in 1 .. Len(text) |-> Piece(k, a, z)])
<1>1. DOMAIN text = 1 .. Len(text)
  BY LenProperties
<1>2. \A k : Encoded!Cardinality(Encoded!BytesOf(k) \cap a .. z) = Cardinality(Encoded!BytesOf(k) \cap a .. z)
  BY DEF Encoded!Cardinality, Cardinality
<1>3. \A k : Piece(k, a, z) = IF Encoded!BytesOf(k) \subseteq a .. z THEN <<text[k]>>
                              ELSE [n \in 1 .. Encoded!Cardinality(Encoded!BytesOf(k) \cap a .. z) |-> Encoded!Question]
  BY <1>2 DEF Piece, Row
<1> QED
  BY <1>1, <1>3 DEF Encoded!Readable

\* Any part of what was written is read as the code points that are in it.
LEMMA PartReadsBack ==
    ASSUME Encoded!Encodable, text \in Seq(CodePoints), bytes = Encoded!EncodeAll(text),
           NEW a, NEW z, ReadFrom(SubSeq(bytes, a, z), a, z)
    PROVE  Encoded!Decode(SubSeq(bytes, a, z)) = Encoded!Readable(a, z)
<1> DEFINE n == Len(text)
           c == SubSeq(bytes, a, z)
           V == {Encoded!Question} \cup {Encoded!Decoded(c, i) : i \in 1 .. Len(c)} \cup CodePoints
           pieces == [k \in 1 .. n |-> Piece(k, a, z)]
<1>1. n \in Nat /\ \A k \in 1 .. n : text[k] \in CodePoints
  BY LenProperties, ElementOfSeq
<1>2. PICK places : Written(text, bytes, places)
  BY WrittenIs
<1>3. /\ places \in [0 .. n -> Nat] /\ places[0] = 0 /\ places[n] = Len(bytes) /\ bytes \in Seq(Nat)
  BY <1>2 DEF Written
<1>4. ReadFrom(c, a, z)
  OBVIOUS
<1>5. /\ a \in Nat \ {0} /\ z \in Nat /\ a =< z + 1 /\ z =< Len(bytes) /\ Len(bytes) \in Nat
      /\ c \in Seq(Nat) /\ Len(c) = z - a + 1
  BY <1>3, <1>4, LenProperties DEF ReadFrom
<1>6. /\ Encoded!Question \in V /\ \A i \in 1 .. Len(c) : Encoded!Decoded(c, i) \in V
      /\ \A v \in CodePoints : v \in V
  OBVIOUS
<1> HIDE DEF c, V, n
<1>0. \A s, p, r \in Seq(V) : (s \o p) \o r = s \o (p \o r)
  BY ConcatAssociative
<1>7. PICK from \in [1 .. Len(c) + 1 -> Seq(V)] : Loops(from, c) /\ Encoded!Decode(c) = from[1]
  BY <1>5, <1>6, DecodeIs
<1>8. ASSUME NEW k \in 1 .. n PROVE Piece(k, a, z) \in Seq(V)
  <2>1. CASE Encoded!BytesOf(k) \subseteq a .. z
    <3>1. text[k] \in V
      BY <1>1, <1>6
    <3>2. <<text[k]>> \in Seq(V)
      BY <3>1
    <3> QED
      BY <2>1, <3>2 DEF Piece
  <2>2. CASE ~(Encoded!BytesOf(k) \subseteq a .. z)
    <3>1. a \in Int /\ z \in Int
      BY <1>5
    <3>2. Cardinality(Encoded!BytesOf(k) \cap a .. z) \in Nat
      BY <1>2, <3>1, BytesRead DEF n
    <3>3. Row(Cardinality(Encoded!BytesOf(k) \cap a .. z)) \in Seq(V)
      BY <1>6, <3>2, RowIs
    <3> QED
      BY <2>2, <3>3 DEF Piece
  <2> QED
    BY <2>1, <2>2
<1>9. pieces \in Seq(Seq(V)) /\ Len(pieces) = n /\ \A k \in 1 .. n : pieces[k] = Piece(k, a, z)
  <2>1. pieces \in [1 .. n -> Seq(V)]
    BY <1>8
  <2> QED
    BY <1>1, <2>1
<1>10. Encoded!Readable(a, z) = Encoded!FlattenSeq(pieces)
  BY ReadableIs DEF n
<1> HIDE DEF pieces
<1>11. PICK flat \in [0 .. n -> Seq(V)] : Flattens(flat, pieces)
  BY <1>9, FlattensExists
<1>12. Encoded!FlattenSeq(pieces) = flat[n]
  BY <1>9, <1>11, FlattenIs
<1>13. flat[0] = <<>> /\ \A k \in 1 .. n : flat[k] = flat[k - 1] \o Piece(k, a, z)
  BY <1>9, <1>11 DEF Flattens
<1>14. ASSUME NEW k \in 1 .. n
       PROVE  Yields(from, At(places[k - 1], a, z), Piece(k, a, z), At(places[k], a, z))
  <2>0. k \in 1 .. Len(text)
    BY DEF n
  <2>1. CASE Encoded!BytesOf(k) \subseteq a .. z
    <3>1. Yields(from, At(places[k - 1], a, z), <<text[k]>>, At(places[k], a, z))
      BY <1>2, <1>4, <1>7, <2>0, <2>1, ReadWhole
    <3> QED
      BY <2>1, <3>1 DEF Piece
  <2>2. CASE ~(Encoded!BytesOf(k) \subseteq a .. z)
    <3>1. Yields(from, At(places[k - 1], a, z), Row(Cardinality(Encoded!BytesOf(k) \cap a .. z)),
                 At(places[k], a, z))
      BY <1>2, <1>4, <1>6, <1>7, <2>0, <2>2, ReadCut
    <3> QED
      BY <2>2, <3>1 DEF Piece
  <2> QED
    BY <2>1, <2>2
<1>15. \A k \in 0 .. n : from[At(places[k], a, z)] \in Seq(V)
  <2>1. ASSUME NEW x \in Nat PROVE At(x, a, z) \in 1 .. Len(c) + 1
    <3>1. At(x, a, z) \in 1 .. z - a + 2
      BY <1>5, AtIs
    <3> QED
      BY <1>5, <3>1
  <2> QED
    BY <1>3, <1>7, <2>1
<1> DEFINE T == {k \in 0 .. n : from[1] = flat[k] \o from[At(places[k], a, z)]}
<1>16. 0 \in T
  <2>1. At(places[0], a, z) = 1 /\ 0 \in 0 .. n
    BY <1>1, <1>3, <1>5, AtEnds
  <2>2. <<>> \o from[At(places[0], a, z)] = from[At(places[0], a, z)]
    BY <1>15, <2>1, ConcatEmptySeq
  <2> QED
    BY <1>13, <2>1, <2>2
<1>17. ASSUME NEW k \in 1 .. n, k - 1 \in T PROVE k \in T
  <2>1. k \in 0 .. n /\ k - 1 \in 0 .. n
    BY <1>1
  <2> DEFINE f == flat[k - 1]
             p == Piece(k, a, z)
             r == from[At(places[k], a, z)]
  <2>2. f \in Seq(V) /\ p \in Seq(V) /\ r \in Seq(V)
    BY <1>8, <1>11, <1>15, <2>1
  <2>3. from[1] = f \o (p \o r)
    BY <1>14, <1>17 DEF Yields
  <2>4. flat[k] = f \o p
    BY <1>13
  <2> HIDE DEF f, p, T
  <2>5. from[1] = flat[k] \o r
    <3> HIDE DEF r
    <3>1. (f \o p) \o r = f \o (p \o r)
      BY <1>0, <2>2
    <3> QED
      BY <2>3, <2>4, <3>1
  <2> QED
    BY <2>1, <2>5 DEF T
<1>18. T = 0 .. n
  <2>1. T \in SUBSET (0 .. n)
    OBVIOUS
  <2> HIDE DEF T
  <2> QED
    BY <1>1, <1>16, <1>17, <2>1, InductionUpTo
<1>19. from[1] = flat[n]
  <2>1. n \in 0 .. n
    BY <1>1
  <2>2. from[1] = flat[n] \o from[At(places[n], a, z)]
    BY <1>18, <2>1
  <2>3. At(places[n], a, z) = z - a + 2
    BY <1>3, <1>5, AtEnds
  <2>4. z - a + 2 = Len(c) + 1 /\ Len(c) + 1 \in 1 .. Len(c) + 1 /\ Len(c) + 1 > Len(c)
    BY <1>5
  <2>5. from[Len(c) + 1] = <<>>
    BY <1>7, <2>4 DEF Loops
  <2>6. flat[n] \o <<>> = flat[n]
    BY <1>11, <2>1, ConcatEmptySeq
  <2> QED
    BY <2>2, <2>3, <2>4, <2>5, <2>6
<1>20. Encoded!Decode(c) = Encoded!Readable(a, z)
  BY <1>7, <1>10, <1>12, <1>19
<1> QED
  BY <1>20 DEF c

\* One more code point is written behind the others.
LEMMA EncodesMore ==
    ASSUME Encoded!Encodable, NEW s \in Seq(CodePoints), NEW v \in CodePoints
    PROVE  Encoded!EncodeAll(Append(s, v)) = Encoded!EncodeAll(s) \o Encoded!Encode(v)
<1> DEFINE more == Append(s, v)
           n == Len(s)
<1>1. /\ more \in Seq(CodePoints) /\ Len(more) = n + 1 /\ more[n + 1] = v /\ n \in Nat
      /\ \A k \in 1 .. n : more[k] = s[k]
  OBVIOUS
<1> HIDE DEF more
<1> DEFINE w == Codes(more)
           first == Codes(s)
<1>2. /\ w \in Seq(Seq(0 .. 255)) /\ Len(w) = n + 1 /\ Encoded!EncodeAll(more) = Encoded!FlattenSeq(w)
      /\ \A k \in 1 .. n + 1 : w[k] = Encoded!Encode(more[k])
  BY <1>1, CodesAre
<1>3. /\ first \in Seq(Seq(0 .. 255)) /\ Len(first) = n /\ Encoded!EncodeAll(s) = Encoded!FlattenSeq(first)
      /\ \A k \in 1 .. n : first[k] = Encoded!Encode(s[k])
  BY CodesAre
<1> HIDE DEF w, first, n
<1>4. PICK flat : flat \in [0 .. Len(w) -> Seq(0 .. 255)] /\ Flattens(flat, w)
  BY <1>2, FlattensExists
<1>5. Encoded!FlattenSeq(w) = flat[n + 1]
  BY <1>2, <1>4, FlattenIs
<1>6. n + 1 \in 1 .. n + 1 /\ (n + 1) - 1 = n /\ n =< n + 1 /\ \A k \in 1 .. n : k \in 1 .. n + 1
  BY <1>1
<1>7. flat[n + 1] = flat[n] \o Encoded!Encode(v)
  BY <1>1, <1>2, <1>4, <1>6 DEF Flattens
<1>8. Encoded!FlattenSeq(first) = flat[n]
  <2>1. FirstOf(first, w)
    BY <1>1, <1>2, <1>3, <1>6 DEF FirstOf
  <2>2. ASSUME NEW x \in Seq(Seq(0 .. 255)), FirstOf(x, w) PROVE Encoded!FlattenSeq(x) = flat[Len(x)]
    BY <1>2, <1>4, <2>2, FlattenFirst
  <2> QED
    BY <1>3, <2>1, <2>2
<1> QED
  BY <1>2, <1>3, <1>5, <1>7, <1>8 DEF more

\* Sequences of one make the sequence.
LEMMA SinglesMake ==
    ASSUME NEW S, NEW s \in Seq(S)
    PROVE  Encoded!FlattenSeq([k \in 1 .. Len(s) |-> <<s[k]>>]) = s
<1> DEFINE n == Len(s)
           w == [k \in 1 .. n |-> <<s[k]>>]
           flat == [k \in 0 .. n |-> SubSeq(s, 1, k)]
<1>1. n \in Nat /\ \A k \in 1 .. n : s[k] \in S
  BY LenProperties, ElementOfSeq
<1>2. w \in Seq(Seq(S)) /\ Len(w) = n /\ \A k \in 1 .. n : w[k] = <<s[k]>>
  <2>1. \A k \in 1 .. n : <<s[k]>> \in Seq(S)
    BY <1>1
  <2>2. w \in [1 .. n -> Seq(S)]
    BY <2>1
  <2> QED
    BY <1>1, <2>2
<1>3. flat \in [0 .. n -> Seq(S)]
  <2>1. ASSUME NEW k \in 0 .. n PROVE SubSeq(s, 1, k) \in Seq(S)
    <3>1. 1 \in Int /\ k \in Int /\ \A i \in 1 .. k : s[i] \in S
      BY <1>1
    <3> QED
      BY <3>1, SubSeqProperties
  <2> QED
    BY <2>1
<1>4. ASSUME NEW k \in 1 .. n PROVE flat[k] = flat[k - 1] \o w[k]
  <2>1. 1 \in 1 .. Len(s) /\ k \in 1 .. Len(s) /\ k \in 0 .. n /\ k - 1 \in 0 .. n
    BY <1>1
  <2>2. SubSeq(s, 1, k) = SubSeq(s, 1, k - 1) \o <<s[k]>>
    BY <2>1, SubSeqRecursiveSecond
  <2> QED
    BY <1>2, <2>1, <2>2
<1>5. flat[0] = <<>> /\ flat[n] = s
  <2>1. 0 \in 0 .. n /\ n \in 0 .. n /\ 1 \in Int /\ 0 \in Int /\ 0 < 1
    BY <1>1
  <2>2. SubSeq(s, 1, 0) = <<>>
    BY <2>1, SubSeqEmpty
  <2>3. SubSeq(s, 1, n) = s
    BY SubSeqFull
  <2> QED
    BY <2>1, <2>2, <2>3
<1> HIDE DEF w, flat, n
<1>6. Flattens(flat, w)
  BY <1>2, <1>4, <1>5 DEF Flattens
<1>7. Encoded!FlattenSeq(w) = flat[n]
  BY <1>2, <1>3, <1>6, FlattenIs
<1> QED
  BY <1>5, <1>7 DEF w, n

\* Read as a whole, the bytes give the text.
LEMMA AllReadsBack ==
    ASSUME Encoded!Encodable, text \in Seq(CodePoints), bytes = Encoded!EncodeAll(text)
    PROVE  Encoded!Decode(bytes) = text
<1> DEFINE N == Len(bytes)
<1>1. PICK places : Written(text, bytes, places)
  BY WrittenIs
<1>2. /\ places \in [0 .. Len(text) -> Nat] /\ places[Len(text)] = N /\ bytes \in Seq(Nat)
      /\ \A i, k \in 0 .. Len(text) : i =< k => places[i] =< places[k]
  BY <1>1 DEF Written
<1>3. N \in Nat /\ Len(text) \in Nat
  BY <1>2, LenProperties
<1>4. ReadFrom(SubSeq(bytes, 1, N), 1, N)
  <2>1. 1 \in 1 .. N + 1 /\ N \in 1 - 1 .. N
    BY <1>3
  <2> QED
    BY <1>2, <2>1, PartRead
<1>5. SubSeq(bytes, 1, N) = bytes
  BY <1>2, SubSeqFull
<1>6. Encoded!Decode(bytes) = Encoded!Readable(1, N)
  <2>1. Encoded!Decode(SubSeq(bytes, 1, N)) = Encoded!Readable(1, N)
    BY <1>4, PartReadsBack
  <2> QED
    BY <1>5, <2>1
<1>7. ASSUME NEW k \in 1 .. Len(text) PROVE Piece(k, 1, N) = <<text[k]>>
  <2> DEFINE l == Len(Encoded!Encode(text[k]))
             x == places[k - 1]
  <2>1. /\ places[k] = x + l /\ Len(Encoded!EncodeAll(SubSeq(text, 1, k - 1))) = x
        /\ IsCode(Encoded!Encode(text[k]), text[k])
    BY <1>1 DEF Written
  <2>2. l \in 1 .. 6
    BY <2>1 DEF IsCode
  <2>3. k - 1 \in 0 .. Len(text) /\ k \in 0 .. Len(text) /\ Len(text) \in 0 .. Len(text) /\ k =< Len(text)
    BY <1>3
  <2>4. Encoded!BytesOf(k) = x + 1 .. x + l
    BY <2>1 DEF Encoded!BytesOf
  <2>5. x \in Nat /\ x + l =< N
    BY <1>2, <2>1, <2>3
  <2> HIDE DEF l, x, N
  <2>6. \A i \in x + 1 .. x + l : i \in 1 .. N
    BY <1>3, <2>2, <2>5
  <2>7. Encoded!BytesOf(k) \subseteq 1 .. N
    BY <2>4, <2>6
  <2> QED
    BY <2>7 DEF Piece
<1>8. Encoded!Readable(1, N) = Encoded!FlattenSeq([k \in 1 .. Len(text) |-> <<text[k]>>])
  <2>1. [k \in 1 .. Len(text) |-> Piece(k, 1, N)] = [k \in 1 .. Len(text) |-> <<text[k]>>]
    BY <1>7
  <2> QED
    BY <2>1, ReadableIs
<1> QED
  BY <1>6, <1>8, SinglesMake

\* Code points of 16 bits come back in 16 bits.
LEMMA Ucs2ReadsBack ==
    ASSUME Encoded!Encodable, text \in Seq(CodePoints), bytes = Encoded!EncodeAll(text),
           \A k \in DOMAIN text : text[k] < 65536
    PROVE  Encoded!EncodeAll(Encoded!DecodeUcs2(bytes)) = bytes
<1>1. /\ DOMAIN text = 1 .. Len(text) /\ text = [k \in 1 .. Len(text) |-> text[k]]
      /\ \A k \in 1 .. Len(text) : text[k] \in CodePoints
  BY LenProperties, ElementOfSeq
<1>2. \A v \in Nat : v < 65536 => v % 65536 = v
  OBVIOUS
<1>3. \A k \in 1 .. Len(text) : text[k] \in Nat /\ text[k] < 65536
  BY <1>1 DEF Encoded!Encodable
<1>4. [k \in 1 .. Len(text) |-> text[k] % 65536] = [k \in 1 .. Len(text) |-> text[k]]
  BY <1>2, <1>3
<1>5. Encoded!DecodeUcs2(bytes) = text
  <2>1. Encoded!DecodeUcs2(bytes) = [k \in 1 .. Len(text) |-> text[k] % 65536]
    BY <1>1, AllReadsBack DEF Encoded!DecodeUcs2
  <2> QED
    BY <1>1, <1>4, <2>1
<1> QED
  BY <1>5

\* A digit of either case is read as the number it stands for.
LEMMA HexDigits ==
    \A n \in 0 .. 15, letter \in {65, 97} :
        /\ Encoded!Digit(n, letter) \in Nat
        /\ Encoded!Char2Int(Encoded!Digit(n, letter)) = n
<1>1. ASSUME NEW n \in 0 .. 15, NEW letter \in {65, 97}
      PROVE  Encoded!Digit(n, letter) \in Nat /\ Encoded!Char2Int(Encoded!Digit(n, letter)) = n
  <2>1. CASE n < 10
    <3>1. Encoded!Digit(n, letter) = 48 + n
      BY <2>1 DEF Encoded!Digit
    <3>2. 48 =< 48 + n /\ 48 + n =< 57 /\ (48 + n) - 48 = n /\ 48 + n \in Nat
      BY <2>1
    <3> QED
      BY <3>1, <3>2 DEF Encoded!Char2Int
  <2>2. CASE ~(n < 10)
    <3> DEFINE c == letter + n - 10
    <3>1. Encoded!Digit(n, letter) = c
      BY <2>2 DEF Encoded!Digit
    <3>2. CASE letter = 97
      <4>1. c \in 97 .. 102 /\ c - 97 + 10 = n
        BY <2>2, <3>2
      <4> HIDE DEF c
      <4>2. Encoded!Char2Int(c) = c - 97 + 10
        BY <4>1 DEF Encoded!Char2Int
      <4>3. c \in Nat
        BY <4>1
      <4> QED
        BY <3>1, <4>1, <4>2, <4>3
    <3>3. CASE letter = 65
      <4>1. c \in 65 .. 70 /\ c - 65 + 10 = n
        BY <2>2, <3>3
      <4> HIDE DEF c
      <4>2. Encoded!Char2Int(c) = c - 65 + 10
        BY <4>1 DEF Encoded!Char2Int
      <4>3. c \in Nat
        BY <4>1
      <4> QED
        BY <3>1, <4>1, <4>2, <4>3
    <3> QED
      BY <3>2, <3>3
  <2> QED
    BY <2>1, <2>2
<1> QED
  BY <1>1

\* The letters that stand for ten.
FirstLetters == {65, 97}

\* The digits of a byte, and the byte that its digits make.
HexOf(x, letter) ==
    /\ Encoded!Digit(x \div 16, letter) \in Nat /\ Encoded!Digit(x % 16, letter) \in Nat
    /\ Encoded!Char2Int(Encoded!Digit(x \div 16, letter)) = x \div 16
    /\ Encoded!Char2Int(Encoded!Digit(x % 16, letter)) = x % 16
    /\ x \div 16 # 255 /\ x % 16 # 255
    /\ 16 * (x \div 16) + (x % 16) = x

\* They are right for every byte.
LEMMA HexByte ==
    ASSUME NEW x \in 0 .. 255, NEW letter \in FirstLetters
    PROVE  HexOf(x, letter)
<1>1. x \div 16 \in 0 .. 15 /\ x % 16 \in 0 .. 15 /\ 16 * (x \div 16) + (x % 16) = x
  OBVIOUS
<1>2. \A y \in 0 .. 15 : y # 255
  OBVIOUS
<1> DEFINE high == x \div 16
           low == x % 16
<1>3. high \in 0 .. 15 /\ low \in 0 .. 15
  BY <1>1
<1> HIDE DEF high, low
<1>4. /\ Encoded!Digit(high, letter) \in Nat /\ Encoded!Char2Int(Encoded!Digit(high, letter)) = high
      /\ Encoded!Digit(low, letter) \in Nat /\ Encoded!Char2Int(Encoded!Digit(low, letter)) = low
  BY <1>3, HexDigits DEF FirstLetters
<1> QED
  BY <1>1, <1>2, <1>3, <1>4 DEF high, low, HexOf

\* Twice a number.
LEMMA Twice ==
    \A n \in Nat : /\ (2 * n) % 2 = 0 /\ (2 * n) \div 2 = n
                   /\ \A j \in 1 .. 2 * n : \E i \in 1 .. n : j = 2 * i - 1 \/ j = 2 * i
<1>1. ASSUME NEW n \in Nat, NEW j \in 1 .. 2 * n PROVE \E i \in 1 .. n : j = 2 * i - 1 \/ j = 2 * i
  <2>1. /\ (j + 1) \div 2 \in 1 .. n
        /\ j = 2 * ((j + 1) \div 2) - 1 \/ j = 2 * ((j + 1) \div 2)
    OBVIOUS
  <2> QED
    BY <2>1
<1>2. ASSUME NEW n \in Nat PROVE (2 * n) % 2 = 0 /\ (2 * n) \div 2 = n
  OBVIOUS
<1> QED
  BY <1>1, <1>2

\* h is the hexadecimal text of b.
IsHex(h, b, letter) ==
    /\ h \in Seq(Nat) /\ Len(h) = 2 * Len(b)
    /\ \A i \in 1 .. Len(b) : /\ h[2 * i - 1] = Encoded!Digit(b[i] \div 16, letter)
                              /\ h[2 * i] = Encoded!Digit(b[i] % 16, letter)

\* Two digits for each byte, one byte after the other.
LEMMA HexIs ==
    ASSUME NEW b \in Seq(0 .. 255), NEW letter \in FirstLetters
    PROVE  IsHex(Encoded!ToHex(b, letter), b, letter)
<1> DEFINE n == Len(b)
           w == [i \in 1 .. n |-> <<Encoded!Digit(b[i] \div 16, letter), Encoded!Digit(b[i] % 16, letter)>>]
           h == Encoded!ToHex(b, letter)
<1>1. n \in Nat /\ DOMAIN b = 1 .. n /\ \A i \in 1 .. n : b[i] \in 0 .. 255
  BY LenProperties, ElementOfSeq
<1>2. h = Encoded!FlattenSeq(w)
  BY <1>1 DEF Encoded!ToHex
<1>3. ASSUME NEW i \in 1 .. n PROVE Encoded!Digit(b[i] \div 16, letter) \in Nat /\ Encoded!Digit(b[i] % 16, letter) \in Nat
  <2>1. b[i] \in 0 .. 255
    BY <1>1
  <2> HIDE DEF n, w, h
  <2>2. HexOf(b[i], letter)
    BY <2>1, HexByte, Zenon
  <2> QED
    BY <2>2, Zenon DEF HexOf
<1>4. /\ w \in Seq(Seq(Nat)) /\ Len(w) = n
      /\ \A i \in 1 .. n : /\ Len(w[i]) = 2 /\ w[i][1] = Encoded!Digit(b[i] \div 16, letter)
                           /\ w[i][2] = Encoded!Digit(b[i] % 16, letter)
  <2>1. \A i \in 1 .. n : w[i] \in Seq(Nat)
    BY <1>3
  <2>2. w \in [1 .. n -> Seq(Nat)]
    BY <2>1
  <2> QED
    BY <1>1, <2>2
<1> HIDE DEF w, h
<1>5. PICK flat \in [0 .. Len(w) -> Seq(Nat)] : Flattens(flat, w)
  BY <1>4, FlattensExists
<1>6. h = flat[n] /\ flat[n] \in Seq(Nat)
  <2>1. h = flat[Len(w)]
    BY <1>2, <1>4, <1>5, FlattenIs
  <2> QED
    BY <1>1, <1>4, <1>5, <2>1
<1> DEFINE places == [i \in 0 .. Len(w) |-> Len(flat[i])]
<1>7. Laid(places, flat[Len(w)], w, 0, Len(w))
  BY <1>4, <1>5, FlattenLaid
<1> HIDE DEF places, n
<1>8. Laid(places, h, w, 0, n)
  BY <1>4, <1>6, <1>7
<1>9. /\ places \in [0 .. n -> Nat] /\ places[0] = 0 /\ places[n] = Len(h)
      /\ \A i \in 1 .. n : places[i] = places[i - 1] + Len(w[i])
      /\ \A i \in 1 .. n : \A j \in 1 .. Len(w[i]) : h[places[i - 1] + j] = w[i][j]
  <2>1. 0 + 1 = 1
    OBVIOUS
  <2> QED
    BY <1>8, <2>1, ZenonT(30) DEF Laid
<1>10. ASSUME NEW i \in 1 .. n
       PROVE  /\ places[i] = places[i - 1] + 2
              /\ h[places[i - 1] + 1] = w[i][1] /\ h[places[i - 1] + 2] = w[i][2]
  <2>1. Len(w[i]) = 2
    BY <1>4
  <2>2. 1 \in 1 .. 2 /\ 2 \in 1 .. 2
    OBVIOUS
  <2>3. places[i] = places[i - 1] + Len(w[i]) /\ \A j \in 1 .. Len(w[i]) : h[places[i - 1] + j] = w[i][j]
    BY <1>9, Zenon
  <2> QED
    BY <2>1, <2>2, <2>3, Zenon
<1> DEFINE T == {i \in 0 .. n : places[i] = 2 * i}
<1>11. T = 0 .. n
  <2>1. 0 \in T
    BY <1>1, <1>9
  <2>2. ASSUME NEW i \in 1 .. n, i - 1 \in T PROVE i \in T
    <3>1. i \in 0 .. n /\ 2 * (i - 1) + 2 = 2 * i
      BY <1>1
    <3>2. places[i] = 2 * (i - 1) + 2
      BY <1>10, <2>2
    <3> QED
      BY <3>1, <3>2
  <2>3. T \in SUBSET (0 .. n)
    OBVIOUS
  <2> HIDE DEF T
  <2> QED
    BY <1>1, <2>1, <2>2, <2>3, InductionUpTo
<1>12. \A i \in 0 .. n : places[i] = 2 * i
  BY <1>11
<1>13. ASSUME NEW i \in 1 .. n PROVE h[2 * i - 1] = w[i][1] /\ h[2 * i] = w[i][2]
  <2>1. i - 1 \in 0 .. n /\ 2 * (i - 1) + 1 = 2 * i - 1 /\ 2 * (i - 1) + 2 = 2 * i
    BY <1>1
  <2>2. places[i - 1] = 2 * (i - 1)
    BY <1>12, <2>1
  <2> QED
    BY <1>10, <2>1, <2>2
<1>14. Len(h) = 2 * n
  <2>1. n \in 0 .. n
    BY <1>1
  <2> QED
    BY <1>9, <1>12, <2>1
<1> QED
  BY <1>4, <1>6, <1>13, <1>14 DEF IsHex, h, n

\* It is read as the bytes it was made of, and not at all when it was cut in one.
LEMMA HexReadsBack ==
    ASSUME NEW b \in Seq(0 .. 255), NEW letter \in FirstLetters, NEW h, IsHex(h, b, letter)
    PROVE  /\ Encoded!FromHex(h) = b
           /\ \A n \in DOMAIN h : n % 2 = 1 => Encoded!FromHex(SubSeq(h, 1, n)) = Encoded!Fail
<1>1. /\ h \in Seq(Nat) /\ Len(h) = 2 * Len(b)
      /\ \A i \in 1 .. Len(b) : /\ h[2 * i - 1] = Encoded!Digit(b[i] \div 16, letter)
                                /\ h[2 * i] = Encoded!Digit(b[i] % 16, letter)
  BY DEF IsHex
<1>2. /\ Len(b) \in Nat /\ \A i \in 1 .. Len(b) : b[i] \in 0 .. 255
      /\ b = [i \in 1 .. Len(b) |-> b[i]]
  BY LenProperties, ElementOfSeq
<1>3. DOMAIN h = 1 .. 2 * Len(b) /\ \A i \in 1 .. Len(h) : h[i] \in Nat
  BY <1>1, LenProperties, ElementOfSeq
<1>4. ASSUME NEW i \in 1 .. Len(b)
      PROVE  /\ Encoded!Char2Int(h[2 * i - 1]) = b[i] \div 16
             /\ Encoded!Char2Int(h[2 * i]) = b[i] % 16
             /\ b[i] \div 16 # 255 /\ b[i] % 16 # 255
             /\ 16 * (b[i] \div 16) + (b[i] % 16) = b[i]
  <2>1. b[i] \in 0 .. 255
    BY <1>2
  <2>2. h[2 * i - 1] = Encoded!Digit(b[i] \div 16, letter) /\ h[2 * i] = Encoded!Digit(b[i] % 16, letter)
    BY <1>1
  <2>3. HexOf(b[i], letter)
    BY <2>1, HexByte, Zenon
  <2> QED
    BY <2>2, <2>3, Zenon DEF HexOf
<1>5. ~\E j \in DOMAIN h : Encoded!Char2Int(h[j]) = 255
  <2>1. ASSUME NEW j \in 1 .. 2 * Len(b) PROVE Encoded!Char2Int(h[j]) # 255
    <3>1. PICK i \in 1 .. Len(b) : j = 2 * i - 1 \/ j = 2 * i
      BY <1>2, Twice
    <3>2. Encoded!Char2Int(h[2 * i - 1]) = b[i] \div 16 /\ b[i] \div 16 # 255
      BY <1>4, Zenon
    <3>3. Encoded!Char2Int(h[2 * i]) = b[i] % 16 /\ b[i] % 16 # 255
      BY <1>4, Zenon
    <3>4. Encoded!Char2Int(h[2 * i - 1]) # 255 /\ Encoded!Char2Int(h[2 * i]) # 255
      <4> DEFINE x == Encoded!Char2Int(h[2 * i - 1])
                 y == Encoded!Char2Int(h[2 * i])
      <4> HIDE DEF x, y
      <4>1. x = b[i] \div 16 /\ y = b[i] % 16
        BY <3>2, <3>3, Zenon DEF x, y
      <4>2. x # 255 /\ y # 255
        <5> DEFINE high == b[i] \div 16
                   low == b[i] % 16
        <5>1. x = high /\ y = low /\ high # 255 /\ low # 255
          BY <3>2, <3>3, <4>1, Zenon
        <5> HIDE DEF high, low
        <5> QED
          BY <5>1
      <4> QED
        BY <4>2 DEF x, y
    <3> QED
      BY <3>1, <3>4, Zenon
  <2> QED
    BY <1>3, <2>1
<1>6. (2 * Len(b)) % 2 = 0 /\ (2 * Len(b)) \div 2 = Len(b)
  BY <1>2, Twice
<1>7. Encoded!FromHex(h) = [i \in 1 .. Len(b) |-> 16 * Encoded!Char2Int(h[2 * i - 1]) + Encoded!Char2Int(h[2 * i])]
  <2>1. Len(h) % 2 = 0 /\ Len(h) \div 2 = Len(b)
    BY <1>1, <1>6
  <2>2. ~(Len(h) % 2 # 0 \/ \E j \in DOMAIN h : Encoded!Char2Int(h[j]) = 255)
    BY <1>5, <2>1
  <2> QED
    BY <2>1, <2>2 DEF Encoded!FromHex
<1>8. Encoded!FromHex(h) = b
  <2>1. ASSUME NEW i \in 1 .. Len(b)
        PROVE  16 * Encoded!Char2Int(h[2 * i - 1]) + Encoded!Char2Int(h[2 * i]) = b[i]
    BY <1>4
  <2>2. [i \in 1 .. Len(b) |-> 16 * Encoded!Char2Int(h[2 * i - 1]) + Encoded!Char2Int(h[2 * i])]
            = [i \in 1 .. Len(b) |-> b[i]]
    BY <2>1
  <2> QED
    BY <1>2, <1>7, <2>2
<1>9. ASSUME NEW n \in DOMAIN h, n % 2 = 1 PROVE Encoded!FromHex(SubSeq(h, 1, n)) = Encoded!Fail
  <2>1. n \in 1 .. Len(h) /\ 1 \in Int /\ n \in Int /\ 1 =< n /\ n - 1 + 1 = n /\ \A i \in 1 .. n : i \in 1 .. Len(h)
    BY <1>1, <1>2, <1>3
  <2>2. \A i \in 1 .. n : h[i] \in Nat
    BY <1>3, <2>1
  <2>3. Len(SubSeq(h, 1, n)) = IF 1 =< n THEN n - 1 + 1 ELSE 0
    BY <2>1, <2>2, SubSeqProperties
  <2>4. Len(SubSeq(h, 1, n)) = n
    BY <2>1, <2>3
  <2>5. 1 # 0
    OBVIOUS
  <2>6. Len(SubSeq(h, 1, n)) % 2 # 0
    BY <1>9, <2>4, <2>5, Zenon
  <2> QED
    BY <2>6 DEF Encoded!FromHex
<1> QED
  BY <1>8, <1>9

\* The bytes are those of the text.
TextInv == text \in Seq(CodePoints) /\ bytes = Encoded!EncodeAll(text)

\* They stay so.
LEMMA TextInvariant ==
    ASSUME Encoded!Encodable
    PROVE  Encoded!Spec => []TextInv
<1>1. Encoded!Init => TextInv
  <2>1. ASSUME Encoded!Init PROVE TextInv
    <3>1. text = <<>> /\ bytes = <<>>
      BY <2>1 DEF Encoded!Init
    <3>2. text \in Seq(CodePoints) /\ Len(text) = 0
      BY <3>1, EmptySeq
    <3>3. \A k \in DOMAIN text : FALSE
      BY <3>2
    <3>4. [k \in DOMAIN text |-> Encoded!Encode(text[k])] = <<>>
      BY <3>1
    <3>5. Encoded!EncodeAll(text) = <<>>
      BY <3>4 DEF Encoded!EncodeAll, Encoded!FlattenSeq
    <3> QED
      BY <3>1, <3>2, <3>5 DEF TextInv
  <2> QED
    BY <2>1
<1>2. TextInv /\ [Encoded!Next]_(Encoded!vars) => TextInv'
  <2>1. ASSUME TextInv, NEW ucs \in CodePoints, Encoded!Write(ucs) PROVE TextInv'
    <3>1. text' = Append(text, ucs) /\ bytes' = bytes \o Encoded!Encode(ucs)
      BY <2>1 DEF Encoded!Write
    <3>2. text \in Seq(CodePoints) /\ bytes = Encoded!EncodeAll(text)
      BY <2>1 DEF TextInv
    <3>3. text' \in Seq(CodePoints)
      BY <3>1, <3>2, AppendProperties
    <3>4. Encoded!EncodeAll(Append(text, ucs)) = Encoded!EncodeAll(text) \o Encoded!Encode(ucs)
      BY <3>2, EncodesMore
    <3>5. bytes' = Encoded!EncodeAll(text')
      BY <3>1, <3>2, <3>4, Zenon
    <3>6. Encoded!EncodeAll(text') = Encoded!EncodeAll(text)'
      OBVIOUS
    <3> QED
      BY <3>3, <3>5 DEF TextInv
  <2>2. ASSUME TextInv, UNCHANGED Encoded!vars PROVE TextInv'
    BY <2>2 DEF TextInv, Encoded!vars
  <2> QED
    BY <2>1, <2>2 DEF Encoded!Next
<1> QED
  BY <1>1, <1>2, PTL DEF Encoded!Spec

\* x is s from at on.
On(s, at, x) ==
    /\ s \in Seq(Nat) /\ x \in Seq(Nat) /\ at \in Nat \ {0} /\ at + Len(x) = Len(s) + 1
    /\ \A i \in 1 .. Len(x) : s[at + i - 1] = x[i]

\* A sequence is itself from its first on.
LEMMA OnAll == ASSUME NEW x \in Seq(Nat) PROVE On(x, 1, x)
<1>1. Len(x) \in Nat
  BY LenProperties
<1>2. \A i \in 1 .. Len(x) : 1 + i - 1 = i
  OBVIOUS
<1>3. \A i \in 1 .. Len(x) : x[1 + i - 1] = x[i]
  BY <1>2
<1> QED
  BY <1>1, <1>3 DEF On

\* What is left of it behind a beginning.
LEMMA OnDrop ==
    ASSUME NEW s, NEW at, NEW a \in Seq(Nat), NEW b \in Seq(Nat), On(s, at, a \o b)
    PROVE  On(s, at + Len(a), b)
<1>1. Len(a) \in Nat /\ Len(b) \in Nat
  BY LenProperties
<1>2. Len(a \o b) = Len(a) + Len(b)
  BY ConcatProperties
<1>3. \A i \in 1 .. Len(b) : (a \o b)[Len(a) + i] = b[i]
  <2>1. ASSUME NEW i \in 1 .. Len(b) PROVE (a \o b)[Len(a) + i] = b[i]
    <3>1. Len(a) + i \in 1 .. Len(a) + Len(b) /\ ~(Len(a) + i =< Len(a)) /\ (Len(a) + i) - Len(a) = i
      BY <1>1
    <3> QED
      BY <3>1, ConcatProperties
  <2> QED
    BY <2>1
<1>4. /\ s \in Seq(Nat) /\ at \in Nat \ {0} /\ at + (Len(a) + Len(b)) = Len(s) + 1
      /\ \A i \in 1 .. Len(a) + Len(b) : s[at + i - 1] = (a \o b)[i]
  BY <1>2 DEF On
<1>5. at + Len(a) \in Nat \ {0} /\ at + Len(a) + Len(b) = Len(s) + 1
  BY <1>1, <1>4
<1>6. ASSUME NEW i \in 1 .. Len(b) PROVE s[at + Len(a) + i - 1] = b[i]
  <2>1. Len(a) + i \in 1 .. Len(a) + Len(b) /\ at + (Len(a) + i) - 1 = at + Len(a) + i - 1
    BY <1>1, <1>4
  <2>2. s[at + (Len(a) + i) - 1] = (a \o b)[Len(a) + i]
    BY <1>4, <2>1
  <2> QED
    BY <1>3, <2>1, <2>2
<1> QED
  BY <1>4, <1>5, <1>6 DEF On

\* The first of it is one of C.
FirstIn(x, C) == x \in Seq(Nat) /\ Len(x) \in Nat \ {0} /\ x[1] \in C

\* It is the one read there.
LEMMA OnFirst ==
    ASSUME NEW s, NEW at, NEW x, NEW C, On(s, at, x), FirstIn(x, C)
    PROVE  s[at] = x[1] /\ s[at] \in C
<1>1. at \in Nat /\ at + 1 - 1 = at /\ 1 \in 1 .. Len(x)
  BY DEF On, FirstIn
<1>2. s[at + 1 - 1] = x[1]
  BY <1>1 DEF On
<1> QED
  BY <1>1, <1>2 DEF FirstIn

\* Behind nothing, or behind something that begins so too, it still begins so.
LEMMA FirstBehind ==
    ASSUME NEW a \in Seq(Nat), NEW b, NEW C, FirstIn(b, C), a = <<>> \/ a[1] \in C
    PROVE  FirstIn(a \o b, C)
<1>1. b \in Seq(Nat) /\ Len(b) \in Nat \ {0} /\ b[1] \in C
  BY DEF FirstIn
<1>2. Len(a) \in Nat /\ a \o b \in Seq(Nat) /\ Len(a \o b) = Len(a) + Len(b)
  BY <1>1, LenProperties, ConcatProperties
<1>3. CASE a = <<>>
  <2>1. a \o b = b
    BY <1>1, <1>3, ConcatEmptySeq
  <2> QED
    BY <2>1
<1>4. CASE a # <<>>
  <2>1. Len(a) \in Nat \ {0}
    BY <1>4, EmptySeq
  <2>2. 1 \in 1 .. Len(a) + Len(b) /\ 1 =< Len(a)
    BY <1>1, <2>1
  <2>3. (a \o b)[1] = a[1]
    BY <1>1, <2>2, ConcatProperties
  <2>4. Len(a) + Len(b) \in Nat \ {0}
    BY <1>1, <2>1
  <2> QED
    BY <1>2, <1>4, <2>3, <2>4 DEF FirstIn
<1> QED
  BY <1>3, <1>4

\* What is read of digits and what follows them: the digits, the first character behind
\* them, and where it goes on.
ReadsDigits(x, at, d, stop) ==
    /\ x.digits = d /\ x.stop = stop
    /\ x.at = IF stop = 0 THEN at + Len(d) ELSE at + Len(d) + 1

\* Digits are read up to the first character that is none.
LEMMA DigitsRead ==
    ASSUME NEW s, NEW at, NEW d \in Seq(48 .. 57), NEW r, NEW C, FirstIn(r, C),
           \A c \in C : ~Encoded!IsDigit(c), On(s, at, d \o r)
    PROVE  ReadsDigits(Encoded!Digits(s, at), at, d, r[1])
<1> DEFINE m == at + Len(d)
           IsLast(n) == ~Encoded!IsDigit(s[n]) /\ \A i \in at .. n - 1 : Encoded!IsDigit(s[i])
           last == CHOOSE n \in at .. Len(s) : IsLast(n)
<1>1. /\ Len(d) \in Nat /\ d \in Seq(Nat) /\ d = [i \in 1 .. Len(d) |-> d[i]]
      /\ \A i \in 1 .. Len(d) : d[i] \in 48 .. 57
  <2>1. \A i \in 1 .. Len(d) : d[i] \in 48 .. 57 /\ d[i] \in Nat
    BY ElementOfSeq
  <2>2. Len(d) \in Nat /\ d = [i \in 1 .. Len(d) |-> d[i]]
    BY LenProperties
  <2>3. [i \in 1 .. Len(d) |-> d[i]] \in Seq(Nat)
    BY <2>1, <2>2
  <2> QED
    BY <2>1, <2>2, <2>3
<1>2. r \in Seq(Nat) /\ Len(r) \in Nat \ {0} /\ r[1] \in C
  BY DEF FirstIn
<1>3. On(s, m, r)
  BY <1>1, <1>2, OnDrop
<1>4. s[m] = r[1] /\ ~Encoded!IsDigit(s[m])
  BY <1>3, OnFirst
<1>5. at \in Nat \ {0} /\ s \in Seq(Nat) /\ m \in Nat /\ m + Len(r) = Len(s) + 1 /\ Len(s) \in Nat
  <2>1. s \in Seq(Nat) /\ at \in Nat \ {0}
    BY DEF On
  <2> QED
    BY <1>3, <2>1, LenProperties DEF On
<1>6. m \in at .. Len(s)
  BY <1>1, <1>2, <1>5
<1>7. \A i \in 1 .. Len(d) : s[at + i - 1] = d[i]
  <2>1. Len(d \o r) = Len(d) + Len(r)
    BY <1>1, <1>2, ConcatProperties
  <2>2. ASSUME NEW i \in 1 .. Len(d) PROVE s[at + i - 1] = d[i]
    <3>1. i \in 1 .. Len(d) + Len(r) /\ i =< Len(d)
      BY <1>1, <1>2
    <3>2. s[at + i - 1] = (d \o r)[i]
      BY <2>1, <3>1 DEF On
    <3>3. (d \o r)[i] = d[i]
      BY <1>1, <1>2, <3>1, ConcatProperties
    <3> QED
      BY <3>2, <3>3
  <2> QED
    BY <2>2
<1>8. \A i \in at .. m - 1 : Encoded!IsDigit(s[i])
  <2>1. ASSUME NEW i \in at .. m - 1 PROVE Encoded!IsDigit(s[i])
    <3>1. i - at + 1 \in 1 .. Len(d) /\ at + (i - at + 1) - 1 = i
      BY <1>1, <1>5
    <3>2. s[i] = d[i - at + 1] /\ d[i - at + 1] \in 48 .. 57
      BY <1>1, <1>7, <3>1
    <3> QED
      BY <3>2 DEF Encoded!IsDigit
  <2> QED
    BY <2>1
<1> HIDE DEF m
<1>9. last = m
  <2>1. IsLast(m)
    BY <1>4, <1>8
  <2>2. ASSUME NEW n \in at .. Len(s), IsLast(n) PROVE n = m
    <3>1. ~(n \in at .. m - 1)
      BY <1>8, <2>2
    <3>2. ~(m \in at .. n - 1)
      BY <1>4, <2>2
    <3> HIDE DEF IsLast
    <3> QED
      BY <1>5, <1>6, <3>1, <3>2
  <2> HIDE DEF IsLast
  <2> QED
    BY <1>6, <2>1, <2>2
<1>10. SubSeq(s, at, m - 1) = d
  <2>1. at \in Int /\ m - 1 \in Int /\ \A i \in at .. m - 1 : i \in 1 .. Len(s) /\ s[i] \in Nat
    <3>1. \A i \in at .. m - 1 : i \in 1 .. Len(s)
      BY <1>5, <1>6
    <3> QED
      BY <1>5, <3>1, ElementOfSeq
  <2>2. /\ Len(SubSeq(s, at, m - 1)) = IF at <= m - 1 THEN (m - 1) - at + 1 ELSE 0
        /\ SubSeq(s, at, m - 1) \in Seq(Nat)
        /\ \A i \in 1 .. m - 1 - at + 1 : SubSeq(s, at, m - 1)[i] = s[at + i - 1]
    BY <2>1, SubSeqProperties
  <2>3. m = at + Len(d)
    BY DEF m
  <2>4. (IF at <= m - 1 THEN (m - 1) - at + 1 ELSE 0) = Len(d) /\ m - 1 - at + 1 = Len(d)
    BY <1>1, <1>5, <2>3
  <2>5. /\ Len(SubSeq(s, at, m - 1)) = Len(d)
        /\ \A i \in 1 .. Len(d) : SubSeq(s, at, m - 1)[i] = d[i]
    BY <1>7, <2>2, <2>4
  <2> QED
    BY <1>1, <2>2, <2>5, SeqEqual
<1>11. Encoded!Digits(s, at) = [digits |-> SubSeq(s, at, last - 1), stop |-> s[last],
                                at |-> IF s[last] = 0 THEN last ELSE last + 1]
  BY Zenon DEF Encoded!Digits
<1> HIDE DEF last
<1>12. Encoded!Digits(s, at) = [digits |-> d, stop |-> r[1], at |-> IF r[1] = 0 THEN m ELSE m + 1]
  BY <1>4, <1>9, <1>10, <1>11
<1> QED
  BY <1>12 DEF ReadsDigits, m

\* No digits are the number 0.
LEMMA NoNumber == Encoded!Number(<<>>) = 0
<1> DEFINE IsIter(f) == f = [s \in SUBSET {} |-> IF s = {} THEN 0
                                ELSE LET x == Encoded!Max(s) IN f[s \ {x}] * 10 + (<<>>[x] - 48)]
           iter == CHOOSE f : IsIter(f)
<1>1. DOMAIN <<>> = {}
  OBVIOUS
<1>2. Encoded!Number(<<>>) = iter[{}]
  BY <1>1, Zenon DEF Encoded!Number, Encoded!FoldLeft, Encoded!MapThenFoldSet
<1>3. IsIter([s \in SUBSET {} |-> 0])
  <2>1. \A s \in SUBSET {} : s = {}
    OBVIOUS
  <2> QED
    BY <2>1
<1>4. IsIter(iter)
  <2> HIDE DEF IsIter
  <2> QED
    BY <1>3
<1> HIDE DEF iter
<1>5. {} \in SUBSET {}
  OBVIOUS
<1>6. iter[{}] = 0
  BY <1>4, <1>5
<1> QED
  BY <1>2, <1>6

\* What is not empty keeps its first, whatever follows.
LEMMA FirstOwn ==
    ASSUME NEW a \in Seq(Nat), NEW b \in Seq(Nat), NEW C, a # <<>>, a[1] \in C
    PROVE  FirstIn(a \o b, C)
<1>1. Len(a) \in Nat \ {0} /\ Len(b) \in Nat
  BY EmptySeq, LenProperties
<1>2. 1 \in 1 .. Len(a) + Len(b) /\ 1 =< Len(a) /\ Len(a) + Len(b) \in Nat \ {0}
  BY <1>1
<1>3. a \o b \in Seq(Nat) /\ Len(a \o b) = Len(a) + Len(b) /\ (a \o b)[1] = a[1]
  BY <1>2, ConcatProperties
<1> QED
  BY <1>2, <1>3 DEF FirstIn

\* Digits are numbers.
LEMMA DigitsAre ==
    ASSUME NEW d \in Seq(48 .. 57)
    PROVE  d \in Seq(Nat) /\ Len(d) \in Nat /\ (d = <<>> \/ d[1] \in 48 .. 57)
<1>1. Len(d) \in Nat /\ d = [i \in 1 .. Len(d) |-> d[i]]
  BY LenProperties
<1>2. \A i \in 1 .. Len(d) : d[i] \in 48 .. 57 /\ d[i] \in Nat
  BY ElementOfSeq
<1>3. [i \in 1 .. Len(d) |-> d[i]] \in Seq(Nat)
  BY <1>1, <1>2
<1>4. ASSUME d # <<>> PROVE d[1] \in 48 .. 57
  <2>1. Len(d) \in Nat \ {0}
    BY <1>4, EmptySeq
  <2>2. 1 \in 1 .. Len(d)
    BY <2>1
  <2> QED
    BY <1>2, <2>2
<1> QED
  BY <1>1, <1>3, <1>4

\* What may follow a number, its digits and its e.
Ends == {0, 32, 45, 95}
Signs == {43, 45}
NoSign == {0, 32, 95} \cup 48 .. 57

\* Behind an e that has no sign of its own nothing is taken for one.
LEMMA NoSignRead ==
    ASSUME NEW power \in Seq(48 .. 57), NEW r, FirstIn(r, Ends), power = <<>> => r[1] # 45
    PROVE  FirstIn(power \o r, NoSign)
<1>1. r \in Seq(Nat) /\ power \in Seq(Nat) /\ (power = <<>> \/ power[1] \in 48 .. 57)
  BY DigitsAre DEF FirstIn
<1>2. CASE power = <<>>
  <2>1. r[1] \in NoSign
    BY <1>2 DEF FirstIn, Ends, NoSign
  <2>2. FirstIn(r, NoSign)
    BY <2>1 DEF FirstIn
  <2> QED
    BY <1>1, <1>2, <2>2, FirstBehind
<1>3. CASE power # <<>>
  <2>1. power[1] \in NoSign
    BY <1>1, <1>3 DEF NoSign
  <2> QED
    BY <1>1, <1>3, <2>1, FirstOwn
<1> QED
  BY <1>2, <1>3

\* The digits of the power, wherever they are.
LEMMA PowerDigits ==
    ASSUME NEW s, NEW at, NEW power \in Seq(48 .. 57), NEW r, FirstIn(r, Ends), On(s, at, power \o r)
    PROVE  Encoded!Digits(s, at).digits = power
<1>1. \A c \in Ends : ~Encoded!IsDigit(c)
  BY DEF Ends, Encoded!IsDigit
<1>2. ReadsDigits(Encoded!Digits(s, at), at, power, r[1])
  BY <1>1, DigitsRead
<1> QED
  BY <1>2 DEF ReadsDigits

\* The power is read behind the e and its sign.
PowerIs(s, at, e, power) ==
    /\ s[at] = 45 <=> e[Len(e)] = 45
    /\ Encoded!Digits(s, IF s[at] \in Signs THEN at + 1 ELSE at).digits = power

\* Behind an e alone.
LEMMA PowerRead ==
    ASSUME NEW s, NEW at \in Nat, NEW power \in Seq(48 .. 57), NEW r, FirstIn(r, Ends),
           power = <<>> => r[1] # 45, On(s, at, << 101 >> \o (power \o r))
    PROVE  PowerIs(s, at + 1, << 101 >>, power)
<1>1. power \o r \in Seq(Nat)
  BY DigitsAre, ConcatProperties DEF FirstIn
<1>2. << 101 >> \in Seq(Nat) /\ Len(<< 101 >>) = 1 /\ << 101 >>[1] = 101 /\ 101 # 45
  OBVIOUS
<1>3. On(s, at + Len(<< 101 >>), power \o r)
  <2> DEFINE e == << 101 >>
  <2>1. e \in Seq(Nat) /\ On(s, at, e \o (power \o r))
    BY <1>2
  <2> HIDE DEF e
  <2>2. On(s, at + Len(e), power \o r)
    BY <1>1, <2>1, OnDrop
  <2> QED
    BY <2>2 DEF e
<1>4. On(s, at + 1, power \o r)
  BY <1>2, <1>3
<1>5. s[at + 1] \in NoSign
  BY <1>4, NoSignRead, OnFirst
<1>6. s[at + 1] # 45 /\ s[at + 1] \notin Signs
  BY <1>5 DEF NoSign, Signs
<1>7. Encoded!Digits(s, at + 1).digits = power
  BY <1>4, PowerDigits
<1> QED
  BY <1>2, <1>6, <1>7 DEF PowerIs

\* Behind an e and a sign.
LEMMA SignedPowerRead ==
    ASSUME NEW s, NEW at \in Nat, NEW power \in Seq(48 .. 57), NEW r, FirstIn(r, Ends), NEW sign \in Signs,
           On(s, at, <<69, sign>> \o (power \o r))
    PROVE  PowerIs(s, at + 1, <<69, sign>>, power)
<1>1. power \o r \in Seq(Nat)
  BY DigitsAre, ConcatProperties DEF FirstIn
<1>2. sign \in Nat
  BY DEF Signs
<1>3. /\ <<69, sign>> \in Seq(Nat) /\ Len(<<69, sign>>) = 2 /\ <<69, sign>>[2] = sign
  BY <1>2
<1>4. at + 1 \in Nat /\ (at + 1) + 1 = at + 2
  OBVIOUS
<1>5. On(s, at + 2, power \o r)
  <2>1. On(s, at + Len(<<69, sign>>), power \o r)
    BY <1>1, <1>3, OnDrop
  <2> QED
    BY <1>3, <2>1
<1>6. s[at + 1] = sign
  <2> DEFINE x == <<69, sign>> \o (power \o r)
  <2>1. Len(power \o r) \in Nat
    BY <1>1, LenProperties
  <2>2. 2 \in 1 .. 2 + Len(power \o r) /\ 2 =< 2 /\ at + 2 - 1 = at + 1
    BY <2>1
  <2>3. Len(x) = 2 + Len(power \o r) /\ x[2] = <<69, sign>>[2]
    BY <1>1, <1>3, <2>2, ConcatProperties
  <2>4. On(s, at, x)
    OBVIOUS
  <2> HIDE DEF x
  <2>5. s[at + 2 - 1] = x[2]
    BY <2>2, <2>3, <2>4, Zenon DEF On
  <2> QED
    BY <1>3, <2>2, <2>3, <2>5
<1>7. Encoded!Digits(s, at + 2).digits = power
  BY <1>5, PowerDigits
<1> QED
  BY <1>3, <1>4, <1>6, <1>7, Zenon DEF PowerIs

\* The signs, dots and exponents of a number.
Minuses == {<<>>, << 45 >>}
Dots == {<<>>, << 46 >>}
Exponents == {<<>>, << 101 >>, <<69, 43>>, <<69, 45>>}

\* Digits, a dot and digits are read one after the other, up to what begins with none of
\* them.
MantissaIs(s, w, whole, dot, after, r) ==
    LET p == IF w.stop = 46 THEN Encoded!Digits(s, w.at) ELSE w
    IN  /\ w.digits = whole /\ (w.stop = 46 <=> dot # <<>>)
        /\ (dot # <<>> => p.digits = after) /\ p.stop = r[1]
        /\ \E a \in Nat : On(s, a, r) /\ p.at = IF r[1] = 0 THEN a ELSE a + 1

\* What is left when the mantissa is read.
Beyond == Ends \cup {101, 69}

\* For any digits before and after the dot.
LEMMA MantissaRead ==
    ASSUME NEW s, NEW at, NEW whole \in Seq(48 .. 57), NEW dot \in Dots,
           NEW after \in Seq(48 .. 57), NEW r, FirstIn(r, Beyond),
           dot = <<>> => after = <<>>, On(s, at, whole \o (dot \o (after \o r)))
    PROVE  MantissaIs(s, Encoded!Digits(s, at), whole, dot, after, r)
<1> DEFINE w == Encoded!Digits(s, at)
<1>1. /\ whole \in Seq(Nat) /\ Len(whole) \in Nat /\ after \in Seq(Nat) /\ Len(after) \in Nat
      /\ r \in Seq(Nat) /\ r[1] \in Beyond /\ after \o r \in Seq(Nat)
  <2>1. r \in Seq(Nat) /\ r[1] \in Beyond
    BY DEF FirstIn
  <2>2. whole \in Seq(Nat) /\ Len(whole) \in Nat /\ after \in Seq(Nat) /\ Len(after) \in Nat
    BY DigitsAre
  <2> QED
    BY <2>1, <2>2, ConcatProperties
<1>2. \A c \in Beyond : ~Encoded!IsDigit(c) /\ c # 46
  BY DEF Beyond, Ends, Encoded!IsDigit
<1>3. CASE dot = <<>>
  <2>1. dot \o (after \o r) = r
    <3>1. after \o r = r
      BY <1>1, <1>3, ConcatEmptySeq
    <3> QED
      BY <1>1, <1>3, <3>1, ConcatEmptySeq
  <2>2. On(s, at, whole \o r)
    BY <2>1
  <2>3. ReadsDigits(w, at, whole, r[1])
    BY <1>2, <2>2, DigitsRead
  <2>4. On(s, at + Len(whole), r)
    BY <1>1, <2>2, OnDrop
  <2>5. at + Len(whole) \in Nat
    BY <2>4 DEF On
  <2> HIDE DEF w
  <2>6. w.digits = whole /\ w.stop = r[1] /\ w.stop # 46
    BY <1>1, <1>2, <2>3 DEF ReadsDigits
  <2>7. w.at = IF r[1] = 0 THEN at + Len(whole) ELSE at + Len(whole) + 1
    BY <2>3 DEF ReadsDigits
  <2>8. MantissaIs(s, w, whole, dot, after, r)
    BY <1>3, <2>4, <2>5, <2>6, <2>7 DEF MantissaIs
  <2> QED
    BY <2>8 DEF w
<1>4. CASE dot = << 46 >>
  <2> DEFINE x == after \o r
             p == Encoded!Digits(s, w.at)
  <2>1. dot \in Seq(Nat) /\ Len(dot) = 1 /\ dot # <<>> /\ dot[1] = 46 /\ 46 # 0 /\ ~Encoded!IsDigit(46)
    BY <1>4 DEF Encoded!IsDigit
  <2>2. x \in Seq(Nat)
    BY <1>1
  <2>3. On(s, at, whole \o (dot \o x))
    OBVIOUS
  <2> HIDE DEF x
  <2>4. FirstIn(dot \o x, {46})
    BY <2>1, <2>2, FirstOwn
  <2>5. (dot \o x)[1] = 46 /\ dot \o x \in Seq(Nat)
    BY <2>4 DEF FirstIn
  <2>6. \A c \in {46} : ~Encoded!IsDigit(c)
    BY <2>1
  <2>7. ReadsDigits(w, at, whole, 46)
    <3> DEFINE y == dot \o x
               C == {46}
    <3>1. FirstIn(y, C) /\ On(s, at, whole \o y) /\ y[1] = 46 /\ \A c \in C : ~Encoded!IsDigit(c)
      BY <2>3, <2>4, <2>5, <2>6
    <3> HIDE DEF y, C
    <3>2. ReadsDigits(w, at, whole, y[1])
      BY <3>1, DigitsRead
    <3> QED
      BY <3>1, <3>2
  <2>8. On(s, at + Len(whole), dot \o x)
    BY <1>1, <2>3, <2>5, OnDrop
  <2>9. On(s, at + Len(whole) + 1, x)
    BY <2>1, <2>2, <2>8, OnDrop
  <2> HIDE DEF w
  <2>10. w.digits = whole /\ w.stop = 46 /\ w.at = at + Len(whole) + 1
    BY <2>1, <2>7 DEF ReadsDigits
  <2>11. On(s, w.at, after \o r)
    BY <2>9, <2>10 DEF x
  <2>12. ReadsDigits(p, w.at, after, r[1])
    BY <1>2, <2>11, DigitsRead
  <2>13. On(s, w.at + Len(after), r)
    BY <1>1, <2>11, OnDrop
  <2>14. w.at + Len(after) \in Nat
    BY <2>13 DEF On
  <2> HIDE DEF p
  <2>15. p.digits = after /\ p.stop = r[1]
    BY <2>12 DEF ReadsDigits
  <2>16. p.at = IF r[1] = 0 THEN w.at + Len(after) ELSE w.at + Len(after) + 1
    BY <2>12 DEF ReadsDigits
  <2>17. p = IF w.stop = 46 THEN Encoded!Digits(s, w.at) ELSE w
    BY <2>10 DEF p
  <2>18. MantissaIs(s, w, whole, dot, after, r)
    BY <2>1, <2>10, <2>13, <2>14, <2>15, <2>16, <2>17, Zenon DEF MantissaIs
  <2> QED
    BY <2>18 DEF w
<1> QED
  BY <1>3, <1>4 DEF Dots

\* A minus at the beginning is one, and the number is read behind it.
LEMMA SignRead ==
    ASSUME NEW sign \in Minuses, NEW x, FirstIn(x, Nat), sign = <<>> => FirstIn(x, Nat \ {45}),
           NEW s, s = sign \o x
    PROVE  /\ s[1] = 45 <=> sign # <<>>
           /\ On(s, IF s[1] = 45 THEN 2 ELSE 1, x)
<1>1. x \in Seq(Nat)
  BY DEF FirstIn
<1>2. CASE sign = <<>>
  <2>1. s = x
    BY <1>1, <1>2, ConcatEmptySeq
  <2>2. s[1] # 45
    BY <1>2, <2>1 DEF FirstIn
  <2> QED
    BY <1>1, <1>2, <2>1, <2>2, OnAll
<1>3. CASE sign = << 45 >>
  <2>1. sign \in Seq(Nat) /\ Len(sign) = 1 /\ sign # <<>> /\ sign[1] = 45
    BY <1>3
  <2>2. s \in Seq(Nat)
    BY <1>1, <2>1, ConcatProperties
  <2>3. FirstIn(s, {45})
    BY <1>1, <2>1, FirstOwn
  <2>4. On(s, 1, sign \o x)
    BY <2>2, OnAll
  <2>5. On(s, 1 + Len(sign), x)
    BY <1>1, <2>1, <2>4, OnDrop
  <2>6. On(s, 2, x)
    BY <2>1, <2>5
  <2> QED
    BY <2>1, <2>3, <2>6 DEF FirstIn
<1> QED
  BY <1>2, <1>3 DEF Minuses

\* The e, its sign and the power are read behind the mantissa.
ExponentIs(x, e, power) ==
    /\ FirstIn(x, Beyond) /\ (Encoded!IsExp(x[1]) <=> e # <<>>) /\ (e # <<>> => x[1] # 0)
    /\ \A s : \A a \in Nat : e # <<>> /\ On(s, a, x) => PowerIs(s, a + 1, e, power)

\* For any digits of the power.
LEMMA ExponentRead ==
    ASSUME NEW e \in Exponents, NEW power \in Seq(48 .. 57),
           NEW r, FirstIn(r, Ends), e = <<>> => power = <<>>, e = << 101 >> /\ power = <<>> => r[1] # 45
    PROVE  ExponentIs(e \o (power \o r), e, power)
<1> DEFINE x == power \o r
<1>1. r \in Seq(Nat) /\ power \in Seq(Nat) /\ r[1] \in Ends
  BY DigitsAre DEF FirstIn
<1>2. x \in Seq(Nat)
  BY <1>1, ConcatProperties
<1>3. CASE e = <<>>
  <2>1. e \o x = r
    <3>1. x = r
      BY <1>1, <1>3, ConcatEmptySeq
    <3> QED
      BY <1>1, <1>3, <3>1, ConcatEmptySeq
  <2>2. FirstIn(r, Beyond) /\ ~Encoded!IsExp(r[1])
    BY <1>1 DEF FirstIn, Ends, Beyond, Encoded!IsExp
  <2> HIDE DEF x
  <2>3. ExponentIs(e \o x, e, power)
    BY <1>3, <2>1, <2>2 DEF ExponentIs
  <2> QED
    BY <2>3 DEF x
<1>4. ASSUME NEW first \in {101, 69}, e \in Seq(Nat), e # <<>>, e[1] = first,
             \A s : \A a \in Nat : On(s, a, e \o x) => PowerIs(s, a + 1, e, power)
      PROVE  ExponentIs(e \o x, e, power)
  <2> HIDE DEF x
  <2>1. FirstIn(e \o x, {101, 69})
    BY <1>2, <1>4, FirstOwn
  <2>2. (e \o x)[1] \in {101, 69} /\ e \o x \in Seq(Nat) /\ Len(e \o x) \in Nat \ {0}
    BY <2>1 DEF FirstIn
  <2>3. FirstIn(e \o x, Beyond) /\ Encoded!IsExp((e \o x)[1]) /\ (e \o x)[1] # 0
    BY <2>2 DEF FirstIn, Beyond, Encoded!IsExp
  <2> QED
    BY <1>4, <2>3 DEF ExponentIs
<1>5. CASE e = << 101 >>
  <2>1. e \in Seq(Nat) /\ e # <<>> /\ e[1] = 101 /\ 101 \in {101, 69}
    BY <1>5
  <2>2. power = <<>> => r[1] # 45
    BY <1>5
  <2>3. ASSUME NEW s, NEW a \in Nat, On(s, a, e \o x) PROVE PowerIs(s, a + 1, e, power)
    <3>1. On(s, a, << 101 >> \o (power \o r))
      BY <1>5, <2>3
    <3>2. PowerIs(s, a + 1, << 101 >>, power)
      BY <2>2, <3>1, PowerRead
    <3> QED
      BY <1>5, <3>2
  <2> HIDE DEF x
  <2>4. ExponentIs(e \o x, e, power)
    BY <1>4, <2>1, <2>3
  <2> QED
    BY <2>4 DEF x
<1>6. ASSUME NEW sign \in Signs, e = <<69, sign>> PROVE ExponentIs(e \o x, e, power)
  <2>1. e \in Seq(Nat) /\ e # <<>> /\ e[1] = 69 /\ 69 \in {101, 69}
    BY <1>6 DEF Signs
  <2>2. ASSUME NEW s, NEW a \in Nat, On(s, a, e \o x) PROVE PowerIs(s, a + 1, e, power)
    <3>1. On(s, a, <<69, sign>> \o (power \o r))
      BY <1>6, <2>2
    <3>2. PowerIs(s, a + 1, <<69, sign>>, power)
      BY <3>1, SignedPowerRead
    <3> QED
      BY <1>6, <3>2
  <2> HIDE DEF x
  <2> QED
    BY <1>4, <2>1, <2>2
<1>7. e = <<>> \/ e = << 101 >> \/ \E sign \in Signs : e = <<69, sign>>
  BY Zenon DEF Signs, Exponents
<1> HIDE DEF x
<1>8. ASSUME NEW sign \in Signs, e = <<69, sign>> PROVE ExponentIs(e \o (power \o r), e, power)
  BY <1>6, <1>8, Zenon DEF x
<1> QED
  BY <1>3, <1>5, <1>7, <1>8, Zenon

\* What a number begins with, when it has no minus.
StartsPlain(whole, dot, after, x) ==
    /\ FirstIn(whole \o (dot \o (after \o x)), Nat)
    /\ whole # <<>> \/ dot # <<>> \/ x[1] # 45 => FirstIn(whole \o (dot \o (after \o x)), Nat \ {45})

\* It begins so.
LEMMA PlainStart ==
    ASSUME NEW whole \in Seq(48 .. 57), NEW dot \in Dots, NEW after \in Seq(48 .. 57),
           dot = <<>> => after = <<>>, NEW x, FirstIn(x, Beyond)
    PROVE  StartsPlain(whole, dot, after, x)
<1>1. /\ whole \in Seq(Nat) /\ (whole = <<>> \/ whole[1] \in 48 .. 57)
      /\ after \in Seq(Nat) /\ (after = <<>> \/ after[1] \in 48 .. 57)
  BY DigitsAre
<1>2. \A c \in 48 .. 57 : c \in Nat /\ c \in Nat \ {45}
  OBVIOUS
<1>3. dot \in Seq(Nat) /\ (dot = <<>> \/ dot[1] \in Nat \ {45})
  <2>1. CASE dot = <<>>
    BY <2>1
  <2>2. CASE dot = << 46 >>
    <3>1. dot \in Seq(Nat) /\ dot[1] = 46
      BY <2>2
    <3>2. 46 \in Nat \ {45}
      OBVIOUS
    <3> QED
      BY <3>1, <3>2
  <2> QED
    BY <2>1, <2>2 DEF Dots
<1>4. FirstIn(x, Nat)
  BY DEF FirstIn, Beyond, Ends
<1>5. x \in Seq(Nat) /\ after \o x \in Seq(Nat) /\ dot \o (after \o x) \in Seq(Nat)
  <2>1. x \in Seq(Nat)
    BY DEF FirstIn
  <2>2. after \o x \in Seq(Nat)
    BY <1>1, <2>1, ConcatProperties
  <2> QED
    BY <1>3, <2>1, <2>2, ConcatProperties
<1>6. FirstIn(whole \o (dot \o (after \o x)), Nat)
  <2>1. FirstIn(after \o x, Nat)
    BY <1>1, <1>2, <1>4, FirstBehind
  <2>2. FirstIn(dot \o (after \o x), Nat)
    BY <1>3, <2>1, FirstBehind
  <2> QED
    BY <1>1, <1>2, <2>2, FirstBehind
<1>7. CASE whole # <<>>
  <2>1. whole[1] \in Nat \ {45}
    BY <1>1, <1>2, <1>7
  <2>2. FirstIn(whole \o (dot \o (after \o x)), Nat \ {45})
    BY <1>1, <1>5, <1>7, <2>1, FirstOwn
  <2> QED
    BY <1>6, <2>2 DEF StartsPlain
<1>8. CASE whole = <<>> /\ dot # <<>>
  <2>1. FirstIn(dot \o (after \o x), Nat \ {45})
    BY <1>3, <1>5, <1>8, FirstOwn
  <2>2. FirstIn(whole \o (dot \o (after \o x)), Nat \ {45})
    BY <1>1, <1>8, <2>1, FirstBehind
  <2> QED
    BY <1>6, <2>2 DEF StartsPlain
<1>9. CASE whole = <<>> /\ dot = <<>>
  <2>1. whole \o (dot \o (after \o x)) = x
    <3>1. after \o x = x
      BY <1>5, <1>9, ConcatEmptySeq
    <3>2. dot \o (after \o x) = x
      BY <1>5, <1>9, <3>1, ConcatEmptySeq
    <3> QED
      BY <1>5, <1>9, <3>2, ConcatEmptySeq
  <2>2. x[1] # 45 => FirstIn(x, Nat \ {45})
    BY <1>4 DEF FirstIn
  <2> QED
    BY <1>6, <1>9, <2>1, <2>2 DEF StartsPlain
<1> QED
  BY <1>7, <1>8, <1>9

\* What is read of t.
NumberRead(t, sign, whole, after, e, power) ==
    Encoded!Cast(t) =
        [sign |-> IF sign = <<>> THEN 1 ELSE -1,
         digits |-> Encoded!Number(whole \o after),
         exponent |-> (IF e = <<>> THEN 0
                       ELSE IF e[Len(e)] = 45 THEN -Encoded!Number(power) ELSE Encoded!Number(power))
                      - Len(after)]

\* The number that is read of a text with these parts, behind which r is the rest.
LEMMA CastIs ==
    ASSUME NEW sign \in Minuses, NEW whole \in Seq(48 .. 57), NEW dot \in Dots,
           NEW after \in Seq(48 .. 57), dot = <<>> => after = <<>>,
           NEW x, NEW e, NEW power, ExponentIs(x, e, power), e = <<>> => power = <<>>,
           sign = <<>> /\ whole = <<>> /\ dot = <<>> => x[1] # 45,
           NEW t, Encoded!End0(t) = sign \o (whole \o (dot \o (after \o x)))
    PROVE  NumberRead(t, sign, whole, after, e, power)
<1> DEFINE s == Encoded!End0(t)
           at == IF s[1] = 45 THEN 2 ELSE 1
           w == Encoded!Digits(s, at)
           hasPart == w.stop = 46
           p == IF hasPart THEN Encoded!Digits(s, w.at) ELSE w
           hasExp == Encoded!IsExp(p.stop)
           signed == hasExp /\ s[p.at] \in {43, 45}
           d == IF hasExp THEN Encoded!Digits(s, IF signed THEN p.at + 1 ELSE p.at).digits ELSE <<>>
           signRead == IF s[1] = 45 THEN -1 ELSE 1
           digitsRead == Encoded!Number(w.digits \o (IF hasPart THEN p.digits ELSE <<>>))
           powerRead == IF hasExp /\ s[p.at] = 45 THEN -Encoded!Number(d) ELSE Encoded!Number(d)
           afterRead == IF hasPart THEN Len(p.digits) ELSE 0
           unsigned == whole \o (dot \o (after \o x))
<1>1. Encoded!Cast(t) =
          [sign |-> signRead, digits |-> digitsRead, exponent |-> powerRead - afterRead]
  BY Zenon DEF Encoded!Cast, Encoded!Minus, Encoded!Dot, Encoded!Plus
<1>2. FirstIn(x, Beyond) /\ (Encoded!IsExp(x[1]) <=> e # <<>>) /\ (e # <<>> => x[1] # 0)
  BY DEF ExponentIs
<1> HIDE DEF signRead, digitsRead, powerRead, afterRead
<1>3. FirstIn(unsigned, Nat) /\ (sign = <<>> => FirstIn(unsigned, Nat \ {45})) /\ s = sign \o unsigned
  <2>1. sign = <<>> => whole # <<>> \/ dot # <<>> \/ x[1] # 45
    OBVIOUS
  <2>2. StartsPlain(whole, dot, after, x)
    BY <1>2, PlainStart, Zenon
  <2> QED
    BY <2>1, <2>2, Zenon DEF StartsPlain
<1> HIDE DEF unsigned
<1>4. (s[1] = 45 <=> sign # <<>>) /\ On(s, at, unsigned)
  <2> HIDE DEF s
  <2> QED
    BY <1>3, SignRead
<1> HIDE DEF s, at
<1>5. MantissaIs(s, w, whole, dot, after, x)
  <2>1. On(s, at, whole \o (dot \o (after \o x)))
    BY <1>4 DEF unsigned
  <2> QED
    BY <1>2, <2>1, MantissaRead
<1> HIDE DEF w
<1>6. /\ w.digits = whole /\ (hasPart <=> dot # <<>>)
      /\ (dot # <<>> => p.digits = after) /\ p.stop = x[1]
      /\ \E a \in Nat : On(s, a, x) /\ p.at = IF x[1] = 0 THEN a ELSE a + 1
  BY <1>5, Zenon DEF MantissaIs
<1> HIDE DEF hasPart, p
<1>7. hasExp <=> e # <<>>
  BY <1>2, <1>6
<1>8. ASSUME e # <<>> PROVE PowerIs(s, p.at, e, power)
  <2>1. PICK a \in Nat : On(s, a, x) /\ p.at = IF x[1] = 0 THEN a ELSE a + 1
    BY <1>6
  <2>2. p.at = a + 1
    BY <1>2, <1>8, <2>1
  <2>3. PowerIs(s, a + 1, e, power)
    BY <1>8, <2>1 DEF ExponentIs
  <2> QED
    BY <2>2, <2>3
<1> HIDE DEF hasExp
<1>9. /\ e = <<>> => d = <<>> /\ power = <<>>
      /\ e # <<>> => d = power /\ (s[p.at] = 45 <=> e[Len(e)] = 45)
  <2>1. CASE e = <<>>
    BY <1>7, <2>1
  <2>2. CASE e # <<>>
    <3>1. /\ s[p.at] = 45 <=> e[Len(e)] = 45
          /\ Encoded!Digits(s, IF s[p.at] \in {43, 45} THEN p.at + 1 ELSE p.at).digits = power
      BY <1>8, <2>2 DEF PowerIs, Signs
    <3>2. hasExp /\ (signed <=> s[p.at] \in {43, 45})
      BY <1>7, <2>2
    <3>3. d = Encoded!Digits(s, IF s[p.at] \in {43, 45} THEN p.at + 1 ELSE p.at).digits
      BY <3>2, Zenon
    <3> QED
      BY <2>2, <3>1, <3>3
  <2> QED
    BY <2>1, <2>2
<1> HIDE DEF d
<1>10. digitsRead = Encoded!Number(whole \o after)
  <2>1. w.digits \o (IF hasPart THEN p.digits ELSE <<>>) = whole \o after
    BY <1>6
  <2> QED
    BY <2>1 DEF digitsRead
<1>11. afterRead = Len(after)
  <2>1. Len(<<>>) = 0
    OBVIOUS
  <2> QED
    BY <1>6, <2>1 DEF afterRead
<1>12. powerRead = IF e = <<>> THEN 0
                   ELSE IF e[Len(e)] = 45 THEN -Encoded!Number(power) ELSE Encoded!Number(power)
  <2>1. CASE e = <<>>
    BY <1>7, <1>9, <2>1, NoNumber DEF powerRead
  <2>2. CASE e # <<>>
    BY <1>7, <1>9, <2>2 DEF powerRead
  <2> QED
    BY <2>1, <2>2
<1>13. signRead = IF sign = <<>> THEN 1 ELSE -1
  BY <1>4 DEF signRead
<1> QED
  BY <1>1, <1>10, <1>11, <1>12, <1>13 DEF NumberRead

\* Sequences one after the other, however they are grouped.
Groups(a, b, c) == a \o b \in Seq(Nat) /\ (a \o b) \o c = a \o (b \o c)

\* They may be.
LEMMA Grouped ==
    ASSUME NEW a \in Seq(Nat), NEW b \in Seq(Nat), NEW c \in Seq(Nat)
    PROVE  Groups(a, b, c)
<1>1. \A x, y, z \in Seq(Nat) : (x \o y) \o z = x \o (y \o z)
  OBVIOUS
<1> QED
  BY <1>1, ConcatProperties DEF Groups

\* The parts of a text one after the other, and its end.
Ended(a, b, c, d, e, f, g) ==
    Encoded!End0(a \o b \o c \o d \o e \o f \o g)
        = a \o (b \o (c \o (d \o (e \o (f \o (g \o << 0 >>))))))

\* For any seven of them.
LEMMA PartsOfText ==
    ASSUME NEW a \in Seq(Nat), NEW b \in Seq(Nat), NEW c \in Seq(Nat), NEW d \in Seq(Nat),
           NEW e \in Seq(Nat), NEW f \in Seq(Nat), NEW g \in Seq(Nat)
    PROVE  Ended(a, b, c, d, e, f, g)
<1> DEFINE z == << 0 >>
           v6 == g \o z
           v5 == f \o v6
           v4 == e \o v5
           v3 == d \o v4
           v2 == c \o v3
           v1 == b \o v2
           u2 == a \o b
           u3 == u2 \o c
           u4 == u3 \o d
           u5 == u4 \o e
           u6 == u5 \o f
           u7 == u6 \o g
<1>1. z \in Seq(Nat)
  OBVIOUS
<1>2. \A s \in Seq(Nat) : Append(s, 0) = s \o z
  OBVIOUS
<1> HIDE DEF z
<1>3. v6 \in Seq(Nat)
  BY <1>1, ConcatProperties
<1> HIDE DEF v6
<1>4. v5 \in Seq(Nat)
  BY <1>3, ConcatProperties
<1> HIDE DEF v5
<1>5. v4 \in Seq(Nat)
  BY <1>4, ConcatProperties
<1> HIDE DEF v4
<1>6. v3 \in Seq(Nat)
  BY <1>5, ConcatProperties
<1> HIDE DEF v3
<1>7. v2 \in Seq(Nat)
  BY <1>6, ConcatProperties
<1> HIDE DEF v2
<1>8. u2 \in Seq(Nat) /\ u2 \o v2 = a \o v1
  <2> HIDE DEF u2, u3, u4, u5, u6, u7, v1, v2
  <2>1. Groups(a, b, v2)
    BY <1>7, Grouped, Zenon
  <2> QED
    BY <2>1, Zenon DEF Groups, u2, v1
<1> HIDE DEF u2
<1>9. u3 \in Seq(Nat) /\ u3 \o v3 = u2 \o v2
  <2> HIDE DEF u3, u4, u5, u6, u7, v1
  <2>1. Groups(u2, c, v3)
    BY <1>6, <1>8, Grouped, Zenon
  <2> QED
    BY <2>1, Zenon DEF Groups, u3, v2
<1> HIDE DEF u3
<1>10. u4 \in Seq(Nat) /\ u4 \o v4 = u3 \o v3
  <2> HIDE DEF u4, u5, u6, u7, v1
  <2>1. Groups(u3, d, v4)
    BY <1>5, <1>9, Grouped, Zenon
  <2> QED
    BY <2>1, Zenon DEF Groups, u4, v3
<1> HIDE DEF u4
<1>11. u5 \in Seq(Nat) /\ u5 \o v5 = u4 \o v4
  <2> HIDE DEF u5, u6, u7, v1
  <2>1. Groups(u4, e, v5)
    BY <1>4, <1>10, Grouped, Zenon
  <2> QED
    BY <2>1, Zenon DEF Groups, u5, v4
<1> HIDE DEF u5
<1>12. u6 \in Seq(Nat) /\ u6 \o v6 = u5 \o v5
  <2> HIDE DEF u6, u7, v1
  <2>1. Groups(u5, f, v6)
    BY <1>3, <1>11, Grouped, Zenon
  <2> QED
    BY <2>1, Zenon DEF Groups, u6, v5
<1> HIDE DEF u6
<1>13. u7 \in Seq(Nat) /\ u7 \o z = u6 \o v6
  <2> HIDE DEF u7, v1
  <2>1. Groups(u6, g, z)
    BY <1>1, <1>12, Grouped, Zenon
  <2> QED
    BY <2>1, Zenon DEF Groups, u7, v6
<1> HIDE DEF u7, v1
<1>14. Encoded!End0(u7) = a \o v1
  BY <1>2, <1>8, <1>9, <1>10, <1>11, <1>12, <1>13 DEF Encoded!End0
<1> QED
  BY <1>14, Zenon DEF Ended, z, v6, v5, v4, v3, v2, v1, u2, u3, u4, u5, u6, u7

\* What follows a number.
Rests == {<<>>, <<95, 49>>, << 32 >>, << 45 >>}

\* What may follow a number begins with none of its characters.
LEMMA RestIs ==
    ASSUME NEW rest \in Rests
    PROVE  /\ rest \in Seq(Nat) /\ FirstIn(rest \o << 0 >>, Ends)
           /\ rest # << 45 >> => (rest \o << 0 >>)[1] # 45
<1> DEFINE z == << 0 >>
<1>1. z \in Seq(Nat) /\ FirstIn(z, Ends) /\ z[1] = 0
  BY DEF FirstIn, Ends
<1>2. CASE rest = <<>>
  <2>1. <<>> \o z = z /\ <<>> \in Seq(Nat)
    BY <1>1, ConcatEmptySeq
  <2> QED
    BY <1>1, <1>2, <2>1
<1>3. ASSUME NEW c \in Ends, rest \in Seq(Nat), rest # <<>>, rest[1] = c, rest # << 45 >> => c # 45
      PROVE  FirstIn(rest \o z, Ends) /\ (rest # << 45 >> => (rest \o z)[1] # 45)
  <2> HIDE DEF z
  <2>1. FirstIn(rest \o z, {c})
    BY <1>1, <1>3, FirstOwn
  <2> QED
    BY <1>3, <2>1 DEF FirstIn
<1>4. CASE rest = <<95, 49>>
  <2>1. rest \in Seq(Nat) /\ rest # <<>> /\ rest[1] = 95 /\ 95 # 45
    BY <1>4
  <2>2. 95 \in Ends
    BY DEF Ends
  <2> QED
    BY <1>3, <2>1, <2>2
<1>5. CASE rest = << 32 >>
  <2>1. rest \in Seq(Nat) /\ rest # <<>> /\ rest[1] = 32 /\ 32 # 45
    BY <1>5
  <2>2. 32 \in Ends
    BY DEF Ends
  <2> QED
    BY <1>3, <2>1, <2>2
<1>6. CASE rest = << 45 >>
  <2>1. rest \in Seq(Nat) /\ rest # <<>> /\ rest[1] = 45
    BY <1>6
  <2>2. 45 \in Ends
    BY DEF Ends
  <2> QED
    BY <1>3, <1>6, <2>1, <2>2
<1> QED
  BY <1>2, <1>4, <1>5, <1>6 DEF Rests

\* A number is read up to what follows it.
LEMMA NumberIs ==
    ASSUME NEW sign \in Minuses, NEW whole \in Seq(48 .. 57), NEW dot \in Dots,
           NEW after \in Seq(48 .. 57), dot = <<>> => after = <<>>,
           NEW e \in Exponents, NEW power \in Seq(48 .. 57),
           e = <<>> => power = <<>>, NEW rest \in Rests,
           e = << 101 >> /\ power = <<>> => rest # << 45 >>,
           sign = <<>> /\ whole = <<>> /\ dot = <<>> /\ e = <<>> => rest # << 45 >>
    PROVE  NumberRead(sign \o whole \o dot \o after \o e \o power \o rest, sign, whole, after, e, power)
<1> DEFINE r == rest \o << 0 >>
           x == e \o (power \o r)
           t == sign \o whole \o dot \o after \o e \o power \o rest
<1>1. rest \in Seq(Nat) /\ FirstIn(r, Ends) /\ (rest # << 45 >> => r[1] # 45)
  BY RestIs
<1>2. whole \in Seq(Nat) /\ after \in Seq(Nat) /\ power \in Seq(Nat)
  BY DigitsAre
<1>3. sign \in Seq(Nat) /\ dot \in Seq(Nat)
  <2>1. <<>> \in Seq(Nat) /\ << 45 >> \in Seq(Nat) /\ << 46 >> \in Seq(Nat)
    OBVIOUS
  <2> QED
    BY <2>1, Zenon DEF Minuses, Dots
<1>4. e \in Seq(Nat)
  <2>1. <<>> \in Seq(Nat) /\ << 101 >> \in Seq(Nat) /\ <<69, 43>> \in Seq(Nat) /\ <<69, 45>> \in Seq(Nat)
    OBVIOUS
  <2> QED
    BY <2>1, Zenon DEF Exponents
<1>5. Encoded!End0(t) = sign \o (whole \o (dot \o (after \o x)))
  <2>1. Ended(sign, whole, dot, after, e, power, rest)
    <3> HIDE DEF r, x, t
    <3> QED
      BY <1>1, <1>2, <1>3, <1>4, PartsOfText, Zenon
  <2> QED
    BY <2>1, Zenon DEF Ended
<1> HIDE DEF r, t
<1>6. ExponentIs(x, e, power)
  <2>1. e = << 101 >> /\ power = <<>> => r[1] # 45
    BY <1>1
  <2> QED
    BY <1>1, <2>1, ExponentRead
<1>7. sign = <<>> /\ whole = <<>> /\ dot = <<>> => x[1] # 45
  <2>1. CASE e # <<>>
    <3>1. Encoded!IsExp(x[1])
      BY <1>6, <2>1 DEF ExponentIs
    <3>2. ~Encoded!IsExp(45)
      BY DEF Encoded!IsExp
    <3> QED
      BY <3>1, <3>2, Zenon
  <2>2. CASE e = <<>>
    <3>1. x = r
      <4>1. r \in Seq(Nat)
        BY <1>1 DEF FirstIn
      <4>2. power \o r = r
        BY <2>2, <4>1, ConcatEmptySeq
      <4> QED
        BY <2>2, <4>1, <4>2, ConcatEmptySeq
    <3> QED
      BY <1>1, <2>2, <3>1
  <2> QED
    BY <2>1, <2>2
<1> HIDE DEF x
<1>8. NumberRead(t, sign, whole, after, e, power)
  BY <1>5, <1>6, <1>7, CastIs, Zenon
<1> QED
  BY <1>8 DEF t

\* Numbers are read up to the character that cannot belong to them.
LEMMA EveryNumberRead == Encoded!NumbersRead
<1>1. Encoded!Numerals \subseteq Seq(48 .. 57)
  <2>1. <<>> \in Seq(48 .. 57) /\ << 48 >> \in Seq(48 .. 57) /\ <<50, 49>> \in Seq(48 .. 57)
    OBVIOUS
  <2> QED
    BY <2>1 DEF Encoded!Numerals
<1>2. ASSUME NEW sign \in Minuses, NEW whole \in Encoded!Numerals, NEW after \in Encoded!Numerals,
             NEW power \in Encoded!Numerals, NEW dot \in Dots,
             NEW e \in Exponents,
             NEW rest \in Rests,
             e = << 101 >> /\ power = <<>> => rest # << 45 >>,
             sign \o whole \o dot \o e = <<>> => rest # << 45 >>,
             NEW p, p = IF dot = <<>> THEN <<>> ELSE after,
             NEW d, d = IF e # <<>> THEN power ELSE <<>>
      PROVE  NumberRead(sign \o whole \o dot \o p \o e \o d \o rest, sign, whole, p, e, power)
  <2>1. whole \in Seq(48 .. 57) /\ p \in Seq(48 .. 57) /\ d \in Seq(48 .. 57)
    <3>1. <<>> \in Seq(48 .. 57)
      OBVIOUS
    <3> QED
      BY <1>1, <1>2, <3>1, Zenon
  <2>2. (dot = <<>> => p = <<>>) /\ (e = <<>> => d = <<>>) /\ (e # <<>> => d = power)
    BY <1>2, Zenon
  <2>3. <<>> \o <<>> = <<>>
    OBVIOUS
  <2>4. sign = <<>> /\ whole = <<>> /\ dot = <<>> /\ e = <<>> => rest # << 45 >>
    BY <1>2, <2>3, Zenon
  <2>5. << 101 >> # <<>>
    OBVIOUS
  <2>6. e = << 101 >> /\ d = <<>> => rest # << 45 >>
    BY <1>2, <2>2, <2>5, Zenon
  <2>7. NumberRead(sign \o whole \o dot \o p \o e \o d \o rest, sign, whole, p, e, d)
    BY <2>1, <2>2, <2>4, <2>6, NumberIs, Zenon
  <2>8. (IF e = <<>> THEN 0 ELSE IF e[Len(e)] = 45 THEN -Encoded!Number(d) ELSE Encoded!Number(d))
            = (IF e = <<>> THEN 0 ELSE IF e[Len(e)] = 45 THEN -Encoded!Number(power)
                                     ELSE Encoded!Number(power))
    BY <2>2, Zenon
  <2> QED
    BY <2>7, <2>8, Zenon DEF NumberRead
<1>3. ASSUME NEW sign \in Minuses, NEW whole \in Encoded!Numerals, NEW after \in Encoded!Numerals,
             NEW power \in Encoded!Numerals, NEW dot \in Dots, NEW e \in Exponents, NEW rest \in Rests
      PROVE  LET hasPower == e # <<>>
                 p == IF dot = <<>> THEN <<>> ELSE after
                 t == sign \o whole \o dot \o p \o e \o (IF hasPower THEN power ELSE <<>>) \o rest
             IN  (e = << 101 >> /\ power = <<>> => rest # << 45 >>)
                     /\ (sign \o whole \o dot \o e = <<>> => rest # << 45 >>) =>
                 Encoded!Cast(t) = [sign |-> IF sign = <<>> THEN 1 ELSE -1,
                            digits |-> Encoded!Number(whole \o p),
                            exponent |-> (IF ~hasPower THEN 0
                                          ELSE IF e[Len(e)] = 45 THEN -Encoded!Number(power)
                                          ELSE Encoded!Number(power)) - Len(p)]
  <2> DEFINE p == IF dot = <<>> THEN <<>> ELSE after
             d == IF e # <<>> THEN power ELSE <<>>
  <2>1. ASSUME e = << 101 >> /\ power = <<>> => rest # << 45 >>,
               sign \o whole \o dot \o e = <<>> => rest # << 45 >>
        PROVE  NumberRead(sign \o whole \o dot \o p \o e \o d \o rest, sign, whole, p, e, power)
    BY <1>2, <2>1, Zenon
  <2>2. (IF ~(e # <<>>) THEN 0 ELSE IF e[Len(e)] = 45 THEN -Encoded!Number(power) ELSE Encoded!Number(power))
            = (IF e = <<>> THEN 0 ELSE IF e[Len(e)] = 45 THEN -Encoded!Number(power) ELSE Encoded!Number(power))
    BY Zenon
  <2> QED
    BY <2>1, <2>2, Zenon DEF NumberRead
<1> QED
  BY <1>3, Zenon DEF Encoded!NumbersRead, Encoded!Minus, Encoded!Plus, Encoded!Dot, Encoded!Gap,
                     Minuses, Dots, Exponents, Rests

\* What was written comes back, in all the ways there are to read it.
LEMMA TextReadsBack ==
    ASSUME Encoded!Encodable, TextInv
    PROVE  Encoded!ReadsBack
<1>1. text \in Seq(CodePoints) /\ bytes = Encoded!EncodeAll(text)
  BY DEF TextInv
<1>2. bytes \in Seq(0 .. 255) /\ bytes \in Seq(Nat)
  <2>1. PICK places : Written(text, Encoded!EncodeAll(text), places)
    BY <1>1, WrittenIs
  <2> QED
    BY <1>1, <2>1 DEF Written
<1>3. \A i \in 1 .. Len(bytes) + 1 : \A j \in i - 1 .. Len(bytes) :
          Encoded!Decode(SubSeq(bytes, i, j)) = Encoded!Readable(i, j)
  <2>1. ASSUME NEW i \in 1 .. Len(bytes) + 1, NEW j \in i - 1 .. Len(bytes)
        PROVE  Encoded!Decode(SubSeq(bytes, i, j)) = Encoded!Readable(i, j)
    <3>1. ReadFrom(SubSeq(bytes, i, j), i, j)
      BY <1>2, PartRead
    <3> QED
      BY <1>1, <3>1, PartReadsBack
  <2> QED
    BY <2>1
<1>4. (\A k \in DOMAIN text : text[k] < 65536) => Encoded!EncodeAll(Encoded!DecodeUcs2(bytes)) = bytes
  BY <1>1, Ucs2ReadsBack
<1>5. ASSUME NEW h \in {Encoded!ToLowerHex(bytes), Encoded!ToUpperHex(bytes)}
      PROVE  /\ Encoded!FromHex(h) = bytes
             /\ \A n \in DOMAIN h : n % 2 = 1 => Encoded!FromHex(SubSeq(h, 1, n)) = Encoded!Fail
  <2>1. PICK letter \in FirstLetters : h = Encoded!ToHex(bytes, letter)
    BY DEF FirstLetters, Encoded!ToLowerHex, Encoded!ToUpperHex
  <2>2. IsHex(h, bytes, letter)
    BY <1>2, <2>1, HexIs
  <2> QED
    BY <1>2, <2>2, HexReadsBack
<1>6. \A h \in {Encoded!ToLowerHex(bytes), Encoded!ToUpperHex(bytes)} :
          /\ Encoded!FromHex(h) = bytes
          /\ \A n \in DOMAIN h : n % 2 = 1 => Encoded!FromHex(SubSeq(h, 1, n)) = Encoded!Fail
  BY <1>5
<1> QED
  BY <1>3, <1>4, <1>6, EveryNumberRead DEF Encoded!ReadsBack

-----------------------------------------------------------------------------
(***************************************************************************)
(* The parts side by side.                                                 *)
(***************************************************************************)
\* Every step is one of each part, or leaves it alone.
LEMMA EveryPartSteps ==
    [PartsNext]_vars =>
        /\ [Next]_trie /\ [Handles!Next]_(Handles!vars) /\ [Packed!Next]_(Packed!vars)
        /\ [Encoded!Next]_(Encoded!vars) /\ [Linked!Next]_(Linked!vars)
        /\ [Layered!Next]_(Layered!vars) /\ [Started!Next]_(Started!vars)
BY DEF PartsNext, vars, ofHandles, ofPacked, ofEncoded, ofLinked, ofLayered, ofStarted,
       Handles!vars, Packed!vars, Encoded!vars, Linked!vars, Layered!vars, Started!vars

\* Every part of the composition behaves as it does alone, which lets what is proved of
\* a part alone be used here.
LEMMA PartsBehave ==
    PartsSpec => /\ Spec /\ Handles!Spec /\ Packed!Spec /\ Encoded!Spec
                 /\ Linked!Spec /\ Layered!Spec /\ Started!Spec
<1>1. PartsInit => /\ Init /\ Handles!Init /\ Packed!Init /\ Encoded!Init
                   /\ Linked!Init /\ Layered!Init /\ Started!Init
  BY DEF PartsInit, AllInit
<1> QED
  BY <1>1, EveryPartSteps, PTL DEF PartsSpec, Spec, Handles!Spec, Packed!Spec, Encoded!Spec,
       Linked!Spec, Layered!Spec, Started!Spec

\* For any handles and any number of slots: a slot is subscribed exactly until its own
\* unsubscriber is run (fimpl.h:61), and one that a scoped handle took and did not
\* release is subscribed only while a scoped handle has it (scoped-subscription.h:15);
\* the list is sorted, so that remove_by_index() meets every id.
THEOREM AlwaysKeepSlots == ASSUME NothingIsNoSlot PROVE PartsSpec => []HandlesKeepSlots
<1>1. Handles!Inductive => HandlesKeepSlots
  BY DEF HandlesKeepSlots
<1> QED
  BY <1>1, PartsBehave, InductiveHolds, PTL

\* For any threads, types and depth of calls: whoever a root has, and was not
\* initialised, was added since an init() of the root ended or has one on the way to it
\* (root.h:91).
THEOREM NobodyLeftOut == PartsSpec => []NoneLeftOut
<1>1. StartedInv => NoneLeftOut
  BY DEF StartedInv, NoneLeftOut
<1> QED
  BY <1>1, PartsBehave, StartedInvariant, PTL

\* The lock of a root, held while its subsystems are called (root.h:91), keeps all the
\* calls of a root that are under way in one thread.
THEOREM OneThreadCalls == PartsSpec => []OneThreadEach
<1>1. StartedInv => OneThreadEach
  BY DEF StartedInv
<1> QED
  BY <1>1, PartsBehave, StartedInvariant, PTL

\* For any sizes that fit 64 bits and the type of fixint, however many of them: in every
\* format the sizes unpacked are the sizes packed, in their order, whatever the number of
\* bytes that are there when unpack() is called (varint.h:103, blockchain_varint.h:141,
\* fixint.h:92).
THEOREM AlwaysReadInOrder == PartsSpec => []ReadInOrder
<1>1. PackedInv => Packed!ReadInOrder
  BY SizesAssumption, PackedInvReads
<1>2. Packed!ReadInOrder => ReadInOrder
  BY DEF ReadInOrder
<1>3. Packed!Spec => []PackedInv
  BY SizesAssumption, PackedInvariant
<1> QED
  BY <1>1, <1>2, <1>3, PartsBehave, PTL

\* For any such sizes: result_length() and packed_length() of all the bytes are what
\* pack() writes, packed_length() of a part of them is 0, and unpack(begin, end) of
\* blockchain_varint gives the size back but for the sign of 128 .. 252 in signed chars
\* and for a byte too many that is not 0 (blockchain_varint.h:129, 131). zigzag of a
\* byte has an inverse, and value() of byte_order gives what write() does just if it is
\* not asked for 64 bits in LITTLE order (byte_order.h:240).
THEOREM AlwaysOverloadsAgree == PartsSpec => []OverloadsAgree
<1>1. PackedInv => Packed!OverloadsAgree
  BY SizesAssumption, PackedInvAgrees
<1>2. Packed!OverloadsAgree => OverloadsAgree
  BY DEF OverloadsAgree
<1>3. Packed!Spec => []PackedInv
  BY SizesAssumption, PackedInvariant
<1> QED
  BY <1>1, <1>2, <1>3, PartsBehave, PTL

\* For any code points that have a form in UTF-8, in a text of any length: every part of
\* its bytes gives the code points that are in it in full and a mark for each byte of
\* those that are cut (utf8.h:159), those of 16 bits come back in 16 bits, the bytes
\* survive hexadecimal digits of either case and are refused when cut in one
\* (byte_hex.h), and a number is read up to the character that cannot belong to it
\* (lexical_cast.h:43).
THEOREM AlwaysReadsBack == PartsSpec => []ReadsBack
<1>1. TextInv => Encoded!ReadsBack
  BY CodePointsAssumption, TextReadsBack
<1>2. Encoded!ReadsBack => ReadsBack
  BY DEF ReadsBack
<1>3. Encoded!Spec => []TextInv
  BY CodePointsAssumption, TextInvariant
<1> QED
  BY <1>1, <1>2, <1>3, PartsBehave, PTL

\* For any lists and finitely many nodes: lists linked in both directions are sequences,
\* which one iterator walks and erases from (list.h).
THEOREM ListsAreSequences ==
    ASSUME Proved!NodesAreAddresses PROVE PartsSpec => ImplementsSequences
<1>1. Linked!Init => Proved!Init
  BY DEF Linked!Init, Proved!Init
<1>2. Proved!Init => Proved!Kept /\ Linked!Sequence!Init
  BY Proved!InitKept, Proved!InitSequences, SameSequences
<1>3. Proved!Kept /\ [Proved!Next]_(Proved!vars) =>
        Proved!Kept' /\ [Linked!Sequence!Next]_(Linked!Sequence!vars)
  BY Proved!EveryStep, Proved!EveryStepImplements, SameSequences
<1>4. Linked!Spec => [](Proved!Kept) /\ [][Proved!Next]_(Proved!vars)
  BY <1>1, <1>2, <1>3, SameSteps, PTL DEF Linked!Spec
<1>5. Proved!Kept /\ [Proved!Next]_(Proved!vars) /\ [PartsNext]_vars =>
        [part = "linked" => [Linked!Sequence!Next]_(Linked!Sequence!vars)]_vars
  BY <1>3
<1>6. PartsSpec => Linked!Sequence!Init
  BY <1>1, <1>2, PartsBehave, PTL DEF Linked!Spec
<1> QED
  BY <1>4, <1>5, <1>6, PartsBehave, PTL DEF PartsSpec, ImplementsSequences
=============================================================================
