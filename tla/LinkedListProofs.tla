--------------------------- MODULE LinkedListProofs ---------------------------
(***************************************************************************)
(* Proofs about LinkedList, for any addresses, lists and sizes: the links  *)
(* of both directions are those of sequences of nodes, and every operation *)
(* does to the links what NodeSequences does to the sequences.             *)
(***************************************************************************)
EXTENDS LinkedList, ListLemmas

\* What the proofs rest on: there are finitely many addresses, and nullptr is none.
NodesAreAddresses == Nodes \subseteq Nat /\ IsFiniteSet(Nodes) /\ Nil \notin Nodes

-----------------------------------------------------------------------------
(***************************************************************************)
(* Links and sequences.                                                    *)
(***************************************************************************)
At(s, i) == IF i \in 1 .. Len(s) THEN s[i] ELSE Nil

\* No node is in two places.
Distinct(S) ==
    \A k, l \in Lists : \A i \in 1 .. Len(S[k]), j \in 1 .. Len(S[l]) :
        S[k][i] = S[l][j] => k = l /\ i = j

Types ==
    /\ next_ \in [Nodes -> Nodes \cup {Nil}] /\ prev_ \in [Nodes -> Nodes \cup {Nil}]
    /\ front_ \in [Lists -> Nodes \cup {Nil}] /\ back_ \in [Lists -> Nodes \cup {Nil}]
    /\ size_ \in [Lists -> Int]

Ends(S) == \A l \in Lists : front_[l] = At(S[l], 1) /\ back_[l] = At(S[l], Len(S[l]))
Links(S) ==
    \A l \in Lists : \A i \in 1 .. Len(S[l]) :
        next_[S[l][i]] = At(S[l], i + 1) /\ prev_[S[l][i]] = At(S[l], i - 1)

\* A node that is in no list has no neighbours, as its constructor leaves it.
In(S, n) == \E l \in Lists : \E i \in 1 .. Len(S[l]) : S[l][i] = n
Outside(S) == \A n \in Nodes : In(S, n) \/ (next_[n] = Nil /\ prev_[n] = Nil)
AtHome(S) == node_ = Nil \/ In(S, node_)

\* The links are those of the sequences S.
Holds(S) ==
    /\ S \in [Lists -> Seq(Nodes)] /\ Distinct(S)
    /\ Types /\ Ends(S) /\ Links(S) /\ Outside(S) /\ AtHome(S)

\* The sequences that the walks from front_ give.
Walks == [l \in Lists |-> From(front_[l])]

\* A sequence without repetitions is not longer than there are nodes.
LEMMA NotLonger ==
    ASSUME NodesAreAddresses, NEW s \in Seq(Nodes),
           \A i, j \in 1 .. Len(s) : s[i] = s[j] => i = j
    PROVE  Len(s) =< Cardinality(Nodes) /\ Cardinality(Nodes) \in Nat
<1> DEFINE T == {s[i] : i \in 1 .. Len(s)}
<1>1. Len(s) \in Nat /\ DOMAIN s = 1 .. Len(s) /\ s \in [1 .. Len(s) -> Nodes]
  BY LenProperties, SeqDef
<1>2. T \subseteq Nodes /\ s \in [1 .. Len(s) -> T]
  BY <1>1
<1>3. ExistsBijection(1 .. Len(s), T)
  <2>1. s \in Bijection(1 .. Len(s), T)
    BY <1>2 DEF Bijection, Injection, Surjection, IsInjective
  <2> QED
    BY <2>1 DEF ExistsBijection
<1>4. Cardinality(T) = Len(s)
  BY <1>1, <1>3, FS_CountingElements
<1>5. Cardinality(T) =< Cardinality(Nodes) /\ Cardinality(Nodes) \in Nat
  BY <1>2, FS_Subset, FS_CardinalityType DEF NodesAreAddresses
<1> QED
  BY <1>4, <1>5

\* A walk along next_ from the first node of a sequence gives the sequence.
LEMMA WalkGives ==
    ASSUME NodesAreAddresses, NEW s \in Seq(Nodes),
           \A i, j \in 1 .. Len(s) : s[i] = s[j] => i = j,
           \A i \in 1 .. Len(s) : next_[s[i]] = At(s, i + 1)
    PROVE  From(At(s, 1)) = s
<1> DEFINE N == Cardinality(Nodes)
           first == At(s, 1)
           Cut(k) == IF k < Len(s) THEN k + 1 ELSE Len(s)
           Step(w) == IF w = <<>> \/ next_[w[Len(w)]] = Nil THEN w ELSE Append(w, next_[w[Len(w)]])
           Start == IF first = Nil THEN <<>> ELSE <<first>>
           Walked(f) == f = [k \in 0 .. N |->
               IF k = 0 THEN IF first = Nil THEN <<>> ELSE <<first>>
               ELSE LET w == f[k - 1]
                    IN  IF w = <<>> \/ next_[w[Len(w)]] = Nil THEN w ELSE Append(w, next_[w[Len(w)]])]
           walk == CHOOSE f : Walked(f)
           Gives(k) == SubSeq(s, 1, Cut(k))
<1>1. /\ Len(s) \in Nat /\ N \in Nat /\ Len(s) =< N /\ Nil \notin Nodes
      /\ \A i \in 1 .. Len(s) : s[i] \in Nodes
  BY NotLonger, LenProperties, ElementOfSeq DEF NodesAreAddresses
<1>2. Gives(0) = Start
  <2>1. CASE Len(s) = 0
    BY <1>1, <2>1, SubSeqEmpty, EmptySeq DEF At
  <2>2. CASE Len(s) # 0
    <3>1. 1 \in 1 .. Len(s) /\ Cut(0) = 1 /\ first = s[1] /\ first # Nil
      BY <1>1, <2>2 DEF At
    <3>2. SubSeq(s, 1, 1) \in Seq(Nodes) /\ Len(SubSeq(s, 1, 1)) = 1 /\ SubSeq(s, 1, 1)[1] = s[1]
      BY <1>1, <3>1, SubSeqProperties
    <3>3. <<s[1]>> \in Seq(Nodes) /\ Len(<<s[1]>>) = 1 /\ <<s[1]>>[1] = s[1]
      BY <1>1, <3>1
    <3>4. SubSeq(s, 1, 1) = <<s[1]>>
      <4>1. \A i \in 1 .. 1 : SubSeq(s, 1, 1)[i] = <<s[1]>>[i]
        BY <3>2, <3>3
      <4> QED
        BY <3>2, <3>3, <4>1, SeqEqual
    <3> QED
      BY <3>1, <3>4
  <2> QED
    BY <2>1, <2>2
<1>3. ASSUME NEW k \in 1 .. N PROVE Gives(k) = Step(Gives(k - 1))
  <2> DEFINE w == Gives(k - 1)
             c == Cut(k - 1)
  <2>1. c \in 0 .. Len(s) /\ w \in Seq(Nodes) /\ Len(w) = c /\ \A i \in 1 .. c : w[i] = s[i]
    <3>1. c \in 0 .. Len(s)
      BY <1>1
    <3>2. w = SubSeq(s, 1, c)
      OBVIOUS
    <3> HIDE DEF c, w
    <3>3. /\ SubSeq(s, 1, c) \in Seq(Nodes) /\ Len(SubSeq(s, 1, c)) = c
          /\ \A i \in 1 .. c : SubSeq(s, 1, c)[i] = s[i]
      BY <3>1, <1>1, SubSeqProperties
    <3> QED
      BY <3>1, <3>2, <3>3
  <2>2. CASE c = Len(s)
    <3>1. Cut(k) = c
      BY <1>1, <2>2
    <3>2. CASE c = 0
      <4>1. w = <<>>
        BY <2>1, <3>2, EmptySeq
      <4> QED
        BY <3>1, <4>1
    <3>3. CASE c # 0
      <4>1. c \in 1 .. Len(s) /\ w[Len(w)] = s[c] /\ next_[s[c]] = Nil
        BY <1>1, <2>1, <2>2, <3>3 DEF At
      <4> QED
        BY <3>1, <4>1
    <3> QED
      BY <3>2, <3>3
  <2>3. CASE c # Len(s)
    <3>1. c = k /\ Cut(k) = k + 1 /\ k \in 1 .. Len(s) /\ k + 1 \in 1 .. Len(s)
      BY <1>1, <2>1, <2>3
    <3>2. w[Len(w)] = s[k] /\ next_[s[k]] = s[k + 1] /\ s[k + 1] # Nil /\ w # <<>>
      BY <1>1, <2>1, <3>1, EmptySeq DEF At
    <3>3. Gives(k) = Append(w, s[k + 1])
      <4>1. Gives(k) = SubSeq(s, 1, k + 1) /\ w = SubSeq(s, 1, k)
        BY <3>1
      <4>2. /\ SubSeq(s, 1, k + 1) \in Seq(Nodes) /\ Len(SubSeq(s, 1, k + 1)) = k + 1
            /\ \A i \in 1 .. k + 1 : SubSeq(s, 1, k + 1)[i] = s[i]
        BY <1>1, <3>1, SubSeqProperties
      <4>3. /\ Append(w, s[k + 1]) \in Seq(Nodes) /\ Len(Append(w, s[k + 1])) = k + 1
            /\ \A i \in 1 .. k + 1 : Append(w, s[k + 1])[i] = s[i]
        BY <1>1, <2>1, <3>1, AppendProperties
      <4> QED
        BY <4>1, <4>2, <4>3, SeqEqual
    <3> QED
      BY <3>2, <3>3
  <2> QED
    BY <2>2, <2>3
<1>4. Gives(N) = s
  <2>1. Cut(N) = Len(s)
    BY <1>1
  <2> QED
    BY <2>1, SubSeqFull
<1>5. Walked([k \in 0 .. N |-> Gives(k)])
  <2> DEFINE f == [k \in 0 .. N |-> Gives(k)]
  <2> HIDE DEF Gives, Start, Step
  <2>1. \A k \in 0 .. N : f[k] = IF k = 0 THEN Start ELSE Step(f[k - 1])
    <3>1. TAKE k \in 0 .. N
    <3>2. k = 0 \/ (k \in 1 .. N /\ k # 0 /\ k - 1 \in 0 .. N)
      BY <1>1
    <3> QED
      BY <1>2, <1>3, <3>2
  <2>2. f = [k \in 0 .. N |-> f[k]]
    OBVIOUS
  <2> HIDE DEF f
  <2>3. f = [k \in 0 .. N |-> IF k = 0 THEN Start ELSE Step(f[k - 1])]
    BY <2>1, <2>2
  <2>4. Walked(f)
    BY <2>3 DEF Start, Step
  <2> QED
    BY <2>4 DEF f
<1>6. Walked(walk)
  <2> HIDE DEF Walked
  <2> QED
    BY <1>5
<1>7. From(first) = walk[N]
  BY DEF From
<1> HIDE DEF walk
<1>8. /\ walk[0] = Start
      /\ \A k \in 1 .. N : walk[k] = Step(walk[k - 1])
  <2>1. \A k \in 0 .. N : walk[k] = IF k = 0 THEN Start ELSE Step(walk[k - 1])
    BY <1>6, Zenon
  <2>2. 0 \in 0 .. N /\ \A k \in 1 .. N : k \in 0 .. N /\ k # 0
    BY <1>1
  <2> QED
    BY <2>1, <2>2
<1> DEFINE T == {k \in 0 .. N : walk[k] = Gives(k)}
<1>9. T = 0 .. N
  <2> HIDE DEF Gives, Start, Step
  <2>1. 0 \in T
    BY <1>1, <1>2, <1>8
  <2>2. ASSUME NEW k \in 1 .. N, k - 1 \in T PROVE k \in T
    BY <1>1, <1>3, <1>8, <2>2
  <2>3. T \in SUBSET (0 .. N)
    OBVIOUS
  <2> HIDE DEF T, N
  <2> QED
    BY <1>1, <2>1, <2>2, <2>3, InductionUpTo
<1> QED
  <2>1. N \in T
    BY <1>1, <1>9
  <2> QED
    BY <1>4, <1>7, <2>1

\* The walks are the sequences that the links are those of.
LEMMA WalksAre ==
    NodesAreAddresses => \A S \in [Lists -> Seq(Nodes)] : Holds(S) => Walks = S
<1> SUFFICES ASSUME NodesAreAddresses, NEW S \in [Lists -> Seq(Nodes)], Holds(S)
             PROVE  Walks = S
  OBVIOUS
<1>1. ASSUME NEW l \in Lists PROVE From(front_[l]) = S[l]
  <2>1. S[l] \in Seq(Nodes) /\ front_[l] = At(S[l], 1)
    BY DEF Holds, Ends
  <2>2. \A i, j \in 1 .. Len(S[l]) : S[l][i] = S[l][j] => i = j
    BY DEF Holds, Distinct
  <2>3. \A i \in 1 .. Len(S[l]) : next_[S[l][i]] = At(S[l], i + 1)
    BY DEF Holds, Links
  <2>4. From(At(S[l], 1)) = S[l]
    BY <2>1, <2>2, <2>3, WalkGives
  <2> QED
    BY <2>1, <2>4
<1> QED
  BY <1>1 DEF Walks

\* The elements of the sequences.
LEMMA Elements ==
    ASSUME NodesAreAddresses, NEW S, Holds(S)
    PROVE  /\ \A l \in Lists :
                 /\ S[l] \in Seq(Nodes) /\ Len(S[l]) \in Nat /\ DOMAIN S[l] = 1 .. Len(S[l])
                 /\ \A i \in 1 .. Len(S[l]) : S[l][i] \in Nodes
                 /\ NodesOf(l) = {S[l][i] : i \in 1 .. Len(S[l])}
           /\ Free = {n \in Nodes : ~In(S, n)}
<1>1. ASSUME NEW l \in Lists
      PROVE  /\ S[l] \in Seq(Nodes) /\ Len(S[l]) \in Nat /\ DOMAIN S[l] = 1 .. Len(S[l])
             /\ \A i \in 1 .. Len(S[l]) : S[l][i] \in Nodes
             /\ NodesOf(l) = {S[l][i] : i \in 1 .. Len(S[l])}
  <2>1. S[l] \in Seq(Nodes) /\ S \in [Lists -> Seq(Nodes)]
    BY DEF Holds
  <2>2. Len(S[l]) \in Nat /\ DOMAIN S[l] = 1 .. Len(S[l]) /\ \A i \in 1 .. Len(S[l]) : S[l][i] \in Nodes
    BY <2>1, LenProperties, ElementOfSeq
  <2>3. From(front_[l]) = S[l]
    BY <2>1, WalksAre DEF Walks
  <2>4. NodesOf(l) = {S[l][i] : i \in 1 .. Len(S[l])}
    BY <2>2, <2>3 DEF NodesOf
  <2> QED
    BY <2>1, <2>2, <2>4
<1>2. \A n : (\E l \in Lists : n \in NodesOf(l)) <=> In(S, n)
  BY <1>1 DEF In
<1>3. Free = {n \in Nodes : ~In(S, n)}
  BY <1>2 DEF Free
<1> QED
  BY <1>1, <1>3

\* new returns an address that is in no list.
LEMMA NewNodeIsFree == ASSUME NodesAreAddresses, Free # {} PROVE NewNode \in Free
<1>1. Free \in SUBSET Nat
  BY DEF Free, NodesAreAddresses
<1>2. \E n \in Free : \A m \in Free : n =< m
  BY <1>1, LeastNumber
<1> HIDE DEF Free
<1> QED
  BY <1>2 DEF NewNode

-----------------------------------------------------------------------------
(***************************************************************************)
(* What the operations do to the sequences.                                *)
(***************************************************************************)
\* A node at the end.
LEMMA PushBackAppends ==
    ASSUME NodesAreAddresses, NEW S, Holds(S), NEW l \in Lists, PushBack(l)
    PROVE  \E n \in Nodes : ~In(S, n) /\ Holds([S EXCEPT ![l] = Append(@, n)])'
<1> DEFINE n == NewNode
<1>0. Nil \notin Nodes /\ S \in [Lists -> Seq(Nodes)]
  BY DEF NodesAreAddresses, Holds
<1>1. n \in Nodes /\ ~In(S, n)
  BY NewNodeIsFree, Elements DEF PushBack
<1>2. PICK a \in Nodes : a = n /\ ~In(S, a)
  BY <1>1
<1> DEFINE T == [S EXCEPT ![l] = Append(@, a)]
<1>3. \A k \in Lists : /\ S[k] \in Seq(Nodes) /\ Len(S[k]) \in Nat
                       /\ \A i \in 1 .. Len(S[k]) : S[k][i] \in Nodes /\ S[k][i] # a
  BY <1>2, Elements DEF In
<1>4. /\ T \in [Lists -> Seq(Nodes)]
      /\ \A k \in Lists : k # l => T[k] = S[k]
      /\ Len(T[l]) = Len(S[l]) + 1 /\ T[l][Len(S[l]) + 1] = a
      /\ \A i \in 1 .. Len(S[l]) : T[l][i] = S[l][i]
  BY <1>0, <1>2, <1>3, AppendProperties
<1> HIDE DEF T
<1>5. Distinct(T)
  <2> SUFFICES ASSUME NEW j \in Lists, NEW k \in Lists, NEW x \in 1 .. Len(T[j]), NEW y \in 1 .. Len(T[k]),
                      T[j][x] = T[k][y]
               PROVE  j = k /\ x = y
    BY DEF Distinct
  <2>1. T[j][x] = a <=> j = l /\ x = Len(S[l]) + 1
    BY <1>3, <1>4
  <2>2. T[k][y] = a <=> k = l /\ y = Len(S[l]) + 1
    BY <1>3, <1>4
  <2>3. CASE T[j][x] # a
    <3>1. x \in 1 .. Len(S[j]) /\ y \in 1 .. Len(S[k]) /\ S[j][x] = S[k][y]
      BY <1>3, <1>4, <2>1, <2>2, <2>3
    <3> QED
      BY <3>1 DEF Holds, Distinct
  <2> QED
    BY <2>1, <2>2, <2>3
<1>6. Types'
  <2>1. Types
    BY DEF Holds
  <2> HIDE DEF n
  <2>2. next_' \in [Nodes -> Nodes \cup {Nil}] /\ prev_' \in [Nodes -> Nodes \cup {Nil}]
    <3>1. back_[l] \in Nodes \cup {Nil} /\ a \in Nodes
      BY <2>1 DEF Types
    <3>2. \/ UNCHANGED <<prev_, next_>>
          \/ prev_' = [prev_ EXCEPT ![a] = back_[l]] /\ next_' = [next_ EXCEPT ![back_[l]] = a]
      BY <1>2 DEF PushBack, n
    <3> QED
      BY <2>1, <3>1, <3>2 DEF Types
  <2>3. front_' \in [Lists -> Nodes \cup {Nil}] /\ back_' \in [Lists -> Nodes \cup {Nil}]
    <3>1. front_' \in {front_, [front_ EXCEPT ![l] = a]} /\ back_' = [back_ EXCEPT ![l] = a]
      BY <1>2 DEF PushBack, n
    <3> QED
      BY <1>2, <2>1, <3>1 DEF Types
  <2>4. size_' \in [Lists -> Int]
    BY <2>1 DEF Types, PushBack
  <2> QED
    BY <2>2, <2>3, <2>4 DEF Types
<1>7. front_[l] = Nil <=> Len(S[l]) = 0
  BY <1>0, <1>3 DEF Holds, Ends, At
<1>8. Ends(T)'
  <2>1. ASSUME NEW k \in Lists PROVE front_'[k] = At(T[k], 1) /\ back_'[k] = At(T[k], Len(T[k]))
    <3>1. CASE k # l
      BY <1>4, <3>1 DEF PushBack, Holds, Ends, Types
    <3>2. CASE k = l
      <4>1. back_'[l] = a /\ front_'[l] = IF front_[l] = Nil THEN a ELSE front_[l]
        BY <1>2 DEF PushBack, Holds, Types
      <4>2. Len(S[l]) \in Nat /\ Len(T[l]) = Len(S[l]) + 1 /\ T[l][Len(S[l]) + 1] = a
        BY <1>3, <1>4
      <4>3. At(T[l], Len(T[l])) = a
        BY <4>2 DEF At
      <4>4. front_[l] # Nil => 1 \in 1 .. Len(S[l]) /\ T[l][1] = S[l][1] /\ front_[l] = S[l][1]
        <5>1. front_[l] = At(S[l], 1)
          BY DEF Holds, Ends
        <5>2. front_[l] # Nil => 1 \in 1 .. Len(S[l])
          BY <1>7, <4>2
        <5> QED
          BY <1>4, <5>1, <5>2 DEF At
      <4>5. At(T[l], 1) = IF front_[l] = Nil THEN a ELSE front_[l]
        <5>1. 1 \in 1 .. Len(T[l])
          BY <4>2
        <5>2. front_[l] = Nil => T[l][1] = a
          BY <1>7, <4>2
        <5> QED
          BY <4>4, <5>1, <5>2 DEF At
      <4> QED
        BY <3>2, <4>1, <4>3, <4>5
    <3> QED
      BY <3>1, <3>2
  <2> QED
    BY <2>1 DEF Ends
<1>9. \A m \in Nodes : /\ next_'[m] = IF front_[l] # Nil /\ m = back_[l] THEN a ELSE next_[m]
                       /\ prev_'[m] = IF front_[l] # Nil /\ m = a THEN back_[l] ELSE prev_[m]
  BY <1>2 DEF PushBack, Holds, Types
<1>10. next_[a] = Nil /\ prev_[a] = Nil
  BY <1>2 DEF Holds, Outside
<1>11. Links(T)'
  <2>1. ASSUME NEW k \in Lists, NEW i \in 1 .. Len(T[k])
        PROVE  next_'[T[k][i]] = At(T[k], i + 1) /\ prev_'[T[k][i]] = At(T[k], i - 1)
    <3>1. front_[l] # Nil => back_[l] = S[l][Len(S[l])] /\ Len(S[l]) \in 1 .. Len(S[l])
      BY <1>3, <1>7 DEF Holds, Ends, At
    <3>2. CASE k # l
      <4>1. T[k] = S[k] /\ i \in 1 .. Len(S[k]) /\ S[k][i] # a /\ S[k][i] \in Nodes
        BY <1>3, <1>4, <3>2
      <4>2. front_[l] # Nil => S[k][i] # back_[l]
        BY <3>1, <3>2, <4>1 DEF Holds, Distinct
      <4>3. next_[S[k][i]] = At(S[k], i + 1) /\ prev_[S[k][i]] = At(S[k], i - 1)
        BY <4>1 DEF Holds, Links
      <4> QED
        BY <1>9, <4>1, <4>2, <4>3
    <3>3. CASE k = l /\ i \in 1 .. Len(S[l])
      <4>1. T[l][i] = S[l][i] /\ S[l][i] # a /\ S[l][i] \in Nodes
        BY <1>3, <1>4, <3>3
      <4>2. front_[l] # Nil
        BY <1>3, <1>7, <3>3
      <4>3. S[l][i] = back_[l] <=> i = Len(S[l])
        BY <3>1, <3>3, <4>2 DEF Holds, Distinct
      <4>4. next_[S[l][i]] = At(S[l], i + 1) /\ prev_[S[l][i]] = At(S[l], i - 1)
        BY <3>3 DEF Holds, Links
      <4>5. next_'[T[l][i]] = IF i = Len(S[l]) THEN a ELSE At(S[l], i + 1)
        BY <1>9, <4>1, <4>2, <4>3, <4>4
      <4>6. prev_'[T[l][i]] = At(S[l], i - 1)
        BY <1>9, <4>1, <4>4
      <4>7. At(T[l], i + 1) = (IF i = Len(S[l]) THEN a ELSE At(S[l], i + 1)) /\ At(T[l], i - 1) = At(S[l], i - 1)
        BY <1>3, <1>4, <3>3 DEF At
      <4> QED
        BY <3>3, <4>5, <4>6, <4>7
    <3>4. CASE k = l /\ i = Len(S[l]) + 1
      <4>1. T[l][i] = a
        BY <1>4, <3>4
      <4>2. next_'[a] = Nil
        BY <1>2, <1>3, <1>9, <1>10, <3>1
      <4>3. prev_'[a] = IF front_[l] # Nil THEN back_[l] ELSE Nil
        BY <1>9, <1>10
      <4>4. At(T[l], i + 1) = Nil
        BY <1>3, <1>4, <3>4 DEF At
      <4>5. At(T[l], i - 1) = IF front_[l] # Nil THEN back_[l] ELSE Nil
        BY <1>3, <1>4, <1>7, <3>1, <3>4 DEF At
      <4> QED
        BY <3>4, <4>1, <4>2, <4>3, <4>4, <4>5
    <3> QED
      BY <1>3, <1>4, <3>2, <3>3, <3>4
  <2> QED
    BY <2>1 DEF Links
<1> QED
  <2>1. \A m : In(S, m) => In(T, m)
    BY <1>3, <1>4 DEF In
  <2>2. In(T, a)
    BY <1>3, <1>4 DEF In
  <2>3. Outside(T)'
    <3>1. ASSUME NEW m \in Nodes, ~In(T, m) PROVE next_'[m] = Nil /\ prev_'[m] = Nil
      <4>1. m # a /\ ~In(S, m)
        BY <2>1, <2>2, <3>1
      <4>2. front_[l] # Nil => m # back_[l]
        BY <1>3, <1>7, <4>1 DEF Holds, Ends, At, In
      <4> QED
        BY <1>9, <4>1, <4>2 DEF Holds, Outside
    <3> QED
      BY <3>1 DEF Outside, In
  <2>4. AtHome(T)'
    BY <2>1 DEF AtHome, Holds, PushBack, In
  <2>5. Holds(T)'
    BY <1>4, <1>5, <1>6, <1>8, <1>11, <2>3, <2>4 DEF Holds, Distinct
  <2> QED
    BY <1>2, <2>5 DEF T

\* A node in front.
LEMMA PushFrontPrepends ==
    ASSUME NodesAreAddresses, NEW S, Holds(S), NEW l \in Lists, PushFront(l)
    PROVE  \E n \in Nodes : ~In(S, n) /\ Holds([S EXCEPT ![l] = <<n>> \o @])'
<1>0. Nil \notin Nodes /\ S \in [Lists -> Seq(Nodes)]
  BY DEF NodesAreAddresses, Holds
<1>1. NewNode \in Nodes /\ ~In(S, NewNode)
  BY NewNodeIsFree, Elements DEF PushFront
<1>2. PICK a \in Nodes : a = NewNode /\ ~In(S, a)
  BY <1>1
<1> DEFINE T == [S EXCEPT ![l] = <<a>> \o @]
<1>3. \A k \in Lists : /\ S[k] \in Seq(Nodes) /\ Len(S[k]) \in Nat
                       /\ \A i \in 1 .. Len(S[k]) : S[k][i] \in Nodes /\ S[k][i] # a
  BY <1>2, Elements DEF In
<1>4. /\ T \in [Lists -> Seq(Nodes)]
      /\ \A k \in Lists : k # l => T[k] = S[k]
      /\ Len(T[l]) = Len(S[l]) + 1 /\ T[l][1] = a
      /\ \A i \in 2 .. Len(S[l]) + 1 : T[l][i] = S[l][i - 1]
  <2>1. <<a>> \in Seq(Nodes) /\ Len(<<a>>) = 1 /\ <<a>>[1] = a
    BY <1>2
  <2>2. /\ <<a>> \o S[l] \in Seq(Nodes) /\ Len(<<a>> \o S[l]) = 1 + Len(S[l])
        /\ \A i \in 1 .. 1 + Len(S[l]) : (<<a>> \o S[l])[i] = IF i =< 1 THEN <<a>>[i] ELSE S[l][i - 1]
    BY <1>3, <2>1, ConcatProperties
  <2> QED
    BY <1>0, <1>3, <2>1, <2>2
<1> HIDE DEF T
<1>5. Distinct(T)
  <2> SUFFICES ASSUME NEW j \in Lists, NEW k \in Lists, NEW x \in 1 .. Len(T[j]), NEW y \in 1 .. Len(T[k]),
                      T[j][x] = T[k][y]
               PROVE  j = k /\ x = y
    BY DEF Distinct
  <2> DEFINE X == IF j = l THEN x - 1 ELSE x
             Y == IF k = l THEN y - 1 ELSE y
  <2>1. /\ T[j][x] = a <=> j = l /\ x = 1
        /\ T[j][x] # a => X \in 1 .. Len(S[j]) /\ T[j][x] = S[j][X]
    <3>1. CASE j # l
      BY <1>3, <1>4, <3>1
    <3>2. CASE j = l /\ x = 1
      BY <1>4, <3>2
    <3>3. CASE j = l /\ x # 1
      <4>1. x \in 2 .. Len(S[l]) + 1 /\ x - 1 \in 1 .. Len(S[l])
        BY <1>3, <1>4, <3>3
      <4> QED
        BY <1>3, <1>4, <3>3, <4>1
    <3> QED
      BY <3>1, <3>2, <3>3
  <2>2. /\ T[k][y] = a <=> k = l /\ y = 1
        /\ T[k][y] # a => Y \in 1 .. Len(S[k]) /\ T[k][y] = S[k][Y]
    <3>1. CASE k # l
      BY <1>3, <1>4, <3>1
    <3>2. CASE k = l /\ y = 1
      BY <1>4, <3>2
    <3>3. CASE k = l /\ y # 1
      <4>1. y \in 2 .. Len(S[l]) + 1 /\ y - 1 \in 1 .. Len(S[l])
        BY <1>3, <1>4, <3>3
      <4> QED
        BY <1>3, <1>4, <3>3, <4>1
    <3> QED
      BY <3>1, <3>2, <3>3
  <2>3. CASE T[j][x] # a
    <3> HIDE DEF X, Y
    <3>1. j = k /\ X = Y
      BY <2>1, <2>2, <2>3 DEF Holds, Distinct
    <3> QED
      BY <1>3, <1>4, <3>1 DEF X, Y
  <2> QED
    BY <2>1, <2>2, <2>3
<1>6. Types'
  <2>1. Types
    BY DEF Holds
  <2>2. next_' \in [Nodes -> Nodes \cup {Nil}] /\ prev_' \in [Nodes -> Nodes \cup {Nil}]
    <3>1. front_[l] \in Nodes \cup {Nil} /\ a \in Nodes
      BY <2>1 DEF Types
    <3>2. \/ UNCHANGED <<prev_, next_>>
          \/ next_' = [next_ EXCEPT ![a] = front_[l]] /\ prev_' = [prev_ EXCEPT ![front_[l]] = a]
      BY <1>2 DEF PushFront
    <3> QED
      BY <2>1, <3>1, <3>2 DEF Types
  <2>3. front_' \in [Lists -> Nodes \cup {Nil}] /\ back_' \in [Lists -> Nodes \cup {Nil}]
    <3>1. back_' \in {back_, [back_ EXCEPT ![l] = a]} /\ front_' = [front_ EXCEPT ![l] = a]
      BY <1>2 DEF PushFront
    <3> QED
      BY <1>2, <2>1, <3>1 DEF Types
  <2>4. size_' \in [Lists -> Int]
    BY <2>1 DEF Types, PushFront
  <2> QED
    BY <2>2, <2>3, <2>4 DEF Types
<1>7. front_[l] = Nil <=> Len(S[l]) = 0
  BY <1>0, <1>3 DEF Holds, Ends, At
<1>8. Ends(T)'
  <2>1. ASSUME NEW k \in Lists PROVE front_'[k] = At(T[k], 1) /\ back_'[k] = At(T[k], Len(T[k]))
    <3>1. CASE k # l
      BY <1>4, <3>1 DEF PushFront, Holds, Ends, Types
    <3>2. CASE k = l
      <4>1. front_'[l] = a /\ back_'[l] = IF front_[l] = Nil THEN a ELSE back_[l]
        BY <1>2 DEF PushFront, Holds, Types
      <4> QED
        BY <1>3, <1>4, <1>7, <3>2, <4>1 DEF Holds, Ends, At
    <3> QED
      BY <3>1, <3>2
  <2> QED
    BY <2>1 DEF Ends
<1>9. \A m \in Nodes : /\ prev_'[m] = IF front_[l] # Nil /\ m = front_[l] THEN a ELSE prev_[m]
                       /\ next_'[m] = IF front_[l] # Nil /\ m = a THEN front_[l] ELSE next_[m]
  BY <1>2 DEF PushFront, Holds, Types
<1>10. next_[a] = Nil /\ prev_[a] = Nil
  BY <1>2 DEF Holds, Outside
<1>11. front_[l] # Nil => front_[l] = S[l][1] /\ 1 \in 1 .. Len(S[l])
  BY <1>3, <1>7 DEF Holds, Ends, At
<1>12. Links(T)'
  <2>1. ASSUME NEW k \in Lists, NEW i \in 1 .. Len(T[k])
        PROVE  next_'[T[k][i]] = At(T[k], i + 1) /\ prev_'[T[k][i]] = At(T[k], i - 1)
    <3>1. CASE k # l
      <4>1. T[k] = S[k] /\ i \in 1 .. Len(S[k]) /\ S[k][i] # a /\ S[k][i] \in Nodes
        BY <1>3, <1>4, <3>1
      <4>2. front_[l] # Nil => S[k][i] # front_[l]
        BY <1>11, <3>1, <4>1 DEF Holds, Distinct
      <4>3. next_[S[k][i]] = At(S[k], i + 1) /\ prev_[S[k][i]] = At(S[k], i - 1)
        BY <4>1 DEF Holds, Links
      <4> QED
        BY <1>9, <4>1, <4>2, <4>3
    <3>2. CASE k = l /\ i # 1
      <4>1. i - 1 \in 1 .. Len(S[l]) /\ i \in 2 .. Len(S[l]) + 1
        BY <1>3, <1>4, <3>2
      <4>2. T[l][i] = S[l][i - 1] /\ S[l][i - 1] # a /\ S[l][i - 1] \in Nodes
        BY <1>3, <1>4, <4>1
      <4>3. front_[l] # Nil
        BY <1>3, <1>7, <4>1
      <4>4. S[l][i - 1] = front_[l] <=> i = 2
        BY <1>11, <4>1, <4>3 DEF Holds, Distinct
      <4>5. next_[S[l][i - 1]] = At(S[l], i) /\ prev_[S[l][i - 1]] = At(S[l], i - 2)
        <5>1. (i - 1) + 1 = i /\ (i - 1) - 1 = i - 2
          BY <4>1
        <5> QED
          BY <4>1, <5>1 DEF Holds, Links
      <4>6. prev_'[T[l][i]] = IF i = 2 THEN a ELSE At(S[l], i - 2)
        BY <1>9, <4>2, <4>3, <4>4, <4>5
      <4>7. next_'[T[l][i]] = At(S[l], i)
        BY <1>9, <4>2, <4>5
      <4>8. At(T[l], i + 1) = At(S[l], i) /\ At(T[l], i - 1) = IF i = 2 THEN a ELSE At(S[l], i - 2)
        <5>1. \A j \in Int : j # 1 => At(T[l], j) = At(S[l], j - 1)
          <6> SUFFICES ASSUME NEW j \in Int, j # 1 PROVE At(T[l], j) = At(S[l], j - 1)
            OBVIOUS
          <6>1. j \in 1 .. Len(T[l]) <=> j \in 2 .. Len(S[l]) + 1
            BY <1>3, <1>4
          <6>2. j \in 2 .. Len(S[l]) + 1 <=> j - 1 \in 1 .. Len(S[l])
            BY <1>3
          <6> QED
            BY <1>4, <6>1, <6>2 DEF At
        <5>2. At(T[l], 1) = a
          BY <1>3, <1>4 DEF At
        <5>3. i + 1 \in Int /\ i - 1 \in Int /\ i + 1 # 1 /\ (i + 1) - 1 = i /\ (i - 1) - 1 = i - 2 /\ (i - 1 = 1 <=> i = 2)
          BY <4>1
        <5> QED
          BY <5>1, <5>2, <5>3
      <4> QED
        BY <3>2, <4>6, <4>7, <4>8
    <3>3. CASE k = l /\ i = 1
      <4>1. prev_'[a] = Nil
        BY <1>2, <1>3, <1>9, <1>10, <1>11
      <4>2. next_'[a] = IF front_[l] # Nil THEN front_[l] ELSE Nil
        BY <1>9, <1>10
      <4>3. At(T[l], 0) = Nil /\ At(T[l], 2) = IF front_[l] # Nil THEN front_[l] ELSE Nil
        BY <1>3, <1>4, <1>7, <1>11 DEF At
      <4> QED
        BY <1>4, <3>3, <4>1, <4>2, <4>3
    <3> QED
      BY <3>1, <3>2, <3>3
  <2> QED
    BY <2>1 DEF Links
<1> QED
  <2>1. \A m : In(S, m) => In(T, m)
    <3>1. ASSUME NEW k \in Lists, NEW i \in 1 .. Len(S[k]) PROVE In(T, S[k][i])
      <4>1. CASE k = l
        <5>1. i + 1 \in 1 .. Len(T[l]) /\ T[l][i + 1] = S[l][i]
          <6>1. i + 1 \in 2 .. Len(S[l]) + 1 /\ (i + 1) - 1 = i
            BY <1>3, <4>1
          <6>2. i + 1 \in 1 .. Len(T[l]) /\ i + 1 \in 2 .. Len(T[l])
            BY <1>3, <1>4, <6>1
          <6> QED
            BY <1>4, <6>1, <6>2
        <5> QED
          BY <4>1, <5>1 DEF In
      <4>2. CASE k # l
        BY <1>4, <4>2 DEF In
      <4> QED
        BY <4>1, <4>2
    <3>2. ASSUME NEW m, In(S, m) PROVE In(T, m)
      <4>1. PICK k \in Lists : \E i \in 1 .. Len(S[k]) : S[k][i] = m
        BY <3>2 DEF In
      <4>2. PICK i \in 1 .. Len(S[k]) : S[k][i] = m
        BY <4>1
      <4> QED
        BY <3>1, <4>2
    <3> QED
      BY <3>2
  <2>2. In(T, a)
    BY <1>3, <1>4 DEF In
  <2>3. Outside(T)'
    <3>1. ASSUME NEW m \in Nodes, ~In(T, m) PROVE next_'[m] = Nil /\ prev_'[m] = Nil
      <4>1. m # a /\ ~In(S, m)
        BY <2>1, <2>2, <3>1
      <4>2. front_[l] # Nil => m # front_[l]
        BY <1>11, <4>1 DEF In
      <4> QED
        BY <1>9, <4>1, <4>2 DEF Holds, Outside
    <3> QED
      BY <3>1 DEF Outside, In
  <2>4. AtHome(T)'
    BY <2>1 DEF AtHome, Holds, PushFront, In
  <2>5. Holds(T)'
    BY <1>4, <1>5, <1>6, <1>8, <1>12, <2>3, <2>4 DEF Holds, Distinct
  <2> QED
    BY <1>2, <2>5 DEF T

\* The sequence without its element at i.
Less(s, i) == [j \in 1 .. Len(s) - 1 |-> IF j < i THEN s[j] ELSE s[j + 1]]

\* A node that goes.
LEMMA ErasesOne ==
    ASSUME NodesAreAddresses, NEW S, Holds(S), NEW l \in Lists, NEW i \in 1 .. Len(S[l]),
           CErase(l, S[l][i]), node_' \in {At(S[l], i + 1), At(S[l], i - 1)}
    PROVE  Holds([S EXCEPT ![l] = Less(S[l], i)])'
<1> DEFINE n == S[l][i]
           T == [S EXCEPT ![l] = Less(S[l], i)]
           from == prev_[n]
           to == next_[n]
<1>0. Nil \notin Nodes /\ S \in [Lists -> Seq(Nodes)] /\ Types
  BY DEF NodesAreAddresses, Holds
<1>1. /\ \A k \in Lists : /\ S[k] \in Seq(Nodes) /\ Len(S[k]) \in Nat
                          /\ \A j \in 1 .. Len(S[k]) : S[k][j] \in Nodes
      /\ n \in Nodes
  BY Elements
<1>2. to = At(S[l], i + 1) /\ from = At(S[l], i - 1)
  BY DEF Holds, Links
<1>3. /\ T \in [Lists -> Seq(Nodes)]
      /\ \A k \in Lists : k # l => T[k] = S[k]
      /\ Len(T[l]) = Len(S[l]) - 1
      /\ \A j \in 1 .. Len(S[l]) - 1 : T[l][j] = IF j < i THEN S[l][j] ELSE S[l][j + 1]
  <2>1. Len(S[l]) - 1 \in Nat
    BY <1>1
  <2>2. \A j \in 1 .. Len(S[l]) - 1 : (IF j < i THEN S[l][j] ELSE S[l][j + 1]) \in Nodes
    BY <1>1
  <2>3. Less(S[l], i) \in [1 .. Len(S[l]) - 1 -> Nodes]
    BY <2>2 DEF Less
  <2>4. Less(S[l], i) \in Seq(Nodes)
    BY <2>1, <2>3, SeqDef
  <2>5. Len(Less(S[l], i)) = Len(S[l]) - 1
    BY <2>1, <2>3, <2>4, LenProperties
  <2>6. \A j \in 1 .. Len(S[l]) - 1 : Less(S[l], i)[j] = IF j < i THEN S[l][j] ELSE S[l][j + 1]
    BY DEF Less
  <2> QED
    BY <1>0, <2>4, <2>5, <2>6
<1> DEFINE Old(k, j) == IF k = l /\ j >= i THEN j + 1 ELSE j
<1>4. \A k \in Lists : \A j \in 1 .. Len(T[k]) :
          /\ Old(k, j) \in 1 .. Len(S[k]) /\ T[k][j] = S[k][Old(k, j)] /\ ~(k = l /\ Old(k, j) = i)
          /\ T[k][j] # n /\ T[k][j] \in Nodes
  <2> SUFFICES ASSUME NEW k \in Lists, NEW j \in 1 .. Len(T[k])
               PROVE  /\ Old(k, j) \in 1 .. Len(S[k]) /\ T[k][j] = S[k][Old(k, j)] /\ ~(k = l /\ Old(k, j) = i)
                      /\ T[k][j] # n /\ T[k][j] \in Nodes
    OBVIOUS
  <2>1. Old(k, j) \in 1 .. Len(S[k]) /\ T[k][j] = S[k][Old(k, j)] /\ ~(k = l /\ Old(k, j) = i)
    BY <1>1, <1>3
  <2> HIDE DEF Old, T
  <2>2. T[k][j] # n
    BY <2>1 DEF Holds, Distinct
  <2> QED
    BY <1>1, <2>1, <2>2
<1>5. \A j, k \in Nat : Old(l, j) = Old(l, k) => j = k
  OBVIOUS
<1> HIDE DEF T
<1>6. Distinct(T)
  <2> SUFFICES ASSUME NEW j \in Lists, NEW k \in Lists, NEW x \in 1 .. Len(T[j]), NEW y \in 1 .. Len(T[k]),
                      T[j][x] = T[k][y]
               PROVE  j = k /\ x = y
    BY DEF Distinct
  <2>1. /\ Old(j, x) \in 1 .. Len(S[j]) /\ Old(k, y) \in 1 .. Len(S[k])
        /\ S[j][Old(j, x)] = S[k][Old(k, y)]
    BY <1>4
  <2>2. j = k /\ Old(j, x) = Old(k, y)
    <3> HIDE DEF Old
    <3> QED
      BY <2>1 DEF Holds, Distinct
  <2>3. x \in Nat /\ y \in Nat
    BY <1>1, <1>3
  <2> QED
    BY <1>5, <2>2, <2>3
<1>7. \A m \in Nodes :
        /\ next_'[m] = IF m = n THEN Nil ELSE IF m = from /\ from # Nil THEN to ELSE next_[m]
        /\ prev_'[m] = IF m = n THEN Nil ELSE IF m = to /\ to # Nil THEN from ELSE prev_[m]
  BY DEF CErase, Joined
<1>8. Types'
  <2>1. from \in Nodes \cup {Nil} /\ to \in Nodes \cup {Nil}
    BY <1>0, <1>1 DEF Types
  <2>2. next_' \in [Nodes -> Nodes \cup {Nil}] /\ prev_' \in [Nodes -> Nodes \cup {Nil}]
    BY <1>0, <2>1 DEF CErase, Joined, Types
  <2>3. front_' \in [Lists -> Nodes \cup {Nil}] /\ back_' \in [Lists -> Nodes \cup {Nil}]
    BY <1>0, <2>1 DEF CErase, FrontWithout, BackWithout, Types
  <2>4. size_' \in [Lists -> Int]
    BY <1>0 DEF CErase, Types
  <2> QED
    BY <2>2, <2>3, <2>4 DEF Types
<1>9. Ends(T)'
  <2>1. ASSUME NEW k \in Lists PROVE front_'[k] = At(T[k], 1) /\ back_'[k] = At(T[k], Len(T[k]))
    <3>1. CASE k # l
      BY <1>0, <1>3, <3>1 DEF CErase, Holds, Ends, Types
    <3>2. CASE k = l
      <4>1. /\ front_'[l] = IF n = front_[l] THEN to ELSE front_[l]
            /\ back_'[l] = IF n = back_[l] THEN from ELSE back_[l]
        BY <1>0 DEF CErase, FrontWithout, BackWithout, Types
      <4>2. front_[l] = S[l][1] /\ back_[l] = S[l][Len(S[l])] /\ 1 \in 1 .. Len(S[l]) /\ Len(S[l]) \in 1 .. Len(S[l])
        BY <1>1 DEF Holds, Ends, At
      <4>3. (n = front_[l] <=> i = 1) /\ (n = back_[l] <=> i = Len(S[l]))
        BY <4>2 DEF Holds, Distinct
      <4>4. front_'[l] = At(T[l], 1)
        <5>1. CASE i = 1
          BY <1>1, <1>2, <1>3, <4>1, <4>3, <5>1 DEF At
        <5>2. CASE i # 1
          BY <1>1, <1>3, <4>1, <4>2, <4>3, <5>2 DEF At
        <5> QED
          BY <5>1, <5>2
      <4>5. back_'[l] = At(T[l], Len(T[l]))
        <5>1. CASE i = Len(S[l])
          <6>1. back_'[l] = At(S[l], i - 1) /\ Len(T[l]) = i - 1
            BY <1>1, <1>2, <1>3, <4>1, <4>3, <5>1
          <6>2. i - 1 \in 1 .. Len(S[l]) <=> i - 1 \in 1 .. i - 1
            BY <1>1, <5>1
          <6>3. i - 1 \in 1 .. i - 1 => T[l][i - 1] = S[l][i - 1]
            BY <1>1, <1>3, <5>1
          <6> QED
            BY <6>1, <6>2, <6>3 DEF At
        <5>2. CASE i # Len(S[l])
          <6>1. back_'[l] = S[l][Len(S[l])]
            BY <4>1, <4>2, <4>3, <5>2
          <6>2. Len(T[l]) = Len(S[l]) - 1 /\ Len(T[l]) \in 1 .. Len(T[l]) /\ ~(Len(T[l]) < i)
            BY <1>1, <1>3, <5>2
          <6>3. T[l][Len(T[l])] = S[l][Len(S[l])]
            BY <1>1, <1>3, <6>2
          <6> QED
            BY <6>1, <6>2, <6>3 DEF At
        <5> QED
          BY <5>1, <5>2
      <4> QED
        BY <3>2, <4>4, <4>5
    <3> QED
      BY <3>1, <3>2
  <2> QED
    BY <2>1 DEF Ends
<1>10. \A k \in Lists : \A j \in 1 .. Len(S[k]) :
          /\ from # Nil => (S[k][j] = from <=> k = l /\ j = i - 1)
          /\ to # Nil => (S[k][j] = to <=> k = l /\ j = i + 1)
  <2> SUFFICES ASSUME NEW k \in Lists, NEW j \in 1 .. Len(S[k])
               PROVE  /\ from # Nil => (S[k][j] = from <=> k = l /\ j = i - 1)
                      /\ to # Nil => (S[k][j] = to <=> k = l /\ j = i + 1)
    OBVIOUS
  <2>1. from # Nil => i - 1 \in 1 .. Len(S[l]) /\ from = S[l][i - 1]
    BY <1>2 DEF At
  <2>2. to # Nil => i + 1 \in 1 .. Len(S[l]) /\ to = S[l][i + 1]
    BY <1>2 DEF At
  <2> HIDE DEF from, to
  <2> QED
    BY <2>1, <2>2 DEF Holds, Distinct
<1>11. Links(T)'
  <2>1. ASSUME NEW k \in Lists, NEW j \in 1 .. Len(T[k])
        PROVE  next_'[T[k][j]] = At(T[k], j + 1) /\ prev_'[T[k][j]] = At(T[k], j - 1)
    <3> DEFINE o == Old(k, j)
    <3>1. o \in 1 .. Len(S[k]) /\ T[k][j] = S[k][o] /\ ~(k = l /\ o = i) /\ T[k][j] # n /\ T[k][j] \in Nodes
      BY <1>4
    <3>2. next_[S[k][o]] = At(S[k], o + 1) /\ prev_[S[k][o]] = At(S[k], o - 1)
      BY <3>1 DEF Holds, Links
    <3>3. /\ next_'[T[k][j]] = IF T[k][j] = from /\ from # Nil THEN to ELSE At(S[k], o + 1)
          /\ prev_'[T[k][j]] = IF T[k][j] = to /\ to # Nil THEN from ELSE At(S[k], o - 1)
      BY <1>7, <3>1, <3>2
    <3>4. CASE k # l
      <4>1. o = j /\ T[k] = S[k]
        BY <1>3, <3>4
      <4> QED
        BY <1>10, <3>1, <3>3, <3>4, <4>1
    <3>5. CASE k = l
      <4>1. /\ from # Nil => (T[k][j] = from <=> o = i - 1)
            /\ to # Nil => (T[k][j] = to <=> o = i + 1)
        BY <1>10, <3>1, <3>5
      <4>2. from = Nil => o # i - 1
        BY <1>0, <1>1, <1>2, <3>1, <3>5 DEF At
      <4>3. to = Nil => o # i + 1
        BY <1>0, <1>1, <1>2, <3>1, <3>5 DEF At
      <4>4. /\ next_'[T[k][j]] = IF o = i - 1 THEN to ELSE At(S[l], o + 1)
            /\ prev_'[T[k][j]] = IF o = i + 1 THEN from ELSE At(S[l], o - 1)
        BY <3>3, <3>5, <4>1, <4>2, <4>3
      <4>5. At(T[l], j + 1) = IF o = i - 1 THEN At(S[l], i + 1) ELSE At(S[l], o + 1)
        BY <1>1, <1>3, <3>5 DEF At
      <4>6. At(T[l], j - 1) = IF o = i + 1 THEN At(S[l], i - 1) ELSE At(S[l], o - 1)
        BY <1>1, <1>3, <3>5 DEF At
      <4> QED
        BY <1>2, <3>5, <4>4, <4>5, <4>6
    <3> QED
      BY <3>4, <3>5
  <2> QED
    BY <2>1 DEF Links
<1>12. ASSUME NEW k \in Lists, NEW j \in 1 .. Len(S[k]), ~(k = l /\ j = i) PROVE In(T, S[k][j])
  <2>1. CASE k = l /\ j > i
    <3>1. j - 1 \in 1 .. Len(T[l]) /\ T[l][j - 1] = S[l][j]
      BY <1>1, <1>3, <2>1
    <3> QED
      BY <2>1, <3>1 DEF In
  <2>2. CASE ~(k = l /\ j > i)
    <3>1. j \in 1 .. Len(T[k]) /\ T[k][j] = S[k][j]
      BY <1>1, <1>3, <1>12, <2>2
    <3> QED
      BY <3>1 DEF In
  <2> QED
    BY <2>1, <2>2
<1>13. Outside(T)'
  <2>1. ASSUME NEW m \in Nodes, ~In(T, m) PROVE next_'[m] = Nil /\ prev_'[m] = Nil
    <3>1. CASE m = n
      BY <1>7, <3>1
    <3>2. CASE m # n
      <4>1. ~In(S, m)
        BY <1>12, <2>1, <3>2 DEF In
      <4>2. (from # Nil => m # from) /\ (to # Nil => m # to)
        BY <1>2, <4>1 DEF At, In
      <4>3. next_[m] = Nil /\ prev_[m] = Nil
        BY <4>1 DEF Holds, Outside
      <4> QED
        BY <1>7, <3>2, <4>2, <4>3
    <3> QED
      BY <3>1, <3>2
  <2> QED
    BY <2>1 DEF Outside, In
<1>14. AtHome(T)'
  <2>1. i + 1 \in 1 .. Len(S[l]) => In(T, At(S[l], i + 1))
    BY <1>12 DEF At
  <2>2. i - 1 \in 1 .. Len(S[l]) => In(T, At(S[l], i - 1))
    BY <1>12 DEF At
  <2>3. node_' = Nil \/ In(T, node_')
    BY <2>1, <2>2 DEF At
  <2> QED
    BY <2>3 DEF AtHome, In
<1>15. Holds(T)'
  BY <1>3, <1>6, <1>8, <1>9, <1>11, <1>13, <1>14 DEF Holds, Distinct
<1> QED
  BY <1>15 DEF T

\* t is s, of length a, and r, of length b, after it, place by place.
IsConcat(t, s, r, a, b) ==
    /\ t \in Seq(Nodes) /\ Len(t) = a + b
    /\ \A x \in 1 .. a : x \in 1 .. a + b /\ t[x] = s[x]
    /\ \A x \in 1 .. b : a + x \in 1 .. a + b /\ t[a + x] = r[x]
    /\ \A x \in 1 .. a + b : x \in 1 .. a \/ \E y \in 1 .. b : x = a + y
    /\ \A x \in Int : x =< a => At(t, x) = At(s, x)
    /\ \A x \in Int : x >= 1 => At(t, a + x) = At(r, x)

\* What \o does is that.
LEMMA ConcatIs ==
    ASSUME NEW s \in Seq(Nodes), NEW r \in Seq(Nodes)
    PROVE  IsConcat(s \o r, s, r, Len(s), Len(r))
<1>0. PICK a \in Nat, b \in Nat : a = Len(s) /\ b = Len(r)
  BY LenProperties
<1> DEFINE t == s \o r
<1>1. /\ t \in Seq(Nodes) /\ Len(t) = a + b
      /\ \A x \in 1 .. a + b : t[x] = IF x =< a THEN s[x] ELSE r[x - a]
  BY <1>0, ConcatProperties
<1> HIDE DEF t
<1>2. ASSUME NEW x \in 1 .. a PROVE x \in 1 .. a + b /\ t[x] = s[x]
  BY <1>0, <1>1
<1>3. ASSUME NEW x \in 1 .. b PROVE a + x \in 1 .. a + b /\ t[a + x] = r[x]
  <2>1. a + x \in 1 .. a + b /\ ~(a + x =< a) /\ (a + x) - a = x
    BY <1>0
  <2> QED
    BY <1>0, <1>1, <2>1
<1>4. ASSUME NEW x \in 1 .. a + b, x \notin 1 .. a PROVE \E y \in 1 .. b : x = a + y
  <2>1. x - a \in 1 .. b /\ x = a + (x - a)
    BY <1>0, <1>4
  <2> QED
    BY <2>1
<1>5. ASSUME NEW x \in Int, x =< a PROVE At(t, x) = At(s, x)
  <2>1. x \in 1 .. a <=> x \in 1 .. a + b
    BY <1>0, <1>5
  <2> QED
    BY <1>0, <1>1, <1>2, <2>1 DEF At
<1>6. ASSUME NEW x \in Int, x >= 1 PROVE At(t, a + x) = At(r, x)
  <2>1. x \in 1 .. b <=> a + x \in 1 .. a + b
    BY <1>0, <1>6
  <2> QED
    BY <1>0, <1>1, <1>3, <2>1 DEF At
<1> QED
  <2>1. IsConcat(t, s, r, a, b)
    BY <1>0, <1>1, <1>2, <1>3, <1>4, <1>5, <1>6 DEF IsConcat
  <2> QED
    BY <1>0, <2>1 DEF t

\* The nodes of one list after those of another.
LEMMA SpliceJoins ==
    ASSUME NodesAreAddresses, NEW S, Holds(S), NEW l \in Lists, NEW m \in Lists, SpliceBack(l, m)
    PROVE  Holds([S EXCEPT ![l] = @ \o S[m], ![m] = <<>>])'
<1> DEFINE T == [S EXCEPT ![l] = @ \o S[m], ![m] = <<>>]
<1>0. Nil \notin Nodes /\ S \in [Lists -> Seq(Nodes)] /\ Types /\ l # m
  BY DEF NodesAreAddresses, Holds, SpliceBack
<1>1. \A k \in Lists : /\ S[k] \in Seq(Nodes) /\ Len(S[k]) \in Nat
                       /\ \A i \in 1 .. Len(S[k]) : S[k][i] \in Nodes
  BY Elements
<1> DEFINE a == Len(S[l])
           b == Len(S[m])
<1>2. a \in Nat /\ b \in Nat
  BY <1>1
<1>3. T[m] = <<>> /\ T[l] = S[l] \o S[m] /\ \A k \in Lists : k # l /\ k # m => T[k] = S[k]
  BY <1>0
<1>4. /\ T[l] \in Seq(Nodes) /\ Len(T[l]) = a + b
      /\ \A x \in 1 .. a : x \in 1 .. a + b /\ T[l][x] = S[l][x]
      /\ \A x \in 1 .. b : a + x \in 1 .. a + b /\ T[l][a + x] = S[m][x]
      /\ \A x \in 1 .. a + b : x \in 1 .. a \/ \E y \in 1 .. b : x = a + y
      /\ \A x \in Int : x =< a => At(T[l], x) = At(S[l], x)
      /\ \A x \in Int : x >= 1 => At(T[l], a + x) = At(S[m], x)
  <2>1. IsConcat(S[l] \o S[m], S[l], S[m], Len(S[l]), Len(S[m]))
    BY <1>1, ConcatIs
  <2>2. IsConcat(T[l], S[l], S[m], a, b)
    BY <1>3, <2>1
  <2> HIDE DEF T, a, b
  <2> QED
    BY <2>2 DEF IsConcat
<1>5. T \in [Lists -> Seq(Nodes)] /\ Len(T[m]) = 0
  <2>1. <<>> \in Seq(Nodes) /\ Len(<<>>) = 0
    BY EmptySeq
  <2> QED
    BY <1>0, <1>3, <1>4, <2>1
<1> HIDE DEF T, a, b
<1>6. ASSUME NEW k \in Lists, NEW i \in 1 .. Len(T[k])
      PROVE  \/ k # l /\ k # m /\ T[k] = S[k]
             \/ k = l /\ i \in 1 .. a /\ T[k][i] = S[l][i]
             \/ k = l /\ \E y \in 1 .. b : i = a + y /\ T[k][i] = S[m][y]
  <2>1. CASE k = m
    BY <1>5, <1>6, <2>1
  <2>2. CASE k = l
    <3>1. i \in 1 .. a + b
      BY <1>4, <1>6, <2>2
    <3>2. CASE i \in 1 .. a
      BY <1>4, <2>2, <3>2
    <3>3. CASE i \notin 1 .. a
      BY <1>4, <2>2, <3>1, <3>3
    <3> QED
      BY <3>2, <3>3
  <2>3. CASE k # l /\ k # m
    BY <1>3, <2>3
  <2> QED
    BY <2>1, <2>2, <2>3
<1>7. /\ \A x \in 1 .. a, y \in 1 .. a : S[l][x] = S[l][y] => x = y
      /\ \A x \in 1 .. b, y \in 1 .. b : S[m][x] = S[m][y] => x = y
      /\ \A x \in 1 .. a, y \in 1 .. b : S[l][x] # S[m][y]
      /\ \A k \in Lists : k # l /\ k # m =>
            \A i \in 1 .. Len(S[k]) : /\ \A x \in 1 .. a : S[k][i] # S[l][x]
                                     /\ \A y \in 1 .. b : S[k][i] # S[m][y]
      /\ \A j, k \in Lists : j # l /\ k # l =>
            \A x \in 1 .. Len(S[j]), y \in 1 .. Len(S[k]) : S[j][x] = S[k][y] => j = k /\ x = y
  BY <1>0 DEF Holds, Distinct, a, b
<1>8. 1 .. a = 1 .. Len(S[l]) /\ 1 .. b = 1 .. Len(S[m])
  BY DEF a, b
<1>9. Distinct(T)
  <2> SUFFICES ASSUME NEW j \in Lists, NEW k \in Lists, NEW x \in 1 .. Len(T[j]), NEW y \in 1 .. Len(T[k]),
                      T[j][x] = T[k][y]
               PROVE  j = k /\ x = y
    BY DEF Distinct
  <2>1. \/ j # l /\ j # m /\ T[j] = S[j]
        \/ j = l /\ x \in 1 .. a /\ T[j][x] = S[l][x]
        \/ j = l /\ \E z \in 1 .. b : x = a + z /\ T[j][x] = S[m][z]
    BY <1>6
  <2>2. \/ k # l /\ k # m /\ T[k] = S[k]
        \/ k = l /\ y \in 1 .. a /\ T[k][y] = S[l][y]
        \/ k = l /\ \E z \in 1 .. b : y = a + z /\ T[k][y] = S[m][z]
    BY <1>6
  <2> DEFINE Third(g, h) == g = l /\ \E z \in 1 .. b : h = a + z /\ T[g][h] = S[m][z]
  <2>3. CASE j # l /\ j # m /\ T[j] = S[j]
    <3>1. x \in 1 .. Len(S[j])
      BY <2>3
    <3>2. CASE k # l /\ k # m /\ T[k] = S[k]
      BY <1>7, <2>3, <3>1, <3>2
    <3>3. CASE k = l
      BY <1>7, <2>2, <2>3, <3>1, <3>3
    <3> QED
      BY <2>2, <3>2, <3>3
  <2>4. CASE j = l /\ x \in 1 .. a /\ T[j][x] = S[l][x]
    <3>1. CASE k # l /\ k # m /\ T[k] = S[k]
      BY <1>7, <2>4, <3>1
    <3>2. CASE k = l /\ y \in 1 .. a /\ T[k][y] = S[l][y]
      BY <1>7, <2>4, <3>2
    <3>3. CASE Third(k, y)
      BY <1>7, <2>4, <3>3
    <3> QED
      BY <2>2, <3>1, <3>2, <3>3
  <2>5. CASE Third(j, x)
    <3>1. CASE k # l /\ k # m /\ T[k] = S[k]
      BY <1>7, <2>5, <3>1
    <3>2. CASE k = l /\ y \in 1 .. a /\ T[k][y] = S[l][y]
      BY <1>7, <2>5, <3>2
    <3>3. CASE Third(k, y)
      BY <1>7, <2>5, <3>3
    <3> QED
      BY <2>2, <3>1, <3>2, <3>3
  <2> QED
    BY <2>1, <2>3, <2>4, <2>5
<1>10. /\ front_[l] = At(S[l], 1) /\ back_[l] = At(S[l], a)
      /\ front_[m] = At(S[m], 1) /\ back_[m] = At(S[m], b)
  BY DEF Holds, Ends, a, b
<1>11. /\ \A x \in Int : At(S[l], x) = IF x \in 1 .. a THEN S[l][x] ELSE Nil
       /\ \A x \in Int : At(S[m], x) = IF x \in 1 .. b THEN S[m][x] ELSE Nil
       /\ \A x \in 1 .. a : S[l][x] # Nil
       /\ \A x \in 1 .. b : S[m][x] # Nil
  BY <1>0, <1>1, <1>8 DEF At
<1>12. (front_[l] = Nil <=> a = 0) /\ (front_[m] = Nil <=> b = 0)
  <2>1. (1 \in 1 .. a <=> a # 0) /\ (1 \in 1 .. b <=> b # 0)
    BY <1>2
  <2> QED
    BY <1>10, <1>11, <2>1
<1> DEFINE both == a # 0 /\ b # 0
<1>13. \A n \in Nodes : /\ next_'[n] = IF both /\ n = back_[l] THEN front_[m] ELSE next_[n]
                        /\ prev_'[n] = IF both /\ n = front_[m] THEN back_[l] ELSE prev_[n]
  BY <1>0, <1>12 DEF SpliceBack, Types
<1>14. Types'
  <2>1. /\ front_[l] \in Nodes \cup {Nil} /\ front_[m] \in Nodes \cup {Nil}
        /\ back_[l] \in Nodes \cup {Nil} /\ back_[m] \in Nodes \cup {Nil}
    BY <1>0 DEF Types
  <2>2. next_' \in [Nodes -> Nodes \cup {Nil}] /\ prev_' \in [Nodes -> Nodes \cup {Nil}]
    <3>1. \/ UNCHANGED <<prev_, next_>>
          \/ next_' = [next_ EXCEPT ![back_[l]] = front_[m]] /\ prev_' = [prev_ EXCEPT ![front_[m]] = back_[l]]
      BY DEF SpliceBack
    <3> QED
      BY <1>0, <2>1, <3>1 DEF Types
  <2>3. front_' \in [Lists -> Nodes \cup {Nil}] /\ back_' \in [Lists -> Nodes \cup {Nil}]
    BY <1>0, <2>1 DEF SpliceBack, Types
  <2>4. size_' \in [Lists -> Int]
    BY <1>0 DEF SpliceBack, Types
  <2> QED
    BY <2>2, <2>3, <2>4 DEF Types
<1>15. Ends(T)'
  <2>1. ASSUME NEW k \in Lists PROVE front_'[k] = At(T[k], 1) /\ back_'[k] = At(T[k], Len(T[k]))
    <3>1. CASE k # l /\ k # m
      BY <1>0, <1>3, <3>1 DEF SpliceBack, Holds, Ends, Types
    <3>2. CASE k = m
      BY <1>0, <1>5, <3>2 DEF SpliceBack, Types, At
    <3>3. CASE k = l
      <4>1. /\ front_'[l] = IF a = 0 THEN At(S[m], 1) ELSE At(S[l], 1)
            /\ back_'[l] = IF a = 0 \/ b # 0 THEN At(S[m], b) ELSE At(S[l], a)
        BY <1>0, <1>10, <1>12 DEF SpliceBack, Types
      <4>2. a = 0 => a + 1 = 1 /\ a + b = b
        BY <1>2
      <4>3. a # 0 => 1 =< a
        BY <1>2
      <4>4. b = 0 => a + b = a /\ a =< a
        BY <1>2
      <4>5. b # 0 => b >= 1
        BY <1>2
      <4>6. At(T[l], 1) = IF a = 0 THEN At(S[m], 1) ELSE At(S[l], 1)
        <5>1. At(T[l], a + 1) = At(S[m], 1) /\ (1 =< a => At(T[l], 1) = At(S[l], 1))
          BY <1>4
        <5> QED
          BY <4>2, <4>3, <5>1
      <4>7. At(T[l], a + b) = IF a = 0 \/ b # 0 THEN At(S[m], b) ELSE At(S[l], a)
        <5>1. b # 0 => At(T[l], a + b) = At(S[m], b)
          BY <1>2, <1>4, <4>5
        <5>2. b = 0 => At(T[l], a + b) = At(S[l], a)
          BY <1>2, <1>4, <4>4
        <5>3. a = 0 /\ b = 0 => At(S[m], b) = Nil /\ At(S[l], a) = Nil
          BY <1>11
        <5> QED
          BY <5>1, <5>2, <5>3
      <4> QED
        BY <1>4, <3>3, <4>1, <4>6, <4>7
    <3> QED
      BY <3>1, <3>2, <3>3
  <2> QED
    BY <2>1 DEF Ends
<1>16. \A k \in Lists : \A i \in 1 .. Len(S[k]) :
          /\ both => (S[k][i] = back_[l] <=> k = l /\ i = a)
          /\ both => (S[k][i] = front_[m] <=> k = m /\ i = 1)
  <2>1. both => 1 \in 1 .. b /\ a \in 1 .. a
    BY <1>2
  <2>2. both => front_[m] = S[m][1] /\ back_[l] = S[l][a]
    BY <1>2, <1>10, <1>11, <2>1
  <2> HIDE DEF both
  <2> SUFFICES ASSUME both, NEW k \in Lists, NEW i \in 1 .. Len(S[k])
               PROVE  (S[k][i] = back_[l] <=> k = l /\ i = a) /\ (S[k][i] = front_[m] <=> k = m /\ i = 1)
    OBVIOUS
  <2>3. CASE k = l
    BY <1>0, <1>7, <1>8, <2>1, <2>2, <2>3
  <2>4. CASE k = m
    <3>1. S[k][i] # S[l][a] /\ (S[k][i] = S[m][1] <=> i = 1)
      BY <1>7, <1>8, <2>1, <2>4
    <3> QED
      BY <1>0, <2>2, <2>4, <3>1
  <2>5. CASE k # l /\ k # m
    <3>1. S[k][i] # S[l][a] /\ S[k][i] # S[m][1]
      BY <1>7, <2>1, <2>5
    <3> QED
      BY <2>2, <2>5, <3>1
  <2> QED
    BY <2>3, <2>4, <2>5
<1>17. \A k \in Lists : \A i \in 1 .. Len(S[k]) :
          /\ next_'[S[k][i]] = IF both /\ k = l /\ i = a THEN front_[m] ELSE At(S[k], i + 1)
          /\ prev_'[S[k][i]] = IF both /\ k = m /\ i = 1 THEN back_[l] ELSE At(S[k], i - 1)
  <2> HIDE DEF both
  <2> QED
    BY <1>1, <1>13, <1>16 DEF Holds, Links
<1>18. Links(T)'
  <2>1. ASSUME NEW k \in Lists, NEW i \in 1 .. Len(T[k])
        PROVE  next_'[T[k][i]] = At(T[k], i + 1) /\ prev_'[T[k][i]] = At(T[k], i - 1)
    <3>1. CASE k # l
      <4>1. k # m /\ T[k] = S[k]
        BY <1>6, <3>1
      <4> QED
        BY <1>17, <3>1, <4>1
    <3>2. CASE k = l /\ i \in 1 .. a /\ T[k][i] = S[l][i]
      <4>1. /\ next_'[T[k][i]] = IF both /\ i = a THEN front_[m] ELSE At(S[l], i + 1)
            /\ prev_'[T[k][i]] = At(S[l], i - 1)
        <5>1. i \in 1 .. Len(S[l])
          BY <1>8, <3>2
        <5> HIDE DEF both
        <5> QED
          BY <1>0, <1>17, <3>2, <5>1
      <4>2. i - 1 \in Int /\ i - 1 =< a /\ i + 1 \in Int /\ (i # a => i + 1 =< a) /\ a # 0
        BY <1>2, <3>2
      <4>3. At(T[l], i - 1) = At(S[l], i - 1) /\ (i # a => At(T[l], i + 1) = At(S[l], i + 1))
        BY <1>4, <4>2
      <4>4. At(T[l], a + 1) = front_[m]
        BY <1>4, <1>10
      <4>5. b = 0 => front_[m] = Nil /\ At(S[l], a + 1) = Nil
        <5>1. a + 1 \in Int /\ a + 1 \notin 1 .. a
          BY <1>2
        <5> QED
          BY <1>11, <1>12, <5>1
      <4> QED
        BY <3>2, <4>1, <4>2, <4>3, <4>4, <4>5
    <3>3. CASE k = l /\ \E y \in 1 .. b : i = a + y /\ T[k][i] = S[m][y]
      <4>1. PICK y \in 1 .. b : i = a + y /\ T[k][i] = S[m][y]
        BY <3>3
      <4>2. /\ next_'[T[k][i]] = At(S[m], y + 1)
            /\ prev_'[T[k][i]] = IF both /\ y = 1 THEN back_[l] ELSE At(S[m], y - 1)
        <5>1. y \in 1 .. Len(S[m])
          BY <1>8
        <5> HIDE DEF both
        <5> QED
          BY <1>0, <1>17, <4>1, <5>1
      <4>3. y + 1 \in Int /\ y + 1 >= 1 /\ i + 1 = a + (y + 1) /\ b # 0
        BY <1>2, <4>1
      <4>4. At(T[l], i + 1) = At(S[m], y + 1)
        BY <1>4, <4>3
      <4>5. CASE y # 1
        <5>1. y - 1 \in Int /\ y - 1 >= 1 /\ i - 1 = a + (y - 1)
          BY <1>2, <4>1, <4>5
        <5>2. At(T[l], i - 1) = At(S[m], y - 1)
          BY <1>4, <5>1
        <5> QED
          BY <3>3, <4>2, <4>4, <4>5, <5>2
      <4>6. CASE y = 1
        <5>1. i - 1 = a /\ y - 1 = 0 /\ a \in Int /\ a =< a
          BY <1>2, <4>1, <4>6
        <5>2. At(T[l], i - 1) = back_[l]
          BY <1>4, <1>10, <5>1
        <5>3. At(S[m], 0) = Nil /\ (a = 0 => back_[l] = Nil)
          BY <1>10, <1>11
        <5> QED
          BY <3>3, <4>2, <4>3, <4>4, <4>6, <5>1, <5>2, <5>3
      <4> QED
        BY <4>5, <4>6
    <3> QED
      BY <1>6, <3>1, <3>2, <3>3
  <2> QED
    BY <2>1 DEF Links
<1>19. \A n : In(S, n) => In(T, n)
  <2>1. ASSUME NEW k \in Lists, NEW i \in 1 .. Len(S[k]) PROVE In(T, S[k][i])
    <3>1. CASE k = m
      <4>1. a + i \in 1 .. Len(T[l]) /\ T[l][a + i] = S[m][i]
        BY <1>4, <1>8, <3>1
      <4> QED
        BY <3>1, <4>1 DEF In
    <3>2. CASE k = l
      <4>1. i \in 1 .. Len(T[l]) /\ T[l][i] = S[l][i]
        BY <1>4, <1>8, <3>2
      <4> QED
        BY <3>2, <4>1 DEF In
    <3>3. CASE k # l /\ k # m
      BY <1>3, <3>3 DEF In
    <3> QED
      BY <3>1, <3>2, <3>3
  <2> QED
    BY <2>1 DEF In
<1>20. Outside(T)'
  <2>1. ASSUME NEW n \in Nodes, ~In(T, n) PROVE next_'[n] = Nil /\ prev_'[n] = Nil
    <3>1. ~In(S, n)
      BY <1>19, <2>1
    <3>2. both => In(S, back_[l]) /\ In(S, front_[m])
      <4>1. both => 1 \in 1 .. b /\ a \in 1 .. a
        BY <1>2
      <4>2. both => front_[m] = S[m][1] /\ back_[l] = S[l][a]
        BY <1>2, <1>10, <1>11, <4>1
      <4> QED
        BY <1>8, <4>1, <4>2 DEF In
    <3>3. next_[n] = Nil /\ prev_[n] = Nil
      BY <3>1 DEF Holds, Outside
    <3> QED
      BY <1>13, <3>1, <3>2, <3>3
  <2> QED
    BY <2>1 DEF Outside, In
<1>21. AtHome(T)'
  <2>1. node_' = node_
    BY DEF SpliceBack
  <2>2. node_ = Nil \/ In(T, node_)
    BY <1>19 DEF Holds, AtHome
  <2> QED
    BY <2>1, <2>2 DEF AtHome, In
<1>22. Holds(T)'
  BY <1>5, <1>9, <1>14, <1>15, <1>18, <1>20, <1>21 DEF Holds, Distinct
<1> QED
  BY <1>22 DEF T

\* Two lists change places, which may be one.
LEMMA SwapChanges ==
    ASSUME NodesAreAddresses, NEW S, Holds(S), NEW l \in Lists, NEW m \in Lists, Swap(l, m)
    PROVE  Holds([S EXCEPT ![l] = S[m], ![m] = S[l]])'
<1> DEFINE T == [S EXCEPT ![l] = S[m], ![m] = S[l]]
           Old(k) == IF k = m THEN l ELSE IF k = l THEN m ELSE k
<1>0. S \in [Lists -> Seq(Nodes)] /\ Types
  BY DEF Holds
<1>1. /\ T \in [Lists -> Seq(Nodes)]
      /\ \A k \in Lists : Old(k) \in Lists /\ T[k] = S[Old(k)] /\ Old(Old(k)) = k
  BY <1>0
<1>2. \A k \in Lists : front_'[k] = front_[Old(k)] /\ back_'[k] = back_[Old(k)]
  BY <1>0 DEF Swap, Types
<1>3. Types'
  BY <1>0 DEF Swap, Types
<1>4. next_' = next_ /\ prev_' = prev_ /\ node_' = node_
  BY DEF Swap
<1> HIDE DEF T, Old
<1>5. Distinct(T)
  <2> SUFFICES ASSUME NEW j \in Lists, NEW k \in Lists, NEW x \in 1 .. Len(T[j]), NEW y \in 1 .. Len(T[k]),
                      T[j][x] = T[k][y]
               PROVE  j = k /\ x = y
    BY DEF Distinct
  <2>1. Old(j) = Old(k) /\ x = y
    BY <1>1 DEF Holds, Distinct
  <2> QED
    BY <1>1, <2>1
<1>6. Ends(T)'
  <2>1. \A k \in Lists : front_'[k] = At(T[k], 1) /\ back_'[k] = At(T[k], Len(T[k]))
    <3>1. ASSUME NEW k \in Lists PROVE front_'[k] = At(T[k], 1) /\ back_'[k] = At(T[k], Len(T[k]))
      <4>1. Old(k) \in Lists /\ T[k] = S[Old(k)] /\ front_'[k] = front_[Old(k)] /\ back_'[k] = back_[Old(k)]
        BY <1>1, <1>2
      <4>2. front_[Old(k)] = At(S[Old(k)], 1) /\ back_[Old(k)] = At(S[Old(k)], Len(S[Old(k)]))
        BY <4>1 DEF Holds, Ends
      <4> QED
        BY <4>1, <4>2
    <3> QED
      BY <3>1
  <2> QED
    BY <2>1 DEF Ends
<1>7. Links(T)'
  <2>1. \A k \in Lists : \A i \in 1 .. Len(T[k]) :
            next_[T[k][i]] = At(T[k], i + 1) /\ prev_[T[k][i]] = At(T[k], i - 1)
    BY <1>1 DEF Holds, Links
  <2> QED
    BY <1>4, <2>1 DEF Links
<1>8. \A n : In(S, n) => In(T, n)
  BY <1>1 DEF In
<1>9. Outside(T)' /\ AtHome(T)'
  <2>1. Outside(T) /\ AtHome(T)
    BY <1>8 DEF Holds, Outside, AtHome
  <2> QED
    BY <1>4, <2>1 DEF Outside, AtHome, In
<1>10. Holds(T)'
  BY <1>1, <1>3, <1>5, <1>6, <1>7, <1>9 DEF Holds, Distinct
<1> QED
  BY <1>10 DEF T

\* A list that is cleared has no nodes, which have no neighbours.
LEMMA ClearEmpties ==
    ASSUME NodesAreAddresses, NEW S, Holds(S), NEW l \in Lists, Clear(l)
    PROVE  Holds([S EXCEPT ![l] = <<>>])'
<1> DEFINE T == [S EXCEPT ![l] = <<>>]
<1>0. S \in [Lists -> Seq(Nodes)] /\ Types /\ Nil \notin Nodes
  BY DEF Holds, NodesAreAddresses
<1>1. /\ T \in [Lists -> Seq(Nodes)] /\ Len(T[l]) = 0
      /\ \A k \in Lists : k # l => T[k] = S[k]
  BY <1>0, EmptySeq
<1>2. /\ NodesOf(l) = {S[l][i] : i \in 1 .. Len(S[l])}
      /\ \A k \in Lists : \A i \in 1 .. Len(S[k]) : S[k][i] \in Nodes
  BY Elements
<1>3. \A k \in Lists : \A i \in 1 .. Len(S[k]) : k # l => S[k][i] \notin NodesOf(l)
  BY <1>2 DEF Holds, Distinct
<1> HIDE DEF T
<1>4. Types'
  BY <1>0 DEF Clear, Types
<1>5. Distinct(T)
  <2>1. \A k \in Lists : \A i \in 1 .. Len(T[k]) : T[k] = S[k]
    BY <1>1
  <2>2. Distinct(S)
    BY DEF Holds
  <2> QED
    BY <2>1, <2>2 DEF Distinct
<1>6. Ends(T)'
  <2>1. \A k \in Lists : front_'[k] = At(T[k], 1) /\ back_'[k] = At(T[k], Len(T[k]))
    BY <1>0, <1>1 DEF Clear, Types, Holds, Ends, At
  <2> QED
    BY <2>1 DEF Ends
<1>7. \A n \in Nodes : /\ next_'[n] = IF n \in NodesOf(l) THEN Nil ELSE next_[n]
                       /\ prev_'[n] = IF n \in NodesOf(l) THEN Nil ELSE prev_[n]
  BY DEF Clear
<1>8. Links(T)'
  <2>1. ASSUME NEW k \in Lists, NEW i \in 1 .. Len(T[k])
        PROVE  next_'[T[k][i]] = At(T[k], i + 1) /\ prev_'[T[k][i]] = At(T[k], i - 1)
    <3>1. k # l
      BY <1>1
    <3>2. T[k] = S[k] /\ i \in 1 .. Len(S[k]) /\ S[k][i] \in Nodes /\ S[k][i] \notin NodesOf(l)
      BY <1>1, <1>2, <1>3, <3>1
    <3> QED
      BY <1>7, <3>2 DEF Holds, Links
  <2> QED
    BY <2>1 DEF Links
<1>9. \A n : In(S, n) => n \in NodesOf(l) \/ In(T, n)
  BY <1>1, <1>2 DEF In
<1>10. Outside(T)'
  <2>1. ASSUME NEW n \in Nodes, ~In(T, n) PROVE next_'[n] = Nil /\ prev_'[n] = Nil
    BY <1>7, <1>9, <2>1 DEF Holds, Outside
  <2> QED
    BY <2>1 DEF Outside, In
<1>11. AtHome(T)'
  <2>1. node_' = Nil \/ In(T, node_')
    BY <1>9 DEF Clear, Holds, AtHome
  <2> QED
    BY <2>1 DEF AtHome, In
<1>12. Holds(T)'
  BY <1>1, <1>4, <1>5, <1>6, <1>8, <1>10, <1>11 DEF Holds, Distinct
<1> QED
  BY <1>12 DEF T

\* The iterator goes to an end of a list, or to a neighbour.
LEMMA IteratorMoves ==
    ASSUME NodesAreAddresses, NEW S, Holds(S), UNCHANGED <<prev_, next_, front_, back_, size_>>,
           \/ node_' = Nil \/ In(S, node_')
    PROVE  Holds(S)'
BY DEF Holds, Types, Ends, Links, Outside, AtHome, In, Distinct

-----------------------------------------------------------------------------
(***************************************************************************)
(* The refinement.                                                         *)
(***************************************************************************)
Kept == \E S \in [Lists -> Seq(Nodes)] : Holds(S)

\* What the names of NodeSequences mean for the sequences that the links are those of.
LEMMA NamesMean ==
    ASSUME NodesAreAddresses, NEW S \in [Lists -> Seq(Nodes)], Holds(S), NEW l \in Lists
    PROVE  /\ Sequence!Members(l) = {S[l][i] : i \in 1 .. Len(S[l])}
           /\ Sequence!Members(l) = NodesOf(l)
           /\ \A i \in 1 .. Len(S[l]) :
                 /\ Sequence!Place(l, S[l][i]) = i
                 /\ Sequence!Neighbour(l, S[l][i], 1) = At(S[l], i + 1)
                 /\ Sequence!Neighbour(l, S[l][i], -1) = At(S[l], i - 1)
                 /\ Sequence!Without(S[l], i) = Less(S[l], i)
<1>1. Walks = S /\ DOMAIN S[l] = 1 .. Len(S[l]) /\ Len(S[l]) \in Nat
  BY WalksAre, Elements
<1>2. Sequence!Members(l) = {S[l][i] : i \in 1 .. Len(S[l])}
  BY <1>1 DEF Sequence!Members, Walks
<1>3. NodesOf(l) = {S[l][i] : i \in 1 .. Len(S[l])}
  BY Elements
<1>4. ASSUME NEW i \in 1 .. Len(S[l])
      PROVE  /\ Sequence!Place(l, S[l][i]) = i
             /\ Sequence!Neighbour(l, S[l][i], 1) = At(S[l], i + 1)
             /\ Sequence!Neighbour(l, S[l][i], -1) = At(S[l], i - 1)
             /\ Sequence!Without(S[l], i) = Less(S[l], i)
  <2>1. Sequence!Place(l, S[l][i]) = CHOOSE j \in 1 .. Len(S[l]) : S[l][j] = S[l][i]
    BY <1>1 DEF Sequence!Place, Walks
  <2>2. \A j \in 1 .. Len(S[l]) : S[l][j] = S[l][i] => j = i
    BY DEF Holds, Distinct
  <2>3. Sequence!Place(l, S[l][i]) = i
    BY <2>1, <2>2
  <2>4. \A d \in {1, -1} : Sequence!Neighbour(l, S[l][i], d)
                              = IF i + d \in 1 .. Len(S[l]) THEN S[l][i + d] ELSE Nil
    BY <1>1, <2>3 DEF Sequence!Neighbour, Walks
  <2>5. i + (-1) = i - 1
    BY <1>1
  <2>6. /\ Sequence!Neighbour(l, S[l][i], 1) = At(S[l], i + 1)
        /\ Sequence!Neighbour(l, S[l][i], -1) = At(S[l], i - 1)
    BY <2>4, <2>5 DEF At
  <2>7. Sequence!Without(S[l], i) = Less(S[l], i)
    BY DEF Sequence!Without, Less
  <2> QED
    BY <2>3, <2>6, <2>7
<1> QED
  BY <1>2, <1>3, <1>4

\* Sequences of the links after a step are the walks then.
LEMMA WalksNext ==
    NodesAreAddresses => \A T \in [Lists -> Seq(Nodes)] : Holds(T)' => Walks' = T
<1>1. (\A T \in [Lists -> Seq(Nodes)] : NodesAreAddresses /\ Holds(T) => Walks = T)'
  <2>1. \A T \in [Lists -> Seq(Nodes)] : NodesAreAddresses /\ Holds(T) => Walks = T
    BY WalksAre
  <2> QED
    BY <2>1, PTL
<1>2. NodesAreAddresses' = NodesAreAddresses
  BY DEF NodesAreAddresses
<1> QED
  BY <1>1, <1>2

\* Every step takes sequences to sequences, as NodeSequences does.
LEMMA EveryStep ==
    ASSUME NodesAreAddresses, Kept, [Next]_vars
    PROVE  Kept' /\ (Sequence!Next \/ UNCHANGED <<Walks, node_, size_>>)
<1>0. PICK S \in [Lists -> Seq(Nodes)] : Holds(S)
  BY DEF Kept
<1>1. Walks = S
  BY <1>0, WalksAre
<1>2. \A T \in [Lists -> Seq(Nodes)] : Holds(T)' => Walks' = T /\ Kept'
  <2>1. ASSUME NEW T \in [Lists -> Seq(Nodes)], Holds(T)' PROVE Kept'
    BY <2>1 DEF Kept
  <2> QED
    BY <2>1, WalksNext
<1>3. \A l \in Lists : /\ S[l] \in Seq(Nodes) /\ Len(S[l]) \in Nat /\ DOMAIN S[l] = 1 .. Len(S[l])
                       /\ \A i \in 1 .. Len(S[l]) : S[l][i] \in Nodes
  BY <1>0, Elements
<1>4. Types
  BY <1>0 DEF Holds
<1>5. Sequence!Fresh = {n \in Nodes : ~In(S, n)}
  <2>1. \A n : (\E l \in Lists : n \in Sequence!Members(l)) <=> In(S, n)
    BY <1>0, NamesMean DEF In
  <2> QED
    BY <2>1 DEF Sequence!Fresh
<1> DEFINE Goal == Kept' /\ (Sequence!Next \/ UNCHANGED <<Walks, node_, size_>>)
<1>6. ASSUME NEW l \in Lists, PushBack(l) PROVE Goal
  <2>1. PICK n \in Nodes : ~In(S, n) /\ Holds([S EXCEPT ![l] = Append(@, n)])'
    BY <1>0, <1>6, PushBackAppends
  <2>2. [S EXCEPT ![l] = Append(@, n)] \in [Lists -> Seq(Nodes)]
    BY <1>3
  <2>3. Walks' = [S EXCEPT ![l] = Append(@, n)] /\ Kept'
    BY <1>2, <2>1, <2>2
  <2>4. Sequence!Push(l)
    BY <1>1, <1>5, <1>6, <2>1, <2>3 DEF Sequence!Push, Walks, PushBack
  <2> QED
    BY <2>3, <2>4 DEF Sequence!Next
<1>7. ASSUME NEW l \in Lists, PushFront(l) PROVE Goal
  <2>1. PICK n \in Nodes : ~In(S, n) /\ Holds([S EXCEPT ![l] = <<n>> \o @])'
    BY <1>0, <1>7, PushFrontPrepends
  <2>2. [S EXCEPT ![l] = <<n>> \o @] \in [Lists -> Seq(Nodes)]
    BY <1>3
  <2>3. Walks' = [S EXCEPT ![l] = <<n>> \o @] /\ Kept'
    BY <1>2, <2>1, <2>2
  <2>4. Sequence!Push(l)
    BY <1>1, <1>5, <1>7, <2>1, <2>3 DEF Sequence!Push, Walks, PushFront
  <2> QED
    BY <2>3, <2>4 DEF Sequence!Next
<1>8. ASSUME NEW l \in Lists, Erase(l) \/ RErase(l) PROVE Goal
  <2>1. PICK i \in 1 .. Len(S[l]) : node_ = S[l][i]
    BY <1>0, <1>8, Elements DEF Erase, RErase
  <2>2. CErase(l, S[l][i]) /\ node_' \in {next_[S[l][i]], prev_[S[l][i]]}
    BY <1>8, <2>1 DEF Erase, RErase
  <2>3. node_' \in {At(S[l], i + 1), At(S[l], i - 1)}
    BY <1>0, <2>2 DEF Holds, Links
  <2> DEFINE T == [S EXCEPT ![l] = Less(S[l], i)]
  <2>4. Holds(T)'
    BY <1>0, <2>2, <2>3, ErasesOne
  <2>5. T \in [Lists -> Seq(Nodes)]
    BY <2>4 DEF Holds
  <2>6. Walks' = T /\ Kept'
    <3> HIDE DEF T
    <3> QED
      BY <1>2, <2>4, <2>5
  <2>7. /\ node_ \in Sequence!Members(l) /\ Sequence!Place(l, node_) = i
        /\ Sequence!Without(S[l], i) = Less(S[l], i)
        /\ \E step \in {1, -1} : node_' = Sequence!Neighbour(l, node_, step)
    BY <1>0, <2>1, <2>3, NamesMean
  <2>8. Walks' = [Walks EXCEPT ![l] = Sequence!Without(@, Sequence!Place(l, node_))]
    BY <1>1, <2>6, <2>7
  <2>9. size_' = [size_ EXCEPT ![l] = @ - 1]
    BY <2>2 DEF CErase
  <2>10. Sequence!Erase(l)
    BY <2>7, <2>8, <2>9 DEF Sequence!Erase, Walks
  <2> QED
    BY <2>6, <2>10 DEF Sequence!Next
<1>9. ASSUME UNCHANGED <<prev_, next_, front_, back_, size_>>, node_' = Nil \/ In(S, node_')
      PROVE  Kept' /\ Walks' = Walks /\ size_' = size_
  <2>1. Holds(S)'
    BY <1>0, <1>9, IteratorMoves
  <2> QED
    BY <1>1, <1>2, <1>9, <2>1
<1>10. ASSUME NEW l \in Lists, Begin(l) \/ RBegin(l) PROVE Goal
  <2>1. node_' \in {At(S[l], 1), At(S[l], Len(S[l]))}
    BY <1>0, <1>10 DEF Begin, RBegin, Holds, Ends
  <2>2. node_' = Nil \/ In(S, node_')
    BY <2>1 DEF At, In
  <2>3. Kept' /\ Walks' = Walks /\ size_' = size_
    BY <1>9, <1>10, <2>2 DEF Begin, RBegin
  <2>4. node_' \in IF S[l] = <<>> THEN {Nil} ELSE {S[l][1], S[l][Len(S[l])]}
    <3>1. CASE S[l] = <<>>
      BY <2>1, <3>1, EmptySeq DEF At
    <3>2. CASE S[l] # <<>>
      <4>1. Len(S[l]) # 0
        BY <1>3, <3>2, EmptySeq
      <4>2. 1 \in 1 .. Len(S[l]) /\ Len(S[l]) \in 1 .. Len(S[l])
        BY <1>3, <4>1
      <4> QED
        BY <2>1, <3>2, <4>2 DEF At
    <3> QED
      BY <3>1, <3>2
  <2>5. Sequence!Start(l)
    BY <1>1, <2>3, <2>4 DEF Sequence!Start, Walks
  <2> QED
    BY <2>3, <2>5 DEF Sequence!Next
<1>11. ASSUME Increment \/ Decrement PROVE Goal
  <2>1. PICK l \in Lists : \E i \in 1 .. Len(S[l]) : node_ = S[l][i]
    BY <1>0, <1>11 DEF Increment, Decrement, Holds, AtHome, In
  <2>0. PICK i \in 1 .. Len(S[l]) : node_ = S[l][i]
    BY <2>1
  <2>2. node_' \in {At(S[l], i + 1), At(S[l], i - 1)}
    BY <1>0, <1>11, <2>0 DEF Increment, Decrement, Holds, Links
  <2>3. node_' = Nil \/ In(S, node_')
    BY <2>2 DEF At, In
  <2>4. Kept' /\ Walks' = Walks /\ size_' = size_
    BY <1>9, <1>11, <2>3 DEF Increment, Decrement
  <2>5. node_ \in Sequence!Members(l) /\ \E step \in {1, -1} : node_' = Sequence!Neighbour(l, node_, step)
    BY <1>0, <2>0, <2>2, NamesMean
  <2>6. Sequence!Move(l)
    BY <2>4, <2>5 DEF Sequence!Move, Walks
  <2> QED
    BY <2>4, <2>6 DEF Sequence!Next
<1>12. ASSUME NEW l \in Lists, NEW m \in Lists, SpliceBack(l, m) PROVE Goal
  <2> DEFINE T == [S EXCEPT ![l] = @ \o S[m], ![m] = <<>>]
  <2>1. Holds(T)'
    BY <1>0, <1>12, SpliceJoins
  <2>2. T \in [Lists -> Seq(Nodes)]
    BY <2>1 DEF Holds
  <2>3. Walks' = T /\ Kept'
    <3> HIDE DEF T
    <3> QED
      BY <1>2, <2>1, <2>2
  <2>4. Sequence!Splice(l, m)
    BY <1>1, <1>12, <2>3 DEF Sequence!Splice, Walks, SpliceBack
  <2> QED
    BY <2>3, <2>4 DEF Sequence!Next
<1>13. ASSUME NEW l \in Lists, NEW m \in Lists, Swap(l, m) PROVE Goal
  <2> DEFINE T == [S EXCEPT ![l] = S[m], ![m] = S[l]]
  <2>1. Holds(T)'
    BY <1>0, <1>13, SwapChanges
  <2>2. T \in [Lists -> Seq(Nodes)]
    BY <2>1 DEF Holds
  <2>3. Walks' = T /\ Kept'
    <3> HIDE DEF T
    <3> QED
      BY <1>2, <2>1, <2>2
  <2>4. Sequence!Swap(l, m)
    BY <1>1, <1>13, <2>3 DEF Sequence!Swap, Walks, Swap
  <2> QED
    BY <2>3, <2>4 DEF Sequence!Next
<1>14. ASSUME NEW l \in Lists, Clear(l) PROVE Goal
  <2> DEFINE T == [S EXCEPT ![l] = <<>>]
  <2>1. Holds(T)'
    BY <1>0, <1>14, ClearEmpties
  <2>2. T \in [Lists -> Seq(Nodes)]
    BY <2>1 DEF Holds
  <2>3. Walks' = T /\ Kept'
    <3> HIDE DEF T
    <3> QED
      BY <1>2, <2>1, <2>2
  <2>4. node_' = IF node_ \in Sequence!Members(l) THEN Nil ELSE node_
    BY <1>0, <1>14, NamesMean DEF Clear
  <2>5. Sequence!Clear(l)
    BY <1>1, <1>14, <2>3, <2>4 DEF Sequence!Clear, Walks, Clear
  <2> QED
    BY <2>3, <2>5 DEF Sequence!Next
<1>15. CASE UNCHANGED vars
  <2>1. node_ = Nil \/ In(S, node_)
    BY <1>0 DEF Holds, AtHome
  <2> QED
    BY <1>9, <1>15, <2>1 DEF vars
<1> QED
  <2> HIDE DEF Goal
  <2>1. ASSUME NEW l \in Lists,
               PushBack(l) \/ PushFront(l) \/ Erase(l) \/ RErase(l) \/ Begin(l) \/ RBegin(l) \/ Clear(l)
        PROVE  Goal
    BY <1>6, <1>7, <1>8, <1>10, <1>14, <2>1
  <2>2. ASSUME NEW l \in Lists, NEW m \in Lists, SpliceBack(l, m) \/ Swap(l, m) PROVE Goal
    BY <1>12, <1>13, <2>2
  <2>3. Next =>
          \/ \E l \in Lists : \/ PushBack(l) \/ PushFront(l) \/ Erase(l) \/ RErase(l)
                            \/ Begin(l) \/ RBegin(l) \/ Clear(l)
          \/ Increment \/ Decrement
          \/ \E l, m \in Lists : SpliceBack(l, m) \/ Swap(l, m)
    BY DEF Next
  <2>4. ASSUME Next PROVE Goal
    BY <1>11, <2>1, <2>2, <2>3, <2>4
  <2>5. CASE UNCHANGED vars
    BY <1>15, <2>5 DEF Goal
  <2>6. Next \/ UNCHANGED vars
    OBVIOUS
  <2> QED
    BY <2>4, <2>5, <2>6 DEF Goal

-----------------------------------------------------------------------------
\* Empty lists have the links of empty sequences.
LEMMA InitKept == Init => Kept
<1> SUFFICES ASSUME Init PROVE Kept
  OBVIOUS
<1> DEFINE S == [l \in Lists |-> <<>>]
<1>1. S \in [Lists -> Seq(Nodes)] /\ \A l \in Lists : Len(S[l]) = 0
  BY EmptySeq
<1> HIDE DEF S
<1>2. Holds(S)
  BY <1>1 DEF Init, Holds, Distinct, Types, Ends, Links, Outside, AtHome, At
<1> QED
  BY <1>1, <1>2 DEF Kept

\* A walk along an empty list is empty.
LEMMA InitSequences == NodesAreAddresses /\ Init => Sequence!Init
<1> SUFFICES ASSUME NodesAreAddresses, Init PROVE Sequence!Init
  OBVIOUS
<1>1. ASSUME NEW l \in Lists PROVE From(front_[l]) = <<>>
  <2>1. <<>> \in Seq(Nodes) /\ Len(<<>>) = 0
    BY EmptySeq
  <2> DEFINE s == <<>>
  <2>2. s \in Seq(Nodes) /\ \A i \in 1 .. Len(s) : FALSE
    BY <2>1
  <2> HIDE DEF s
  <2>3. From(At(s, 1)) = s
    <3>1. /\ \A i, j \in 1 .. Len(s) : s[i] = s[j] => i = j
          /\ \A i \in 1 .. Len(s) : next_[s[i]] = At(s, i + 1)
      BY <2>2
    <3> QED
      BY <2>2, <3>1, WalkGives
  <2>4. front_[l] = At(s, 1)
    BY <2>2 DEF Init, At, s
  <2> QED
    BY <2>3, <2>4 DEF s
<1> QED
  BY <1>1 DEF Init, Sequence!Init

\* Every step of the links is one of the sequences, or none.
LEMMA EveryStepImplements ==
    NodesAreAddresses /\ Kept /\ [Next]_vars => [Sequence!Next]_(Sequence!vars)
<1>1. UNCHANGED <<Walks, node_, size_>> => UNCHANGED Sequence!vars
  BY DEF Sequence!vars, Walks
<1> QED
  BY <1>1, EveryStep

\* The links of both directions are always those of sequences of nodes: from the ends
\* of a list on every node's neighbours along next_ and prev_ are the next and the one
\* before, no node is in two places, and one outside has no neighbours.
THEOREM LinksAreSequences == ASSUME NodesAreAddresses PROVE Spec => []Kept
<1>1. Kept /\ [Next]_vars => Kept'
  BY EveryStep
<1> QED
  BY <1>1, InitKept, PTL DEF Spec

\* Linked lists are sequences (NodeSequences), whatever history of pushes, erases,
\* splices and swaps built them.
THEOREM SequencesImplemented == ASSUME NodesAreAddresses PROVE Spec => ImplementsSequences
<1>1. Init => Sequence!Init
  BY InitSequences
<1>2. Kept /\ [Next]_vars => [Sequence!Next]_(Sequence!vars)
  BY EveryStepImplements
<1> QED
  BY <1>1, <1>2, LinksAreSequences, PTL DEF Spec, ImplementsSequences, Sequence!Spec
===============================================================================
