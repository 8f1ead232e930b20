---------------------------- MODULE ObserversProofs ----------------------------
(***************************************************************************)
(* Proofs about Observers, for any threads, slots, calls and depth: the    *)
(* lists stay sorted and the marks where they belong, a slot unsubscribed  *)
(* before a call is not run by it, no call loses a slot, and no iterator   *)
(* dangles unless a slot calls the observer.                               *)
(***************************************************************************)
EXTENDS Observers, ListLemmas

-----------------------------------------------------------------------------
(***************************************************************************)
(* Lists.                                                                  *)
(***************************************************************************)
Increasing(s) == \A i, j \in DOMAIN s : i < j => s[i] < s[j]

\* Erasing takes out what it should and nothing else, and keeps the order.
LEMMA WithoutProperties ==
    ASSUME NEW S \in SUBSET Nat, NEW s \in Seq(S), NEW ids, NEW r, r = Without(s, ids)
    PROVE  /\ r \in Seq(S)
           /\ Elements(r) = Elements(s) \ ids
           /\ Increasing(s) => Increasing(r)
<1> DEFINE Step(i, w) == IF s[i] \in ids THEN w ELSE Append(w, s[i])
           step == [i \in 1 .. Len(s) |-> [w \in Seq(S) |-> Step(i, w)]]
           Left(f) == f = [i \in 0 .. Len(s) |->
                IF i = 0 THEN <<>> ELSE IF s[i] \in ids THEN f[i - 1] ELSE Append(f[i - 1], s[i])]
           left == CHOOSE f : Left(f)
<1>1. Len(s) \in Nat /\ DOMAIN s = 1 .. Len(s) /\ \A i \in 1 .. Len(s) : s[i] \in S
  BY LenProperties, ElementOfSeq
<1>2. step \in [1 .. Len(s) -> [Seq(S) -> Seq(S)]]
  <2>1. ASSUME NEW i \in 1 .. Len(s), NEW w \in Seq(S) PROVE Step(i, w) \in Seq(S)
    BY <1>1, AppendProperties
  <2> QED
    BY <2>1
<1>3. PICK f \in [0 .. Len(s) -> Seq(S)] :
          f[0] = <<>> /\ \A i \in 1 .. Len(s) : f[i] = step[i][f[i - 1]]
  <2>1. <<>> \in Seq(S)
    BY EmptySeq
  <2> DEFINE D == Seq(S)
             n == Len(s)
  <2>2. n \in Nat /\ <<>> \in D /\ step \in [1 .. n -> [D -> D]]
    BY <1>1, <1>2, <2>1
  <2> HIDE DEF step, D, n
  <2>3. \E f \in [0 .. n -> D] : f[0] = <<>> /\ \A i \in 1 .. n : f[i] = step[i][f[i - 1]]
    <3>1. \E f \in [0 .. n -> D] : Iterates(f, n, <<>>, step)
      BY <2>2, Iteration
    <3> QED
      BY <3>1 DEF Iterates
  <2> QED
    BY <2>3 DEF D, n
<1>4. \A i \in 1 .. Len(s) : f[i - 1] \in Seq(S) /\ f[i] = Step(i, f[i - 1])
  <2>1. ASSUME NEW i \in 1 .. Len(s) PROVE f[i - 1] \in Seq(S) /\ f[i] = Step(i, f[i - 1])
    <3>1. i - 1 \in 0 .. Len(s)
      BY <1>1
    <3> QED
      BY <1>3, <3>1
  <2> QED
    BY <2>1
<1>5. Left(f)
  <2>1. \A i \in 0 .. Len(s) :
          f[i] = IF i = 0 THEN <<>> ELSE IF s[i] \in ids THEN f[i - 1] ELSE Append(f[i - 1], s[i])
    <3>1. TAKE i \in 0 .. Len(s)
    <3>2. i = 0 \/ (i \in 1 .. Len(s) /\ i # 0)
      BY <1>1
    <3> HIDE DEF step, Left, left
    <3> QED
      BY <1>3, <1>4, <3>2 DEF Step
  <2>2. f = [i \in 0 .. Len(s) |-> f[i]]
    OBVIOUS
  <2> QED
    BY <2>1, <2>2
<1>6. Left(left)
  <2> HIDE DEF Left
  <2> QED
    BY <1>5
<1>7. r = left[Len(s)]
  BY DEF Without
<1> HIDE DEF left
<1>8. /\ left[0] = <<>>
      /\ \A i \in 1 .. Len(s) : left[i] = Step(i, left[i - 1])
  <2>1. \A i \in 0 .. Len(s) : left[i] =
          IF i = 0 THEN <<>> ELSE IF s[i] \in ids THEN left[i - 1] ELSE Append(left[i - 1], s[i])
    BY <1>6, Zenon
  <2> QED
    BY <1>1, <2>1
<1> HIDE DEF Left, Step
<1> DEFINE Good(i) == /\ left[i] \in Seq(S)
                      /\ Elements(left[i]) = {s[j] : j \in 1 .. i} \ ids
                      /\ Increasing(s) => Increasing(left[i])
           T == {i \in 0 .. Len(s) : Good(i)}
<1>9. 0 \in T
  <2>1. left[0] = <<>> /\ left[0] \in Seq(S) /\ DOMAIN left[0] = {} /\ 0 \in 0 .. Len(s)
    BY <1>1, <1>8, EmptySeq
  <2>2. Elements(left[0]) = {} /\ Increasing(left[0])
    BY <2>1 DEF Elements, Increasing
  <2>3. {s[j] : j \in 1 .. 0} = {}
    OBVIOUS
  <2> QED
    BY <2>1, <2>2, <2>3
<1>10. ASSUME NEW i \in 1 .. Len(s), i - 1 \in T PROVE i \in T
  <2>1. Good(i - 1) /\ i \in 0 .. Len(s)
    BY <1>1, <1>10
  <2>2. {s[j] : j \in 1 .. i} = {s[j] : j \in 1 .. i - 1} \cup {s[i]}
    BY <1>1
  <2>3. CASE s[i] \in ids
    <3>1. left[i] = left[i - 1]
      BY <1>8, <2>3 DEF Step
    <3> QED
      BY <2>1, <2>2, <2>3, <3>1
  <2>4. CASE s[i] \notin ids
    <3> DEFINE w == left[i - 1]
    <3>1. left[i] = Append(w, s[i]) /\ s[i] \in S
      BY <1>1, <1>8, <2>4 DEF Step
    <3>2. w \in Seq(S) /\ Len(w) \in Nat /\ DOMAIN w = 1 .. Len(w)
      BY <2>1, LenProperties
    <3> HIDE DEF w
    <3>3. /\ left[i] \in Seq(S)
          /\ DOMAIN left[i] = 1 .. Len(w) + 1
          /\ \A j \in 1 .. Len(w) : left[i][j] = w[j]
          /\ left[i][Len(w) + 1] = s[i]
      <4>1. /\ left[i] \in Seq(S) /\ Len(left[i]) = Len(w) + 1
            /\ \A j \in 1 .. Len(w) : left[i][j] = w[j]
            /\ left[i][Len(w) + 1] = s[i]
        BY <3>1, <3>2, AppendProperties
      <4> QED
        BY <4>1, LenProperties
    <3>4. Elements(left[i]) = Elements(w) \cup {s[i]}
      <4>1. \A j \in 1 .. Len(w) + 1 : j \in 1 .. Len(w) \/ j = Len(w) + 1
        BY <3>2
      <4>2. \A j \in 1 .. Len(w) : j \in 1 .. Len(w) + 1
        BY <3>2
      <4>3. Len(w) + 1 \in 1 .. Len(w) + 1
        BY <3>2
      <4>4. \A x : x \in Elements(left[i]) <=> \E j \in 1 .. Len(w) + 1 : left[i][j] = x
        BY <3>3 DEF Elements
      <4>5. \A x : x \in Elements(w) <=> \E j \in 1 .. Len(w) : w[j] = x
        BY <3>2 DEF Elements
      <4> HIDE DEF T
      <4> QED
        BY <3>3, <4>1, <4>2, <4>3, <4>4, <4>5
    <3>5. ASSUME Increasing(s) PROVE Increasing(left[i])
      <4>1. \A j \in 1 .. Len(w) : w[j] < s[i]
        <5>1. ASSUME NEW j \in 1 .. Len(w) PROVE w[j] < s[i]
          <6>1. w[j] \in Elements(w)
            BY <3>2 DEF Elements
          <6>2. PICK k \in 1 .. i - 1 : w[j] = s[k]
            BY <2>1, <6>1 DEF w
          <6>3. k \in DOMAIN s /\ i \in DOMAIN s /\ k < i
            BY <1>1, <6>2
          <6> QED
            BY <3>5, <6>2, <6>3 DEF Increasing
        <5> QED
          BY <5>1
      <4>2. Increasing(w)
        BY <2>1, <3>5 DEF w
      <4>3. DOMAIN left[i] = 1 .. Len(w) + 1
        BY <3>3, LenProperties
      <4>4. ASSUME NEW j \in 1 .. Len(w) + 1, NEW k \in 1 .. Len(w) + 1, j < k
            PROVE  left[i][j] < left[i][k]
        <5>1. j \in 1 .. Len(w)
          BY <3>2, <4>4
        <5>2. CASE k = Len(w) + 1
          BY <3>3, <4>1, <5>1, <5>2
        <5>3. CASE k # Len(w) + 1
          <6>1. k \in 1 .. Len(w)
            <7>1. k \in Int /\ 1 =< k /\ k =< Len(w) + 1 /\ k # Len(w) + 1 /\ Len(w) \in Int
              BY <3>2, <5>3
            <7> HIDE DEF w
            <7> QED
              BY <7>1
          <6>2. w[j] < w[k]
            BY <3>2, <4>2, <4>4, <5>1, <6>1 DEF Increasing
          <6> QED
            BY <3>3, <5>1, <6>1, <6>2
        <5> QED
          BY <5>2, <5>3
      <4> QED
        BY <4>3, <4>4 DEF Increasing
    <3> QED
      BY <2>1, <2>2, <2>4, <3>3, <3>4, <3>5 DEF w
  <2> QED
    BY <2>3, <2>4
<1> HIDE DEF Good
<1>11. T = 0 .. Len(s)
  <2>1. T \in SUBSET (0 .. Len(s))
    OBVIOUS
  <2> HIDE DEF T
  <2> QED
    BY <1>1, <1>9, <1>10, <2>1, InductionUpTo
<1>12. Good(Len(s))
  BY <1>1, <1>11
<1> QED
  BY <1>1, <1>7, <1>12 DEF Good, Elements

\* The elements of two lists, one after the other, and their order.
LEMMA ConcatOrdered ==
    ASSUME NEW S \in SUBSET Nat, NEW a \in Seq(S), NEW b \in Seq(S)
    PROVE  /\ a \o b \in Seq(S)
           /\ Elements(a \o b) = Elements(a) \cup Elements(b)
           /\ Increasing(a \o b) <=>
                 /\ Increasing(a) /\ Increasing(b)
                 /\ \A x \in Elements(a), y \in Elements(b) : x < y
<1> DEFINE c == a \o b
<1>1. /\ Len(a) \in Nat /\ DOMAIN a = 1 .. Len(a) /\ Len(b) \in Nat /\ DOMAIN b = 1 .. Len(b)
      /\ c \in Seq(S) /\ DOMAIN c = 1 .. Len(a) + Len(b)
  <2>1. c \in Seq(S) /\ Len(c) = Len(a) + Len(b)
    BY ConcatProperties
  <2>2. DOMAIN c = 1 .. Len(c)
    BY <2>1, LenProperties
  <2> QED
    BY <2>1, <2>2, LenProperties
<1>2. \A i \in 1 .. Len(a) : i \in DOMAIN c /\ c[i] = a[i]
  BY <1>1, ConcatProperties
<1>3. \A i \in 1 .. Len(b) : Len(a) + i \in DOMAIN c /\ c[Len(a) + i] = b[i]
  BY <1>1, ConcatProperties
<1>4. \A i \in DOMAIN c : i \in 1 .. Len(a) \/ (i - Len(a) \in 1 .. Len(b) /\ c[i] = b[i - Len(a)])
  BY <1>1, ConcatProperties
<1> HIDE DEF c
<1>5. Elements(c) = Elements(a) \cup Elements(b)
  <2>1. Elements(a) \subseteq Elements(c)
    BY <1>1, <1>2 DEF Elements
  <2>2. Elements(b) \subseteq Elements(c)
    BY <1>1, <1>3 DEF Elements
  <2>3. Elements(c) \subseteq Elements(a) \cup Elements(b)
    BY <1>1, <1>2, <1>4 DEF Elements
  <2> QED
    BY <2>1, <2>2, <2>3
<1>6. ASSUME Increasing(c)
      PROVE  Increasing(a) /\ Increasing(b) /\ \A x \in Elements(a), y \in Elements(b) : x < y
  <2>1. Increasing(a)
    BY <1>1, <1>2, <1>6 DEF Increasing
  <2>2. ASSUME NEW i \in DOMAIN b, NEW j \in DOMAIN b, i < j PROVE b[i] < b[j]
    <3>1. Len(a) + i < Len(a) + j /\ Len(a) + i \in DOMAIN c /\ Len(a) + j \in DOMAIN c
      BY <1>1, <2>2
    <3> QED
      BY <1>1, <1>3, <1>6, <3>1 DEF Increasing
  <2>3. ASSUME NEW i \in DOMAIN a, NEW j \in DOMAIN b PROVE a[i] < b[j]
    <3>1. i < Len(a) + j /\ i \in DOMAIN c /\ Len(a) + j \in DOMAIN c
      BY <1>1
    <3> QED
      BY <1>1, <1>2, <1>3, <1>6, <3>1 DEF Increasing
  <2> QED
    BY <2>1, <2>2, <2>3 DEF Increasing, Elements
<1>7. ASSUME Increasing(a), Increasing(b), \A x \in Elements(a), y \in Elements(b) : x < y
      PROVE  Increasing(c)
  <2>1. SUFFICES ASSUME NEW i \in DOMAIN c, NEW j \in DOMAIN c, i < j PROVE c[i] < c[j]
    BY DEF Increasing
  <2>2. CASE j \in 1 .. Len(a)
    <3>1. i \in 1 .. Len(a)
      BY <1>1, <2>1, <2>2
    <3> QED
      BY <1>1, <1>2, <1>7, <2>1, <2>2, <3>1 DEF Increasing
  <2>3. CASE j \notin 1 .. Len(a) /\ i \in 1 .. Len(a)
    <3>1. j - Len(a) \in 1 .. Len(b) /\ c[j] = b[j - Len(a)] /\ c[i] = a[i]
      BY <1>2, <1>4, <2>3
    <3> QED
      BY <1>1, <1>7, <2>3, <3>1 DEF Elements
  <2>4. CASE j \notin 1 .. Len(a) /\ i \notin 1 .. Len(a)
    <3>1. /\ j - Len(a) \in 1 .. Len(b) /\ c[j] = b[j - Len(a)]
          /\ i - Len(a) \in 1 .. Len(b) /\ c[i] = b[i - Len(a)]
      BY <1>4, <2>4
    <3>2. i - Len(a) < j - Len(a)
      BY <1>1, <2>1
    <3> QED
      BY <1>1, <1>7, <3>1, <3>2 DEF Increasing
  <2> QED
    BY <2>2, <2>3, <2>4
<1> QED
  BY <1>1, <1>5, <1>6, <1>7 DEF c

\* An element put at the end.
LEMMA AppendOrdered ==
    ASSUME NEW S \in SUBSET Nat, NEW s \in Seq(S), NEW k \in S,
           Increasing(s), \A x \in Elements(s) : x < k
    PROVE  Append(s, k) \in Seq(S) /\ Elements(Append(s, k)) = Elements(s) \cup {k}
           /\ Increasing(Append(s, k))
<1> DEFINE b == <<k>>
<1>1. b \in Seq(S) /\ DOMAIN b = {1} /\ b[1] = k
  OBVIOUS
<1>2. Append(s, k) = s \o b
  BY AppendIsConcat
<1> HIDE DEF b
<1>3. Elements(b) = {k} /\ Increasing(b)
  BY <1>1 DEF Elements, Increasing
<1>4. \A x \in Elements(s), y \in Elements(b) : x < y
  BY <1>3
<1> QED
  BY <1>1, <1>2, <1>3, <1>4, ConcatOrdered

\* The empty list.
LEMMA EmptyList ==
    /\ Elements(<<>>) = {} /\ Increasing(<<>>) /\ <<>> \in Seq(Ids) /\ DOMAIN <<>> = {} /\ Len(<<>>) = 0
    /\ \A s \in Seq(Ids) : Elements(s) = {} => s = <<>>
<1>1. DOMAIN <<>> = {} /\ <<>> \in Seq(Ids) /\ Len(<<>>) = 0
  BY EmptySeq
<1>2. Elements(<<>>) = {} /\ Increasing(<<>>)
  BY <1>1 DEF Elements, Increasing
<1>3. ASSUME NEW s \in Seq(Ids), Elements(s) = {} PROVE s = <<>>
  <2>1. DOMAIN s = 1 .. Len(s) /\ Len(s) \in Nat
    BY LenProperties
  <2>2. Len(s) = 0
    <3>1. CASE Len(s) > 0
      <4>1. 1 \in DOMAIN s
        BY <2>1, <3>1
      <4> QED
        BY <1>3, <4>1 DEF Elements
    <3> QED
      BY <2>1, <3>1
  <2> QED
    BY <2>2, EmptySeq
<1> QED
  BY <1>1, <1>2, <1>3

\* remove_by_index on a list in order is what it is meant to be.
LEMMA RemoveByIndexErases ==
    ASSUME NEW S \in SUBSET Nat, NEW s \in Seq(S), Increasing(s), NEW k \in Nat
    PROVE  /\ RemoveByIndex(s, k) \in Seq(S)
           /\ Elements(RemoveByIndex(s, k)) = Elements(s) \ {k}
           /\ Increasing(RemoveByIndex(s, k))
<1> DEFINE notLess == {i \in DOMAIN s : s[i] >= k}
           first == CHOOSE i \in notLess : \A j \in notLess : i =< j
<1>1. Len(s) \in Nat /\ DOMAIN s = 1 .. Len(s) /\ \A i \in DOMAIN s : s[i] \in Nat
  BY LenProperties, ElementOfSeq
<1>2. ASSUME notLess # {} PROVE first \in notLess /\ \A j \in notLess : first =< j
  <2>1. notLess \in SUBSET Nat
    BY <1>1
  <2>2. \E i \in notLess : \A j \in notLess : i =< j
    <3> HIDE DEF notLess
    <3> QED
      BY <1>2, <2>1, LeastNumber
  <2> HIDE DEF notLess
  <2> QED
    BY <2>2, Zenon
<1>3. ASSUME k \in Elements(s) PROVE notLess # {} /\ s[first] = k
  <2>1. PICK i \in DOMAIN s : s[i] = k
    BY <1>3 DEF Elements
  <2>2. i \in notLess
    BY <1>1, <2>1
  <2> HIDE DEF first
  <2>3. first \in DOMAIN s /\ s[first] >= k /\ first =< i
    BY <1>2, <2>2
  <2>4. first < i => s[first] < s[i]
    BY <2>3 DEF Increasing
  <2> QED
    BY <1>1, <2>1, <2>2, <2>3, <2>4
<1>4. ASSUME k \notin Elements(s) PROVE ~(notLess # {} /\ s[first] = k)
  <2> HIDE DEF first
  <2>1. notLess # {} => first \in DOMAIN s
    BY <1>2
  <2> QED
    BY <1>4, <2>1 DEF Elements
<1>5. RemoveByIndex(s, k) = IF notLess # {} /\ s[first] = k THEN Erase(s, k) ELSE s
  BY DEF RemoveByIndex
<1> HIDE DEF notLess, first
<1>6. CASE k \in Elements(s)
  <2>1. RemoveByIndex(s, k) = Without(s, {k})
    BY <1>3, <1>5, <1>6 DEF Erase
  <2> QED
    BY <2>1, WithoutProperties
<1>7. CASE k \notin Elements(s)
  <2>1. RemoveByIndex(s, k) = s
    BY <1>4, <1>5, <1>7
  <2> QED
    BY <1>7, <2>1
<1> QED
  BY <1>6, <1>7

\* In a list in order the element after k is the next greater one.
LEMMA AfterIsNext ==
    ASSUME NEW s \in Seq(Ids), Increasing(s), NEW k \in Elements(s)
    PROVE  /\ After(s, k) \in Elements(s) \cup {End}
           /\ After(s, k) # End => After(s, k) > k
           /\ \A x \in Elements(s) : x > k => After(s, k) # End /\ After(s, k) =< x
<1> DEFINE at == CHOOSE i \in DOMAIN s : s[i] = k
<1>1. /\ Len(s) \in Nat /\ DOMAIN s = 1 .. Len(s)
      /\ \A i \in DOMAIN s : s[i] \in Ids /\ s[i] \in Nat /\ s[i] # End
  <2>1. \A i \in 1 .. Len(s) : s[i] \in Ids
    BY ElementOfSeq
  <2> QED
    BY <2>1, LenProperties, ConstantsAssumption DEF Ids, End
<1>2. at \in DOMAIN s /\ s[at] = k
  BY DEF Elements
<1>3. \A i \in DOMAIN s : s[i] = k => i = at
  <2>1. TAKE i \in DOMAIN s
  <2> HIDE DEF at
  <2>2. (i < at => s[i] < s[at]) /\ (at < i => s[at] < s[i])
    BY <1>2 DEF Increasing
  <2> QED
    BY <1>1, <1>2, <2>2
<1>4. After(s, k) = IF \E i \in DOMAIN s : s[i] = k /\ i < Len(s) THEN s[at + 1] ELSE End
  BY DEF After
<1> HIDE DEF at
<1>5. CASE at < Len(s)
  <2>1. After(s, k) = s[at + 1] /\ at + 1 \in DOMAIN s
    BY <1>1, <1>2, <1>4, <1>5
  <2>2. s[at] < s[at + 1]
    BY <1>1, <1>2, <2>1 DEF Increasing
  <2>3. ASSUME NEW i \in DOMAIN s, s[i] > k PROVE s[at + 1] =< s[i]
    <3>1. i > at
      <4>1. CASE i < at
        <5>1. s[i] < s[at]
          BY <1>2, <4>1 DEF Increasing
        <5> QED
          BY <1>1, <1>2, <2>3, <5>1
      <4>2. CASE i = at
        BY <1>1, <1>2, <2>3, <4>2
      <4> QED
        BY <1>1, <1>2, <4>1, <4>2
    <3>2. i = at + 1 \/ at + 1 < i
      BY <1>1, <1>2, <3>1
    <3> QED
      BY <1>1, <2>1, <3>2 DEF Increasing
  <2> QED
    BY <1>1, <1>2, <2>1, <2>2, <2>3 DEF Elements
<1>6. CASE ~(at < Len(s))
  <2>1. After(s, k) = End
    BY <1>3, <1>4, <1>6
  <2>2. ASSUME NEW i \in DOMAIN s PROVE s[i] =< k
    <3>1. i < at \/ i = at
      BY <1>1, <1>2, <1>6
    <3> QED
      BY <1>1, <1>2, <3>1 DEF Increasing
  <2>3. k \in Nat
    BY <1>1, <1>2
  <2> QED
    BY <1>1, <2>1, <2>2, <2>3 DEF Elements
<1> QED
  BY <1>5, <1>6

\* The first element of a list in order is the least one.
LEMMA FirstIsLeast ==
    ASSUME NEW s \in Seq(Ids), Increasing(s)
    PROVE  /\ First(s) \in Elements(s) \cup {End}
           /\ \A x \in Elements(s) : First(s) # End /\ First(s) =< x
<1>1. Len(s) \in Nat /\ DOMAIN s = 1 .. Len(s) /\ \A i \in DOMAIN s : s[i] \in Nat /\ s[i] # End
  <2>1. \A i \in 1 .. Len(s) : s[i] \in Ids
    BY ElementOfSeq
  <2> QED
    BY <2>1, LenProperties, ConstantsAssumption DEF Ids, End
<1>2. CASE s = <<>>
  BY <1>2, EmptyList DEF First
<1>3. CASE s # <<>>
  <2>1. First(s) = s[1] /\ 1 \in DOMAIN s
    BY <1>1, <1>3, EmptySeq DEF First
  <2>2. \A i \in DOMAIN s : s[1] =< s[i]
    <3>1. TAKE i \in DOMAIN s
    <3>2. i = 1 \/ 1 < i
      BY <1>1
    <3> QED
      BY <1>1, <2>1, <3>2 DEF Increasing
  <2> QED
    BY <1>1, <2>1, <2>2 DEF Elements
<1> QED
  BY <1>2, <1>3

-----------------------------------------------------------------------------
(***************************************************************************)
(* Stacks of calls.                                                        *)
(***************************************************************************)
\* The top of a stack.
LEMMA HeadIsFirst ==
    ASSUME NEW S, NEW s \in Seq(S), s # <<>> PROVE Head(s) = s[1]
BY HeadTailProperties

\* What replaces the innermost call, puts one above it, and takes it off.
LEMMA StackProperties ==
    ASSUME NEW S, NEW s \in Seq(S), NEW x \in S
    PROVE  /\ Len(s) \in Nat /\ DOMAIN s = 1 .. Len(s) /\ \A i \in DOMAIN s : s[i] \in S
           /\ s # <<>> <=> Len(s) > 0
           /\ LET r == <<x>> \o s
              IN  /\ r \in Seq(S) /\ Len(r) = Len(s) + 1 /\ r # <<>>
                  /\ r[1] = x /\ \A i \in 2 .. Len(s) + 1 : r[i] = s[i - 1]
           /\ s # <<>> =>
                  /\ Head(s) = s[1]
                  /\ Tail(s) \in Seq(S) /\ Len(Tail(s)) = Len(s) - 1
                  /\ \A i \in 1 .. Len(s) - 1 : Tail(s)[i] = s[i + 1]
                  /\ LET r == <<x>> \o Tail(s)
                     IN  /\ r \in Seq(S) /\ Len(r) = Len(s) /\ r # <<>>
                         /\ r[1] = x /\ \A i \in 2 .. Len(s) : r[i] = s[i]
<1> DEFINE b == <<x>>
<1>1. b \in Seq(S) /\ Len(b) = 1 /\ b[1] = x
  OBVIOUS
<1> HIDE DEF b
<1>2. /\ Len(s) \in Nat /\ DOMAIN s = 1 .. Len(s) /\ \A i \in DOMAIN s : s[i] \in S
      /\ s # <<>> <=> Len(s) > 0
  BY LenProperties, EmptySeq, ElementOfSeq
<1>3. ASSUME NEW w \in Seq(S)
      PROVE  /\ b \o w \in Seq(S) /\ Len(b \o w) = Len(w) + 1 /\ b \o w # <<>>
             /\ (b \o w)[1] = x /\ \A i \in 2 .. Len(w) + 1 : (b \o w)[i] = w[i - 1]
  <2>1. Len(w) \in Nat
    BY LenProperties
  <2>2. /\ b \o w \in Seq(S) /\ Len(b \o w) = 1 + Len(w)
        /\ \A i \in 1 .. 1 + Len(w) : (b \o w)[i] = IF i =< 1 THEN b[i] ELSE w[i - 1]
    <3>1. /\ b \o w \in Seq(S) /\ Len(b \o w) = Len(b) + Len(w)
          /\ \A i \in 1 .. Len(b) + Len(w) : (b \o w)[i] = IF i =< Len(b) THEN b[i] ELSE w[i - Len(b)]
      BY <1>1, ConcatProperties
    <3> QED
      BY <1>1, <3>1
  <2>3. b \o w # <<>>
    BY <2>1, <2>2, EmptySeq
  <2> QED
    BY <1>1, <2>1, <2>2, <2>3
<1>4. ASSUME s # <<>>
      PROVE  /\ Head(s) = s[1]
             /\ Tail(s) \in Seq(S) /\ Len(Tail(s)) = Len(s) - 1
             /\ \A i \in 1 .. Len(s) - 1 : Tail(s)[i] = s[i + 1]
  BY <1>4, HeadTailProperties
<1>5. ASSUME s # <<>>
      PROVE  /\ b \o Tail(s) \in Seq(S) /\ Len(b \o Tail(s)) = Len(s) /\ b \o Tail(s) # <<>>
             /\ (b \o Tail(s))[1] = x /\ \A i \in 2 .. Len(s) : (b \o Tail(s))[i] = s[i]
  <2> DEFINE w == Tail(s)
  <2>1. w \in Seq(S) /\ Len(w) = Len(s) - 1 /\ \A i \in 1 .. Len(s) - 1 : w[i] = s[i + 1]
    BY <1>4, <1>5
  <2> HIDE DEF w
  <2>2. \A i \in 2 .. Len(s) : i - 1 \in 1 .. Len(s) - 1 /\ i - 1 + 1 = i /\ i \in 2 .. Len(w) + 1
    BY <1>2, <2>1
  <2>3. \A i \in 2 .. Len(s) : (b \o w)[i] = s[i]
    BY <1>3, <2>1, <2>2
  <2>4. Len(b \o w) = Len(s)
    <3>1. Len(b \o w) = Len(w) + 1
      BY <1>3, <2>1
    <3> QED
      BY <1>2, <2>1, <3>1
  <2> QED
    BY <1>3, <2>1, <2>3, <2>4 DEF w
<1> QED
  BY <1>2, <1>3, <1>4, <1>5 DEF b

\* The calls of a thread, in a state of the right type.
LEMMA Stack ==
    ASSUME TypeOK, NEW t \in Threads
    PROVE  /\ frames[t] \in Seq(Frame) /\ Len(frames[t]) \in Nat
           /\ DOMAIN frames[t] = 1 .. Len(frames[t])
           /\ \A i \in DOMAIN frames[t] : frames[t][i] \in Frame
           /\ frames[t] # <<>> <=> Len(frames[t]) > 0
           /\ frames[t] # <<>> =>
                 /\ Top(t) = frames[t][1] /\ Top(t) \in Frame
                 /\ 1 \in DOMAIN frames[t] /\ Len(frames[t]) \in DOMAIN frames[t]
<1>1. frames[t] \in Seq(Frame)
  BY DEF TypeOK
<1>2. /\ Len(frames[t]) \in Nat /\ DOMAIN frames[t] = 1 .. Len(frames[t])
      /\ \A i \in DOMAIN frames[t] : frames[t][i] \in Frame
      /\ frames[t] # <<>> <=> Len(frames[t]) > 0
  BY <1>1, LenProperties, EmptySeq, ElementOfSeq
<1>3. frames[t] # <<>> => Head(frames[t]) = frames[t][1]
  BY <1>1, HeadTailProperties
<1>4. frames[t] # <<>> => 1 \in DOMAIN frames[t] /\ Len(frames[t]) \in DOMAIN frames[t]
  <2>1. \A n \in Nat : n > 0 => 1 \in 1 .. n /\ n \in 1 .. n
    OBVIOUS
  <2> QED
    BY <1>2, <2>1
<1> QED
  BY <1>1, <1>2, <1>3, <1>4 DEF Top

\* What a step does that changes a thread's innermost call and nothing else.
LEMMA SetTopStack ==
    ASSUME TypeOK, NEW t \in Threads, frames[t] # <<>>, NEW x \in Frame, SetTop(t, x)
    PROVE  /\ frames' \in [Threads -> Seq(Frame)]
           /\ \A u \in Threads \ {t} : frames'[u] = frames[u]
           /\ frames'[t] # <<>> /\ Len(frames'[t]) = Len(frames[t])
           /\ DOMAIN frames'[t] = DOMAIN frames[t]
           /\ frames'[t][1] = x
           /\ \A i \in DOMAIN frames[t] : i > 1 => frames'[t][i] = frames[t][i]
<1> DEFINE r == <<x>> \o Tail(frames[t])
<1>1. /\ r \in Seq(Frame) /\ Len(r) = Len(frames[t]) /\ r # <<>>
      /\ r[1] = x /\ \A i \in 2 .. Len(frames[t]) : r[i] = frames[t][i]
  BY Stack, StackProperties
<1>2. frames' = [frames EXCEPT ![t] = r] /\ frames \in [Threads -> Seq(Frame)]
  BY DEF SetTop, TypeOK
<1> HIDE DEF r
<1>3. DOMAIN r = 1 .. Len(r)
  BY <1>1, LenProperties
<1>4. frames'[t] = r /\ frames' \in [Threads -> Seq(Frame)]
      /\ \A u \in Threads \ {t} : frames'[u] = frames[u]
  BY <1>1, <1>2
<1> QED
  BY <1>1, <1>3, <1>4, Stack

\* What a step does that ends a thread's innermost call.
LEMMA PopStack ==
    ASSUME TypeOK, NEW t \in Threads, frames[t] # <<>>, Pop(t)
    PROVE  /\ frames' \in [Threads -> Seq(Frame)]
           /\ \A u \in Threads \ {t} : frames'[u] = frames[u]
           /\ Len(frames'[t]) = Len(frames[t]) - 1
           /\ frames'[t] # <<>> <=> Len(frames[t]) > 1
           /\ DOMAIN frames'[t] = 1 .. Len(frames[t]) - 1
           /\ \A i \in DOMAIN frames'[t] : i + 1 \in DOMAIN frames[t] /\ frames'[t][i] = frames[t][i + 1]
<1> DEFINE r == Tail(frames[t])
<1>1. r \in Seq(Frame) /\ Len(r) = Len(frames[t]) - 1 /\ \A i \in 1 .. Len(frames[t]) - 1 : r[i] = frames[t][i + 1]
  <2>1. frames[t] \in Seq(Frame) /\ Top(t) \in Frame
    BY Stack
  <2> QED
    BY <2>1, StackProperties
<1>2. frames' = [frames EXCEPT ![t] = r] /\ frames \in [Threads -> Seq(Frame)]
  BY DEF Pop, TypeOK
<1> HIDE DEF r
<1>3. DOMAIN r = 1 .. Len(r) /\ (r # <<>> <=> Len(r) > 0) /\ Len(r) \in Nat
  BY <1>1, LenProperties, EmptySeq
<1>4. frames'[t] = r /\ frames' \in [Threads -> Seq(Frame)]
      /\ \A u \in Threads \ {t} : frames'[u] = frames[u]
  BY <1>1, <1>2
<1> QED
  BY <1>1, <1>3, <1>4, Stack

\* Forgetting slots changes what calls have to run, and nothing else of them.
LEMMA ForgetStack ==
    ASSUME TypeOK, NEW ks, Forget(ks)
    PROVE  /\ frames' \in [Threads -> Seq(Frame)]
           /\ \A t \in Threads :
                 /\ Len(frames'[t]) = Len(frames[t]) /\ DOMAIN frames'[t] = DOMAIN frames[t]
                 /\ frames'[t] # <<>> <=> frames[t] # <<>>
                 /\ \A i \in DOMAIN frames[t] : frames'[t][i] = [frames[t][i] EXCEPT !.must = @ \ ks]
<1>1. ASSUME NEW t \in Threads, NEW r, r = [i \in DOMAIN frames[t] |-> [frames[t][i] EXCEPT !.must = @ \ ks]]
      PROVE  /\ r \in Seq(Frame) /\ Len(r) = Len(frames[t])
             /\ r # <<>> <=> frames[t] # <<>>
  <2>1. ASSUME NEW i \in DOMAIN frames[t] PROVE [frames[t][i] EXCEPT !.must = @ \ ks] \in Frame
    <3>1. frames[t][i] \in Frame
      BY Stack
    <3> QED
      BY <3>1 DEF Frame
  <2>2. r \in [1 .. Len(frames[t]) -> Frame] /\ Len(frames[t]) \in Nat
    BY <1>1, <2>1, Stack
  <2>3. r \in Seq(Frame)
    BY <2>2, SeqDef
  <2>4. DOMAIN r = 1 .. Len(r) /\ Len(r) \in Nat /\ (r # <<>> <=> Len(r) > 0)
    BY <2>3, LenProperties, EmptySeq
  <2>5. Len(r) = Len(frames[t])
    <3>1. 1 .. Len(r) = 1 .. Len(frames[t])
      BY <2>2, <2>4
    <3>2. \A m, n \in Nat : 1 .. m = 1 .. n => m = n
      <4>1. TAKE m \in Nat, n \in Nat
      <4>2. (m \in 1 .. m \/ m = 0) /\ (n \in 1 .. n \/ n = 0)
        OBVIOUS
      <4> QED
        BY <4>2
    <3> QED
      BY <2>2, <2>4, <3>1, <3>2
  <2> QED
    BY <2>3, <2>4, <2>5, Stack
<1>2. \A t \in Threads : frames'[t] = [i \in DOMAIN frames[t] |-> [frames[t][i] EXCEPT !.must = @ \ ks]]
  BY DEF Forget
<1>3. frames' = [t \in Threads |-> frames'[t]]
  BY DEF Forget
<1> QED
  BY <1>1, <1>2, <1>3

-----------------------------------------------------------------------------
(***************************************************************************)
(* What the steps have in common. Only the thread that has list_lock_ is   *)
(* in a call, so that a step of a call changes nothing for the others.     *)
(***************************************************************************)
Ordered(a, b) == Increasing(a) /\ Increasing(b) /\ \A x \in Elements(a), y \in Elements(b) : x < y

\* Sorted, list by list.
LEMMA SortedIsOrdered ==
    /\ TypeOK => (Sorted <=> Ordered(list_, added_))
    /\ TypeOK' => (Sorted' <=> Ordered(list_', added_'))
<1>1. Ids \in SUBSET Nat
  BY ConstantsAssumption DEF Ids
<1>2. ASSUME NEW a \in Seq(Ids), NEW b \in Seq(Ids)
      PROVE  Increasing(a \o b) <=> Ordered(a, b)
  BY <1>1, ConcatOrdered DEF Ordered
<1>3. /\ TypeOK => list_ \in Seq(Ids) /\ added_ \in Seq(Ids)
      /\ TypeOK' => list_' \in Seq(Ids) /\ added_' \in Seq(Ids)
  BY DEF TypeOK
<1>4. /\ Sorted <=> Increasing(list_ \o added_)
      /\ Sorted' <=> Increasing(list_' \o added_')
  BY DEF Sorted, Increasing
<1> QED
  BY <1>2, <1>3, <1>4

\* A thread in a call has the lock, and is alone in a call.
LEMMA InCall ==
    ASSUME TypeOK, EnterCounts, NEW t \in Threads, frames[t] # <<>>
    PROVE  /\ owner = t /\ owner # NoThread
           /\ \A u \in Threads \ {t} : frames[u] = <<>>
           /\ Depth = Len(frames[t]) /\ Len(frames[t]) \in Nat /\ Len(frames[t]) > 0
           /\ current_enter_ \in Nat /\ current_enter_ >= Len(frames[t])
<1>1. owner = t /\ owner # NoThread /\ \A u \in Threads \ {t} : frames[u] = <<>>
  BY ConstantsAssumption DEF EnterCounts
<1>2. Depth = Len(frames[t])
  BY <1>1 DEF Depth
<1> QED
  BY <1>1, <1>2, Stack DEF EnterCounts, TypeOK

\* The innermost call of a thread.
LEMMA Innermost ==
    ASSUME TypeOK, EnterCounts, Stacked, NEW t \in Threads, frames[t] # <<>>
    PROVE  /\ Top(t) = frames[t][1] /\ Top(t) \in Frame /\ 1 \in DOMAIN frames[t]
           /\ Top(t).phase \in {"clean", "splice"} => Len(frames[t]) = 1 /\ current_enter_ = 1
           /\ Top(t).phase \in {"visit", "exec"} => Top(t).at \in Elements(list_) \cup {End}
           /\ Top(t).phase = "exec" => Top(t).at # End
           /\ Top(t).dead \subseteq gone
           /\ Top(t).phase \in Phases /\ Top(t).at \in Ids \cup {End}
           /\ Top(t).must \subseteq Ids /\ Top(t).dead \subseteq Ids
<1>1. Top(t) = frames[t][1] /\ Top(t) \in Frame /\ 1 \in DOMAIN frames[t]
  BY Stack
<1>2. Nested(t)
  BY DEF Stacked
<1> QED
  BY <1>1, <1>2 DEF Nested, Frame

\* The step of a call changes its own thread's innermost call: the entries are
\* still counted.
LEMMA SetTopCounts ==
    ASSUME TypeOK, EnterCounts, NEW t \in Threads, frames[t] # <<>>, NEW x \in Frame, SetTop(t, x),
           UNCHANGED <<current_enter_, owner, used>>,
           current_enter_ # Depth => list_' = <<>>,
           All \in removed_' => All \in removed_
    PROVE  EnterCounts'
<1>1. owner = t /\ owner # NoThread /\ Depth = Len(frames[t])
  BY InCall
<1>2. /\ \A u \in Threads \ {t} : frames'[u] = frames[u]
      /\ frames'[t] # <<>> /\ Len(frames'[t]) = Len(frames[t])
  BY SetTopStack
<1>3. \A u \in Threads : (frames'[u] # <<>>) <=> (owner' = u)
  BY <1>2 DEF EnterCounts
<1>4. Depth' = Depth
  BY <1>1, <1>2 DEF Depth
<1>5. AllUnsubscribed' => AllUnsubscribed
  BY DEF AllUnsubscribed
<1> QED
  BY <1>3, <1>4, <1>5 DEF EnterCounts

\* ... and the calls are nested as they should.
LEMMA SetTopStacked ==
    ASSUME TypeOK, EnterCounts, Stacked, NEW t \in Threads, frames[t] # <<>>,
           NEW x \in Frame, SetTop(t, x),
           UNCHANGED <<current_enter_, gone, used>>,
           x.phase \in {"clean", "splice"} => Len(frames[t]) = 1 /\ current_enter_ = 1,
           x.phase \in {"visit", "exec"} => x.at \in Elements(list_') \cup {End},
           x.phase = "exec" => x.at # End,
           x.dead \subseteq gone
    PROVE  Stacked'
<1>1. /\ \A u \in Threads \ {t} : frames'[u] = <<>>
      /\ Len(frames'[t]) = Len(frames[t]) /\ DOMAIN frames'[t] = DOMAIN frames[t]
      /\ frames'[t][1] = x
      /\ \A i \in DOMAIN frames[t] : i > 1 => frames'[t][i] = frames[t][i]
  BY InCall, SetTopStack
<1>2. \A u \in Threads \ {t} : Nested(u)' /\ Len(frames'[u]) =< 1
  BY <1>1, EmptyList DEF Nested
<1>3. ASSUME NEW i \in DOMAIN frames[t]
      PROVE  /\ i > 1 => frames'[t][i].phase = "slot"
             /\ frames'[t][i].phase \in {"clean", "splice"} => Len(frames'[t]) = 1 /\ current_enter_' = 1
             /\ frames'[t][i].phase \in {"visit", "exec"} => frames'[t][i].at \in Elements(list_') \cup {End}
             /\ frames'[t][i].phase = "exec" => frames'[t][i].at # End
             /\ frames'[t][i].dead \subseteq gone'
  <2>1. CASE i = 1
    BY <1>1, <2>1
  <2>2. CASE i # 1
    <3>1. i > 1
      BY <2>2, Stack
    <3>2. frames'[t][i] = frames[t][i] /\ frames[t][i].phase = "slot" /\ frames[t][i].dead \subseteq gone
      BY <1>1, <3>1 DEF Stacked, Nested
    <3> QED
      BY <3>2
  <2> QED
    BY <2>1, <2>2
<1>4. Nested(t)'
  BY <1>1, <1>3 DEF Nested
<1>5. "nested call" \notin used' => Len(frames'[t]) =< 1
  BY <1>1 DEF Stacked
<1> QED
  BY <1>2, <1>4, <1>5 DEF Stacked

\* Ahead, of the lists and of those gone in this state or in the next.
AheadOf(frame, g, l, a) ==
    /\ frame.must \cap g = {}
    /\ frame.must \subseteq IF frame.phase \in {"clean", "splice"} THEN l \cup a ELSE l
    /\ frame.phase \in {"visit", "exec"} => \A k \in frame.must : frame.at # End /\ frame.at =< k
    /\ frame.phase = "slot" => \A k \in frame.must : frame.at < k

\* NoneLost in those terms.
LEMMA NoneLostParts ==
    /\ NoneLost <=>
        ("unsubscribe_all" \notin used =>
            /\ (1 .. id_) \ gone \subseteq Elements(list_) \cup Elements(added_)
            /\ \A t \in Threads : frames[t] # <<>> =>
                  AheadOf(frames[t][Len(frames[t])], gone, Elements(list_), Elements(added_)))
    /\ NoneLost' <=>
        ("unsubscribe_all" \notin used' =>
            /\ (1 .. id_') \ gone' \subseteq Elements(list_') \cup Elements(added_')
            /\ \A t \in Threads : frames'[t] # <<>> =>
                  AheadOf(frames'[t][Len(frames'[t])], gone', Elements(list_'), Elements(added_')))
BY DEF NoneLost, Ahead, AheadOf, Live

\* ... and no slot is lost, if none is for the outermost call.
LEMMA SetTopNoneLost ==
    ASSUME TypeOK, EnterCounts, Stacked, NoneLost, NEW t \in Threads, frames[t] # <<>>,
           NEW x \in Frame, SetTop(t, x), UNCHANGED used,
           NEW l, l = Elements(list_), NEW a, a = Elements(added_),
           NEW m, m = Elements(list_'), NEW b, b = Elements(added_'),
           "unsubscribe_all" \notin used => (1 .. id_') \ gone' \subseteq m \cup b,
           \A frame \in Frame : AheadOf(frame, gone, l, a) /\ frame.phase = "slot" => AheadOf(frame, gone', m, b),
           "unsubscribe_all" \notin used /\ AheadOf(Top(t), gone, l, a) => AheadOf(x, gone', m, b)
    PROVE  NoneLost'
<1>1. /\ \A u \in Threads \ {t} : frames'[u] = <<>>
      /\ frames'[t] # <<>> /\ Len(frames'[t]) = Len(frames[t]) /\ DOMAIN frames'[t] = DOMAIN frames[t]
      /\ frames'[t][1] = x
      /\ \A i \in DOMAIN frames[t] : i > 1 => frames'[t][i] = frames[t][i]
  BY InCall, SetTopStack
<1>2. ASSUME "unsubscribe_all" \notin used PROVE AheadOf(frames'[t][Len(frames[t])], gone', m, b)
  <2>1. AheadOf(frames[t][Len(frames[t])], gone, l, a)
    BY <1>2, NoneLostParts
  <2>2. CASE Len(frames[t]) = 1
    <3>1. frames[t][Len(frames[t])] = Top(t) /\ frames'[t][Len(frames[t])] = x
      BY <1>1, <2>2, Stack
    <3> QED
      BY <1>2, <2>1, <3>1
  <2>3. CASE Len(frames[t]) # 1
    <3> DEFINE n == Len(frames[t])
    <3>1. n > 1 /\ n \in DOMAIN frames[t]
      <4>1. n \in Nat /\ n > 0
        BY InCall
      <4>2. n \in DOMAIN frames[t]
        BY Stack
      <4> HIDE DEF n
      <4>3. n # 1
        BY <2>3 DEF n
      <4> QED
        BY <4>1, <4>2, <4>3
    <3> HIDE DEF n
    <3>2. frames'[t][n] = frames[t][n] /\ frames[t][n] \in Frame /\ frames[t][n].phase = "slot"
      BY <1>1, <3>1, Stack DEF Stacked, Nested
    <3> QED
      BY <2>1, <3>2 DEF n
  <2> QED
    BY <2>2, <2>3
<1> QED
  BY <1>1, <1>2, NoneLostParts

-----------------------------------------------------------------------------
(***************************************************************************)
(* The inductive invariant: what holds of the initial state and after      *)
(* each step if it held before.                                            *)
(***************************************************************************)
\* Ids are positive numbers, none of them End, and no list needs more facts.
LEMMA Numbers == Ids \in SUBSET Nat /\ All \notin Ids /\ End \notin Ids /\ \A k \in Ids : k \in Nat /\ k > 0
BY ConstantsAssumption DEF Ids, End

\* The observer is made well formed.
LEMMA InitWellFormed == Init => WellFormed
<1> SUFFICES ASSUME Init PROVE WellFormed
  OBVIOUS
<1>1. TypeOK
  BY EmptySeq, ConstantsAssumption DEF Init, TypeOK
<1>2. Sorted
  BY <1>1, SortedIsOrdered, EmptyList DEF Init, Ordered
<1>3. Drawn
  BY EmptyList DEF Init, Drawn
<1>4. EnterCounts
  BY ConstantsAssumption DEF Init, EnterCounts, Depth, AllUnsubscribed
<1>5. Stacked
  BY EmptyList DEF Init, Stacked, Nested
<1>6. Marked
  BY EmptyList DEF Init, Marked
<1>7. NoneLost
  <2>1. 1 .. id_ = {}
    BY DEF Init
  <2> QED
    BY <2>1 DEF Init, NoneLost, Live
<1> QED
  BY <1>1, <1>2, <1>3, <1>4, <1>5, <1>6, <1>7 DEF WellFormed

\* A step that only moves on within a call.
LEMMA MovesOnWellFormed ==
    ASSUME WellFormed, NEW t \in Threads, frames[t] # <<>>, NEW x \in Frame, SetTop(t, x),
           UNCHANGED <<list_, added_, removed_, id_, current_enter_, owner, calls, gone, used>>,
           Top(t).phase = "clean" => ~AllUnsubscribed,
           x.phase \in {"clean", "splice"} => Len(frames[t]) = 1 /\ current_enter_ = 1,
           x.phase \in {"visit", "exec"} => x.at \in Elements(list_) \cup {End},
           x.phase = "exec" => x.at # End,
           x.dead \subseteq gone,
           AheadOf(Top(t), gone, Elements(list_), Elements(added_)) =>
               AheadOf(x, gone, Elements(list_), Elements(added_))
    PROVE  WellFormed'
<1>1. TypeOK /\ Sorted /\ Drawn /\ EnterCounts /\ Stacked /\ Marked /\ NoneLost
  BY DEF WellFormed
<1>2. TypeOK'
  BY <1>1, SetTopStack DEF TypeOK
<1>3. EnterCounts'
  BY <1>1, SetTopCounts DEF EnterCounts
<1>4. Stacked'
  BY <1>1, SetTopStacked
<1>5. NoneLost'
  <2> DEFINE l == Elements(list_)
             a == Elements(added_)
  <2>1. l = Elements(list_) /\ a = Elements(added_) /\ l = Elements(list_') /\ a = Elements(added_')
    OBVIOUS
  <2>2. "unsubscribe_all" \notin used => (1 .. id_') \ gone' \subseteq l \cup a
    BY <1>1, NoneLostParts
  <2>3. AheadOf(Top(t), gone, l, a) => AheadOf(x, gone', l, a)
    OBVIOUS
  <2> HIDE DEF l, a
  <2>4. \A frame \in Frame : AheadOf(frame, gone, l, a) => AheadOf(frame, gone', l, a)
    OBVIOUS
  <2> QED
    BY <1>1, <2>1, <2>2, <2>3, <2>4, SetTopNoneLost
<1>6. Sorted' /\ Drawn'
  BY <1>1 DEF Sorted, Drawn
<1>7. Marked'
  BY <1>1 DEF Marked, AllUnsubscribed, At
<1> QED
  BY <1>2, <1>3, <1>4, <1>5, <1>6, <1>7 DEF WellFormed

\* A call that finds no mark of unsubscribe_all goes on to the splice.
LEMMA CheckCleanWellFormed ==
    ASSUME WellFormed, NEW t \in Threads, CheckClean(t) PROVE WellFormed'
<1> DEFINE x == [Top(t) EXCEPT !.phase = "splice"]
<1>1. /\ TypeOK /\ EnterCounts /\ Stacked
      /\ frames[t] # <<>> /\ Top(t).phase = "clean" /\ SetTop(t, x) /\ ~AllUnsubscribed
      /\ UNCHANGED <<list_, added_, removed_, id_, current_enter_, owner, calls, gone, used>>
  BY DEF WellFormed, CheckClean, At
<1>2. /\ x \in Frame /\ Len(frames[t]) = 1 /\ current_enter_ = 1 /\ Top(t).dead \subseteq gone
      /\ x.phase = "splice" /\ x.at = Top(t).at /\ x.must = Top(t).must /\ x.dead = Top(t).dead
  BY <1>1, Innermost DEF Frame, Phases
<1> HIDE DEF x
<1>3. AheadOf(Top(t), gone, Elements(list_), Elements(added_)) => AheadOf(x, gone, Elements(list_), Elements(added_))
  BY <1>1, <1>2 DEF AheadOf
<1> QED
  BY <1>1, <1>2, <1>3, MovesOnWellFormed

\* The iterator's slot is to be run.
LEMMA VisitWellFormed ==
    ASSUME WellFormed, NEW t \in Threads, Visit(t) PROVE WellFormed'
<1> DEFINE x == [Top(t) EXCEPT !.phase = "exec"]
<1>1. /\ TypeOK /\ EnterCounts /\ Stacked
      /\ frames[t] # <<>> /\ Top(t).phase = "visit" /\ Top(t).at # End /\ SetTop(t, x)
      /\ UNCHANGED <<list_, added_, removed_, id_, current_enter_, owner, calls, gone, used>>
  BY DEF WellFormed, Visit, At
<1>2. /\ x \in Frame /\ Top(t).at \in Elements(list_) /\ Top(t).dead \subseteq gone
      /\ x.phase = "exec" /\ x.at = Top(t).at /\ x.must = Top(t).must /\ x.dead = Top(t).dead
  BY <1>1, Innermost DEF Frame, Phases
<1> HIDE DEF x
<1>3. AheadOf(Top(t), gone, Elements(list_), Elements(added_)) => AheadOf(x, gone, Elements(list_), Elements(added_))
  BY <1>1, <1>2 DEF AheadOf
<1> QED
  BY <1>1, <1>2, <1>3, MovesOnWellFormed

\* The slot is run: the call does not have to any more.
LEMMA ExecSlotWellFormed ==
    ASSUME WellFormed, NEW t \in Threads, ExecSlot(t) PROVE WellFormed'
<1> DEFINE x == [Top(t) EXCEPT !.phase = "slot", !.must = @ \ {Top(t).at}]
<1>1. /\ TypeOK /\ EnterCounts /\ Stacked
      /\ frames[t] # <<>> /\ Top(t).phase = "exec" /\ SetTop(t, x)
      /\ UNCHANGED <<list_, added_, removed_, id_, current_enter_, owner, calls, gone, used>>
  BY DEF WellFormed, ExecSlot, At
<1>2. /\ x \in Frame /\ Top(t).at \in Ids \cup {End} /\ Top(t).at # End /\ Top(t).dead \subseteq gone
      /\ Top(t).must \subseteq Ids
      /\ x.phase = "slot" /\ x.at = Top(t).at /\ x.must = Top(t).must \ {Top(t).at} /\ x.dead = Top(t).dead
  BY <1>1, Innermost DEF Frame, Phases
<1> HIDE DEF x
<1>3. AheadOf(Top(t), gone, Elements(list_), Elements(added_)) => AheadOf(x, gone, Elements(list_), Elements(added_))
  <2>1. ASSUME \A k \in Top(t).must : Top(t).at =< k PROVE \A k \in x.must : x.at < k
    BY <1>2, <2>1, Numbers
  <2> QED
    BY <1>1, <1>2, <2>1 DEF AheadOf
<1> QED
  BY <1>1, <1>2, <1>3, MovesOnWellFormed

\* The iterator moves on from a slot that ran to the next greater id.
LEMMA SlotReturnsWellFormed ==
    ASSUME WellFormed, NEW t \in Threads, SlotReturns(t) PROVE WellFormed'
<1> DEFINE k == Top(t).at
           x == [Top(t) EXCEPT !.phase = "visit", !.at = After(list_, k)]
<1>1. /\ TypeOK /\ Sorted /\ EnterCounts /\ Stacked
      /\ frames[t] # <<>> /\ Top(t).phase = "slot" /\ k \in Elements(list_) /\ SetTop(t, x)
      /\ UNCHANGED <<list_, added_, removed_, id_, current_enter_, owner, calls, gone, used>>
  BY DEF WellFormed, SlotReturns, At
<1>2. list_ \in Seq(Ids) /\ Increasing(list_)
  BY <1>1, SortedIsOrdered DEF TypeOK, Ordered
<1>3. Elements(list_) \subseteq Ids
  BY <1>2, LenProperties, ElementOfSeq DEF Elements
<1>4. /\ After(list_, k) \in Elements(list_) \cup {End}
      /\ \A y \in Elements(list_) : y > k => After(list_, k) # End /\ After(list_, k) =< y
  BY <1>1, <1>2, AfterIsNext
<1>5. /\ x \in Frame /\ Top(t).dead \subseteq gone
      /\ x.phase = "visit" /\ x.at = After(list_, k) /\ x.must = Top(t).must /\ x.dead = Top(t).dead
  BY <1>1, <1>3, <1>4, Innermost DEF Frame, Phases
<1> HIDE DEF x, k
<1>6. AheadOf(Top(t), gone, Elements(list_), Elements(added_)) => AheadOf(x, gone, Elements(list_), Elements(added_))
  <2>1. SUFFICES ASSUME AheadOf(Top(t), gone, Elements(list_), Elements(added_))
                 PROVE  AheadOf(x, gone, Elements(list_), Elements(added_))
    OBVIOUS
  <2>2. x.must \subseteq Elements(list_) /\ \A y \in x.must : k < y
    BY <1>1, <1>5, <2>1 DEF AheadOf, k
  <2>3. \A y \in x.must : y > k
    BY <1>1, <1>3, <2>2, Numbers
  <2>4. \A y \in x.must : x.at # End /\ x.at =< y
    BY <1>4, <1>5, <2>2, <2>3
  <2> QED
    BY <1>1, <1>5, <2>1, <2>2, <2>4 DEF AheadOf
<1> QED
  BY <1>1, <1>4, <1>5, <1>6, MovesOnWellFormed

\* The added slots come after all others, so that the list stays sorted.
LEMMA SpliceAddedWellFormed ==
    ASSUME WellFormed, NEW t \in Threads, SpliceAdded(t) PROVE WellFormed'
<1> DEFINE x == [Top(t) EXCEPT !.phase = "visit", !.at = First(list_')]
<1>1. /\ TypeOK /\ Sorted /\ Drawn /\ EnterCounts /\ Stacked /\ Marked /\ NoneLost
      /\ frames[t] # <<>> /\ Top(t).phase = "splice" /\ SetTop(t, x)
      /\ list_' = list_ \o added_ /\ added_' = <<>>
      /\ UNCHANGED <<removed_, id_, current_enter_, owner, calls, gone, used>>
  BY DEF WellFormed, SpliceAdded, At, Spliced
<1>2. /\ list_ \in Seq(Ids) /\ added_ \in Seq(Ids) /\ Ordered(list_, added_)
      /\ list_' \in Seq(Ids) /\ Elements(list_') = Elements(list_) \cup Elements(added_) /\ Increasing(list_')
      /\ added_' \in Seq(Ids) /\ Elements(added_') = {} /\ Increasing(added_')
  <2>1. list_ \in Seq(Ids) /\ added_ \in Seq(Ids) /\ Ordered(list_, added_)
    BY <1>1, SortedIsOrdered DEF TypeOK
  <2>2. /\ list_' \in Seq(Ids) /\ Elements(list_') = Elements(list_) \cup Elements(added_)
        /\ Increasing(list_')
    BY <1>1, <2>1, Numbers, ConcatOrdered DEF Ordered
  <2> QED
    BY <1>1, <2>1, <2>2, EmptyList
<1>3. First(list_') \in Elements(list_') \cup {End} /\ \A k \in Elements(list_') : First(list_') # End /\ First(list_') =< k
  BY <1>2, FirstIsLeast
<1>4. Elements(list_') \subseteq Ids
  BY <1>1, <1>2, LenProperties, ElementOfSeq DEF Elements
<1>5. /\ Top(t) \in Frame /\ x \in Frame /\ Len(frames[t]) = 1 /\ current_enter_ = 1 /\ Top(t).dead \subseteq gone
      /\ x.phase = "visit" /\ x.at = First(list_') /\ x.must = Top(t).must /\ x.dead = Top(t).dead
  BY <1>1, <1>3, <1>4, Innermost DEF Frame, Phases
<1> HIDE DEF x
<1>6. TypeOK'
  BY <1>1, <1>2, <1>5, SetTopStack DEF TypeOK
<1>7. Sorted'
  BY <1>2, <1>6, SortedIsOrdered DEF Ordered
<1>8. Drawn'
  BY <1>1, <1>2 DEF Drawn
<1>9. EnterCounts'
  <2>1. current_enter_ = Depth
    BY <1>1, <1>5, InCall
  <2> QED
    BY <1>1, <1>5, <2>1, SetTopCounts
<1>10. Stacked'
  BY <1>1, <1>3, <1>5, SetTopStacked
<1>11. Marked'
  BY <1>1, <1>2 DEF Marked, At, AllUnsubscribed
<1>12. NoneLost'
  <2> DEFINE l == Elements(list_)
             a == Elements(added_)
             m == Elements(list_')
             b == Elements(added_')
  <2>1. m = l \cup a /\ b = {}
    BY <1>2
  <2>2. "unsubscribe_all" \notin used => (1 .. id_') \ gone' \subseteq m \cup b
    BY <1>1, <2>1, NoneLostParts
  <2>3. \A frame \in Frame : AheadOf(frame, gone, l, a) /\ frame.phase = "slot" => AheadOf(frame, gone', m, b)
    BY <1>1, <2>1 DEF AheadOf
  <2>4. AheadOf(Top(t), gone, l, a) => AheadOf(x, gone', m, b)
    <3>1. \A k \in m : x.at # End /\ x.at =< k
      BY <1>3, <1>5
    <3> HIDE DEF l, a, m, b
    <3> QED
      BY <1>1, <1>5, <2>1, <3>1 DEF AheadOf
  <2> HIDE DEF l, a, m, b
  <2>5. l = Elements(list_) /\ a = Elements(added_) /\ m = Elements(list_') /\ b = Elements(added_')
    BY DEF l, a, m, b
  <2> QED
    BY <1>1, <1>5, <2>2, <2>3, <2>4, <2>5, SetTopNoneLost
<1> QED
  BY <1>6, <1>7, <1>8, <1>9, <1>10, <1>11, <1>12 DEF WellFormed

\* A slot that is erased was gone, so that no call loses one; the iterator
\* moves to the next greater id.
LEMMA VisitRemovedWellFormed ==
    ASSUME WellFormed, NEW t \in Threads, VisitRemoved(t) PROVE WellFormed'
<1> DEFINE k == Top(t).at
           x == [Top(t) EXCEPT !.at = After(list_, k)]
<1>1. /\ TypeOK /\ Sorted /\ Drawn /\ EnterCounts /\ Stacked /\ Marked /\ NoneLost
      /\ frames[t] # <<>> /\ Top(t).phase = "visit" /\ SetTop(t, x)
      /\ k # End /\ k \in removed_ /\ removed_' = removed_ \ {k} /\ list_' = Without(list_, {k})
      /\ UNCHANGED <<added_, id_, current_enter_, owner, calls, gone, used>>
  BY DEF WellFormed, VisitRemoved, At, IsRemoved, AfterErase, Erase
<1>2. /\ list_ \in Seq(Ids) /\ added_ \in Seq(Ids) /\ Ordered(list_, added_)
      /\ list_' \in Seq(Ids) /\ Elements(list_') = Elements(list_) \ {k} /\ Increasing(list_')
  <2>1. list_ \in Seq(Ids) /\ added_ \in Seq(Ids) /\ Ordered(list_, added_)
    BY <1>1, SortedIsOrdered DEF TypeOK
  <2> HIDE DEF k
  <2>2. /\ list_' \in Seq(Ids) /\ Elements(list_') = Elements(list_) \ {k} /\ Increasing(list_')
    BY <1>1, <2>1, Numbers, WithoutProperties DEF Ordered
  <2> QED
    BY <2>1, <2>2
<1>3. k \in Elements(list_) /\ k \in Ids /\ k \in gone /\ Top(t) \in Frame /\ Top(t).dead \subseteq gone
  BY <1>1, Innermost, Numbers DEF Marked
<1>4. /\ After(list_, k) \in Elements(list_) \cup {End}
      /\ After(list_, k) # End => After(list_, k) > k
      /\ \A y \in Elements(list_) : y > k => After(list_, k) # End /\ After(list_, k) =< y
  BY <1>2, <1>3, AfterIsNext DEF Ordered
<1>5. After(list_, k) \in Elements(list_') \cup {End} /\ After(list_, k) \in Ids \cup {End}
  <2>1. After(list_, k) # k
    BY <1>1, <1>3, <1>4, Numbers
  <2>2. Elements(list_) \subseteq Ids
    BY <1>2, LenProperties, ElementOfSeq DEF Elements
  <2> QED
    BY <1>2, <1>4, <2>1, <2>2
<1>6. /\ x \in Frame /\ x.phase = "visit" /\ x.at = After(list_, k) /\ x.must = Top(t).must /\ x.dead = Top(t).dead
  BY <1>1, <1>3, <1>5 DEF Frame, Phases
<1> HIDE DEF x, k
<1>7. TypeOK'
  BY <1>1, <1>2, <1>6, SetTopStack DEF TypeOK
<1>8. Sorted'
  BY <1>1, <1>2, <1>7, SortedIsOrdered DEF Ordered
<1>9. Drawn'
  BY <1>1, <1>2 DEF Drawn
<1>10. EnterCounts'
  <2>1. list_ = <<>> => list_' = <<>>
    BY <1>2, EmptyList
  <2> QED
    BY <1>1, <1>6, <2>1, SetTopCounts DEF EnterCounts
<1>11. Stacked'
  BY <1>1, <1>3, <1>5, <1>6, SetTopStacked
<1>12. Marked'
  BY <1>1, <1>2, <1>3 DEF Marked, At, AllUnsubscribed
<1>13. NoneLost'
  <2> DEFINE l == Elements(list_)
             a == Elements(added_)
             m == Elements(list_')
             b == Elements(added_')
  <2>1. m = l \ {k} /\ b = a
    BY <1>1, <1>2
  <2>2. "unsubscribe_all" \notin used => (1 .. id_') \ gone' \subseteq m \cup b
    BY <1>1, <1>3, <2>1, NoneLostParts
  <2>3. \A frame \in Frame : AheadOf(frame, gone, l, a) /\ frame.phase = "slot" => AheadOf(frame, gone', m, b)
    BY <1>1, <1>3, <2>1 DEF AheadOf
  <2>4. AheadOf(Top(t), gone, l, a) => AheadOf(x, gone', m, b)
    <3>1. SUFFICES ASSUME AheadOf(Top(t), gone, l, a) PROVE AheadOf(x, gone', m, b)
      OBVIOUS
    <3>2. x.must \subseteq l /\ x.must \cap gone = {} /\ \A y \in x.must : k =< y
      BY <1>1, <1>6, <3>1 DEF AheadOf, k
    <3>3. l \subseteq Ids
      BY <1>2, LenProperties, ElementOfSeq DEF Elements
    <3>4. \A y \in x.must : y \in l /\ y > k
      <4>1. TAKE y \in x.must
      <4> HIDE DEF l
      <4>2. y \in l /\ y \in Ids /\ y # k /\ k =< y
        BY <1>3, <3>2, <3>3
      <4>3. y \in Nat /\ k \in Nat
        BY <1>3, <4>2, Numbers
      <4> QED
        BY <4>2, <4>3
    <3>5. \A y \in x.must : x.at # End /\ x.at =< y
      BY <1>4, <1>6, <3>4
    <3> HIDE DEF l, a, m, b
    <3> QED
      BY <1>1, <1>3, <1>6, <2>1, <3>2, <3>5 DEF AheadOf
  <2> HIDE DEF l, a, m, b
  <2>5. l = Elements(list_) /\ a = Elements(added_) /\ m = Elements(list_') /\ b = Elements(added_')
    BY DEF l, a, m, b
  <2>6. TypeOK /\ EnterCounts /\ Stacked /\ NoneLost /\ frames[t] # <<>> /\ x \in Frame /\ SetTop(t, x) /\ UNCHANGED used
    BY <1>1, <1>6
  <2>7. "unsubscribe_all" \notin used /\ AheadOf(Top(t), gone, l, a) => AheadOf(x, gone', m, b)
    BY <2>4
  <2> QED
    BY <2>2, <2>3, <2>5, <2>6, <2>7, SetTopNoneLost
<1> QED
  BY <1>7, <1>8, <1>9, <1>10, <1>11, <1>12, <1>13 DEF WellFormed

\* All slots go, and the counter of entries with no call under way stays at 1.
LEMMA CleansAndReturnsWellFormed ==
    ASSUME WellFormed, NEW t \in Threads, CleansAndReturns(t) PROVE WellFormed'
<1>1. /\ TypeOK /\ Sorted /\ Drawn /\ EnterCounts /\ Stacked /\ Marked /\ NoneLost
      /\ frames[t] # <<>> /\ Top(t).phase = "clean" /\ AllUnsubscribed /\ Pop(t)
      /\ added_' = <<>> /\ list_' = <<>> /\ removed_' = {}
      /\ UNCHANGED <<id_, current_enter_, calls, gone, used>>
  BY DEF WellFormed, CleansAndReturns, At
<1>2. Len(frames[t]) = 1 /\ current_enter_ = 1 /\ "unsubscribe_all" \in used
  BY <1>1, Innermost DEF EnterCounts
<1>3. frames' \in [Threads -> Seq(Frame)] /\ owner' = NoThread /\ \A u \in Threads : frames'[u] = <<>>
  <2>1. /\ frames' \in [Threads -> Seq(Frame)]
        /\ \A u \in Threads \ {t} : frames'[u] = frames[u]
        /\ ~(frames'[t] # <<>>)
    BY <1>1, <1>2, PopStack
  <2>2. owner' = NoThread
    BY <1>1, <1>2 DEF Pop, OutermostEnds
  <2> QED
    BY <1>1, <2>1, <2>2, InCall
<1>4. TypeOK'
  BY <1>1, <1>3, EmptySeq DEF TypeOK
<1>5. Sorted'
  BY <1>1, <1>4, EmptyList, SortedIsOrdered DEF Ordered
<1>6. EnterCounts'
  <2>1. Depth' = 0
    BY <1>3 DEF Depth
  <2> QED
    BY <1>1, <1>2, <1>3, <2>1, ConstantsAssumption DEF EnterCounts
<1>7. Stacked'
  <2>1. ASSUME NEW u \in Threads PROVE Nested(u)' /\ Len(frames'[u]) =< 1
    BY <1>3, EmptyList DEF Nested
  <2> QED
    BY <2>1 DEF Stacked
<1>8. Drawn' /\ Marked'
  BY <1>1, EmptyList DEF Drawn, Marked, AllUnsubscribed
<1>9. NoneLost'
  BY <1>1, <1>2 DEF NoneLost
<1> QED
  BY <1>4, <1>5, <1>6, <1>7, <1>8, <1>9 DEF WellFormed

\* The outermost call erases what was marked while it ran, and with it all of
\* the marks; a nested one leaves both.
LEMMA CallEndsWellFormed ==
    ASSUME WellFormed, NEW t \in Threads, CallEnds(t) PROVE WellFormed'
<1> DEFINE clears == current_enter_' = 0
<1>1. /\ TypeOK /\ Sorted /\ Drawn /\ EnterCounts /\ Stacked /\ Marked /\ NoneLost
      /\ frames[t] # <<>> /\ Top(t).phase = "visit" /\ Pop(t)
      /\ current_enter_' = current_enter_ - 1
      /\ clears => list_' = Without(list_, removed_) /\ removed_' = {}
      /\ ~clears => list_' = list_ /\ removed_' = removed_
      /\ UNCHANGED <<added_, id_, calls, gone, used>>
  BY DEF WellFormed, CallEnds, At, Leave, ClearRemoved
<1>2. /\ owner = t /\ Len(frames[t]) \in Nat /\ Len(frames[t]) > 0 /\ Depth = Len(frames[t])
      /\ current_enter_ \in Nat /\ current_enter_ >= Len(frames[t])
      /\ \A u \in Threads \ {t} : frames[u] = <<>>
  BY <1>1, InCall
<1>3. /\ frames' \in [Threads -> Seq(Frame)]
      /\ \A u \in Threads \ {t} : frames'[u] = <<>>
      /\ Len(frames'[t]) = Len(frames[t]) - 1
      /\ frames'[t] # <<>> <=> Len(frames[t]) > 1
      /\ DOMAIN frames'[t] = 1 .. Len(frames[t]) - 1
      /\ \A i \in DOMAIN frames'[t] : i + 1 \in DOMAIN frames[t] /\ frames'[t][i] = frames[t][i + 1]
      /\ owner' = IF Len(frames[t]) = 1 THEN NoThread ELSE t
  <2>1. owner' = IF Len(frames[t]) = 1 THEN NoThread ELSE t
    BY <1>1, <1>2 DEF Pop, OutermostEnds
  <2> QED
    BY <1>1, <1>2, <2>1, PopStack
<1>4. clears => Len(frames[t]) = 1
  <2>1. \A n, c \in Nat : n > 0 /\ c >= n /\ c - 1 = 0 => n = 1
    OBVIOUS
  <2> QED
    BY <1>1, <1>2, <2>1
<1>5. list_ \in Seq(Ids) /\ added_ \in Seq(Ids) /\ Ordered(list_, added_)
  BY <1>1, SortedIsOrdered DEF TypeOK
<1>6. /\ list_' \in Seq(Ids) /\ Increasing(list_')
      /\ Elements(list_') = IF clears THEN Elements(list_) \ removed_ ELSE Elements(list_)
  <2>1. CASE clears
    BY <1>1, <1>5, <2>1, Numbers, WithoutProperties DEF Ordered
  <2>2. CASE ~clears
    BY <1>1, <1>5, <2>2 DEF Ordered
  <2> QED
    BY <2>1, <2>2
<1> HIDE DEF clears
<1>7. removed_' \subseteq removed_ /\ current_enter_' \in Nat
  BY <1>1, <1>2
<1>8. TypeOK'
  <2>1. owner' \in Threads \cup {NoThread}
    BY <1>3
  <2> QED
    BY <1>1, <1>3, <1>6, <1>7, <2>1 DEF TypeOK
<1>9. Sorted'
  BY <1>1, <1>5, <1>6, <1>8, SortedIsOrdered DEF Ordered
<1>10. Drawn'
  BY <1>1, <1>6 DEF Drawn
<1>11. EnterCounts'
  <2>1. Depth' = Len(frames[t]) - 1
    <3>1. t # NoThread
      BY ConstantsAssumption
    <3> QED
      BY <1>2, <1>3, <3>1 DEF Depth
  <2>2. \A u \in Threads : (frames'[u] # <<>>) <=> (owner' = u)
    <3>1. ASSUME NEW u \in Threads \ {t} PROVE (frames'[u] # <<>>) <=> (owner' = u)
      BY <1>3, ConstantsAssumption
    <3>2. (frames'[t] # <<>>) <=> (owner' = t)
      <4>1. \A n \in Nat : n > 0 => (n > 1 <=> n # 1)
        OBVIOUS
      <4>2. Len(frames[t]) > 1 <=> Len(frames[t]) # 1
        BY <1>2, <4>1
      <4>3. t # NoThread
        BY ConstantsAssumption
      <4> QED
        BY <1>3, <4>2, <4>3
    <3> QED
      BY <3>1, <3>2
  <2>3. current_enter_' >= Depth' /\ (current_enter_' # Depth' <=> current_enter_ # Depth)
    BY <1>1, <1>2, <2>1
  <2>4. list_ = <<>> => list_' = <<>>
    BY <1>6, EmptyList
  <2>5. AllUnsubscribed' => AllUnsubscribed
    BY <1>7 DEF AllUnsubscribed
  <2> QED
    BY <1>1, <2>2, <2>3, <2>4, <2>5 DEF EnterCounts
<1>12. Stacked'
  <2>1. \A u \in Threads \ {t} : Nested(u)' /\ Len(frames'[u]) =< 1
    BY <1>3, EmptyList DEF Nested
  <2>2. \A i \in DOMAIN frames'[t] : frames'[t][i].phase = "slot" /\ frames'[t][i].dead \subseteq gone'
    <3>1. TAKE i \in DOMAIN frames'[t]
    <3>2. i + 1 \in DOMAIN frames[t] /\ i + 1 > 1 /\ frames'[t][i] = frames[t][i + 1]
      BY <1>2, <1>3
    <3> QED
      BY <1>1, <3>2 DEF Stacked, Nested
  <2>3. Nested(t)'
    BY <2>2 DEF Nested
  <2>4. "nested call" \notin used' => Len(frames'[t]) =< 1
    <3>1. "nested call" \notin used => Len(frames[t]) =< 1
      BY <1>1 DEF Stacked
    <3>2. \A n \in Nat : n =< 1 => n - 1 =< 1
      OBVIOUS
    <3>3. Len(frames[t]) \in Nat /\ Len(frames'[t]) = Len(frames[t]) - 1 /\ used' = used
      BY <1>1, <1>2, <1>3
    <3> QED
      BY <3>1, <3>2, <3>3
  <2> QED
    BY <2>1, <2>3, <2>4 DEF Stacked
<1>13. Marked'
  <2>1. gone \cap Elements(list_) \subseteq removed_
    BY <1>1 DEF Marked, At
  <2>2. gone' \cap Elements(list_') \subseteq removed_'
    BY <1>1, <1>6, <2>1
  <2> QED
    BY <1>1, <1>7, <2>2 DEF Marked
<1>14. NoneLost'
  <2>1. SUFFICES ASSUME "unsubscribe_all" \notin used
                 PROVE  /\ (1 .. id_') \ gone' \subseteq Elements(list_') \cup Elements(added_')
                        /\ \A u \in Threads : frames'[u] # <<>> =>
                              AheadOf(frames'[u][Len(frames'[u])], gone', Elements(list_'), Elements(added_'))
    BY <1>1, NoneLostParts
  <2>2. /\ (1 .. id_) \ gone \subseteq Elements(list_) \cup Elements(added_)
        /\ AheadOf(frames[t][Len(frames[t])], gone, Elements(list_), Elements(added_))
    BY <1>1, <2>1, NoneLostParts
  <2>3. (1 .. id_') \ gone' \subseteq Elements(list_') \cup Elements(added_')
    <3>1. removed_ \cap 1 .. id_ \subseteq gone
      BY <1>1, ConstantsAssumption DEF Marked
    <3> QED
      BY <1>1, <1>6, <2>2, <3>1
  <2>4. ASSUME frames'[t] # <<>>
        PROVE  AheadOf(frames'[t][Len(frames'[t])], gone', Elements(list_'), Elements(added_'))
    <3>1. Len(frames[t]) > 1 /\ ~clears
      BY <1>2, <1>3, <1>4, <2>4
    <3>2. frames'[t][Len(frames'[t])] = frames[t][Len(frames[t])]
      <4>1. Len(frames[t]) - 1 \in DOMAIN frames'[t] /\ Len(frames[t]) - 1 + 1 = Len(frames[t])
        BY <1>2, <1>3, <3>1
      <4> QED
        BY <1>3, <4>1
    <3> QED
      BY <1>1, <1>6, <2>2, <3>1, <3>2
  <2> QED
    BY <1>3, <2>3, <2>4
<1> QED
  BY <1>8, <1>9, <1>10, <1>11, <1>12, <1>13, <1>14 DEF WellFormed

\* A new slot's id is greater than any that was drawn.
LEMMA ConnectWellFormed ==
    ASSUME WellFormed, NEW t \in Threads, Connect(t) PROVE WellFormed'
<1> DEFINE k == id_ + 1
<1>1. /\ TypeOK /\ Sorted /\ Drawn /\ EnterCounts /\ Stacked /\ Marked /\ NoneLost
      /\ id_ < MaxSlots /\ id_' = k /\ added_' = Append(added_, k)
      /\ UNCHANGED <<list_, removed_, current_enter_, owner, frames, calls, gone, used>>
  BY DEF WellFormed, Connect
<1>2. /\ list_ \in Seq(Ids) /\ added_ \in Seq(Ids) /\ Ordered(list_, added_)
      /\ id_ \in Nat /\ k \in Ids /\ k \in 0 .. MaxSlots
      /\ \A x \in Elements(list_) \cup Elements(added_) : x < k
  <2>1. list_ \in Seq(Ids) /\ added_ \in Seq(Ids) /\ Ordered(list_, added_)
    BY <1>1, SortedIsOrdered DEF TypeOK
  <2>2. id_ \in Nat /\ k \in Ids /\ k \in 0 .. MaxSlots
    <3>1. id_ \in 0 .. MaxSlots /\ MaxSlots \in Nat
      <4>1. MaxSlots \in Nat
        BY ConstantsAssumption
      <4> QED
        BY <1>1, <4>1 DEF TypeOK
    <3> QED
      BY <1>1, <3>1 DEF Ids
  <2>3. \A x \in 1 .. id_ : x < k
    BY <2>2
  <2> QED
    BY <1>1, <2>1, <2>2, <2>3 DEF Drawn
<1>3. added_' \in Seq(Ids) /\ Elements(added_') = Elements(added_) \cup {k} /\ Increasing(added_')
  BY <1>1, <1>2, Numbers, AppendOrdered DEF Ordered
<1>4. k \notin gone /\ 1 .. k = (1 .. id_) \cup {k}
  <2>1. k \notin 1 .. id_ /\ 1 .. k = (1 .. id_) \cup {k}
    BY <1>2
  <2> QED
    BY <1>1, <2>1 DEF Drawn
<1> HIDE DEF k
<1>5. TypeOK'
  BY <1>1, <1>2, <1>3 DEF TypeOK
<1>6. Sorted'
  <2>1. \A x \in Elements(list_'), y \in Elements(added_') : x < y
    BY <1>1, <1>2, <1>3 DEF Ordered
  <2> QED
    BY <1>1, <1>2, <1>3, <1>5, <2>1, SortedIsOrdered DEF Ordered
<1>7. Drawn'
  BY <1>1, <1>3, <1>4 DEF Drawn
<1>8. EnterCounts'
  BY <1>1 DEF EnterCounts, Depth, AllUnsubscribed
<1>9. Stacked'
  BY <1>1 DEF Stacked, Nested
<1>10. Marked'
  BY <1>1, <1>3, <1>4 DEF Marked, AllUnsubscribed, At, Top
<1>11. NoneLost'
  <2>1. \A f, l, a : AheadOf(f, gone, l, a) => AheadOf(f, gone, l, a \cup {k})
    BY DEF AheadOf
  <2> QED
    BY <1>1, <1>3, <1>4, <2>1, NoneLostParts
<1> QED
  BY <1>5, <1>6, <1>7, <1>8, <1>9, <1>10, <1>11 DEF WellFormed

\* Forgetting slots leaves the calls where they are.
LEMMA ForgetKeeps ==
    ASSUME TypeOK, EnterCounts, Stacked, NEW ks, Forget(ks),
           list_' = list_, current_enter_' = current_enter_, owner' = owner, gone \subseteq gone',
           "nested call" \notin used' => "nested call" \notin used
    PROVE  /\ frames' \in [Threads -> Seq(Frame)]
           /\ \A u \in Threads : (frames'[u] # <<>>) <=> (frames[u] # <<>>)
           /\ Depth' = Depth /\ Stacked'
           /\ \A u \in Threads : frames[u] = <<>> \/ At(u, "clean") => frames'[u] = <<>> \/ At(u, "clean")'
           /\ \A u \in Threads : frames[u] # <<>> =>
                 frames'[u][Len(frames'[u])] = [frames[u][Len(frames[u])] EXCEPT !.must = @ \ ks]
<1>1. /\ frames' \in [Threads -> Seq(Frame)]
      /\ \A t \in Threads :
            /\ Len(frames'[t]) = Len(frames[t]) /\ DOMAIN frames'[t] = DOMAIN frames[t]
            /\ frames'[t] # <<>> <=> frames[t] # <<>>
            /\ \A i \in DOMAIN frames[t] : frames'[t][i] = [frames[t][i] EXCEPT !.must = @ \ ks]
  BY ForgetStack
<1>2. \A t \in Threads : \A i \in DOMAIN frames[t] :
         /\ frames'[t][i].phase = frames[t][i].phase /\ frames'[t][i].at = frames[t][i].at
         /\ frames'[t][i].dead = frames[t][i].dead
  <2>1. TAKE t \in Threads
  <2>2. TAKE i \in DOMAIN frames[t]
  <2>3. frames[t][i] \in Frame /\ frames'[t][i] = [frames[t][i] EXCEPT !.must = @ \ ks]
    BY <1>1, Stack
  <2> QED
    BY <2>3 DEF Frame
<1>3. Depth' = Depth
  <2>1. owner \in Threads \cup {NoThread}
    BY DEF TypeOK
  <2> QED
    BY <1>1, <2>1 DEF Depth
<1>4. Stacked'
  <2>1. ASSUME NEW t \in Threads PROVE Nested(t)' /\ ("nested call" \notin used' => Len(frames'[t]) =< 1)
    <3>1. Nested(t) /\ ("nested call" \notin used => Len(frames[t]) =< 1)
      BY DEF Stacked
    <3>2. /\ Len(frames'[t]) = Len(frames[t]) /\ DOMAIN frames'[t] = DOMAIN frames[t]
          /\ \A i \in DOMAIN frames[t] :
                /\ frames'[t][i].phase = frames[t][i].phase /\ frames'[t][i].at = frames[t][i].at
                /\ frames'[t][i].dead = frames[t][i].dead
      BY <1>1, <1>2
    <3>3. Nested(t)'
      BY <3>1, <3>2 DEF Nested
    <3> QED
      BY <3>1, <3>2, <3>3
  <2> QED
    BY <2>1 DEF Stacked
<1>5. ASSUME NEW u \in Threads, frames[u] # <<>>
      PROVE  /\ At(u, "clean") => At(u, "clean")'
             /\ frames'[u][Len(frames'[u])] = [frames[u][Len(frames[u])] EXCEPT !.must = @ \ ks]
  <2>1. 1 \in DOMAIN frames[u] /\ Top(u) = frames[u][1]
    BY <1>5, Innermost
  <2>2. frames'[u] # <<>> /\ Top(u)' = frames'[u][1]
    <3>1. frames'[u] \in Seq(Frame) /\ frames'[u] # <<>>
      BY <1>1, <1>5
    <3>2. \A s \in Seq(Frame) : s # <<>> => Head(s) = s[1]
      BY HeadIsFirst
    <3> QED
      BY <3>1, <3>2 DEF Top
  <2>3. Len(frames[u]) \in DOMAIN frames[u]
    BY <1>5, Stack
  <2>4. At(u, "clean") => At(u, "clean")'
    BY <1>2, <2>1, <2>2 DEF At
  <2> QED
    BY <1>1, <2>3, <2>4
<1> QED
  BY <1>1, <1>3, <1>4, <1>5

\* A slot is marked, taken out of the added ones, and forgotten by the calls.
LEMMA UnsubscribeWellFormed ==
    ASSUME WellFormed, NEW t \in Threads, NEW k \in Ids, Unsubscribe(t, k) PROVE WellFormed'
<1>1. /\ TypeOK /\ Sorted /\ Drawn /\ EnterCounts /\ Stacked /\ Marked /\ NoneLost
      /\ k \in 1 .. id_ /\ removed_' = removed_ \cup {k} /\ added_' = RemoveByIndex(added_, k)
      /\ Forget({k}) /\ gone' = gone \cup {k} /\ used' = used \cup {"unsubscribe"}
      /\ UNCHANGED <<list_, id_, current_enter_, owner, calls>>
  BY DEF WellFormed, Unsubscribe, MarkRemoved
<1>2. list_ \in Seq(Ids) /\ added_ \in Seq(Ids) /\ Ordered(list_, added_)
  BY <1>1, SortedIsOrdered DEF TypeOK
<1>3. added_' \in Seq(Ids) /\ Elements(added_') = Elements(added_) \ {k} /\ Increasing(added_')
  BY <1>1, <1>2, Numbers, RemoveByIndexErases DEF Ordered
<1>4. /\ frames' \in [Threads -> Seq(Frame)]
      /\ \A u \in Threads : (frames'[u] # <<>>) <=> (frames[u] # <<>>)
      /\ Depth' = Depth /\ Stacked'
      /\ \A u \in Threads : frames[u] = <<>> \/ At(u, "clean") => frames'[u] = <<>> \/ At(u, "clean")'
      /\ \A u \in Threads : frames[u] # <<>> =>
            frames'[u][Len(frames'[u])] = [frames[u][Len(frames[u])] EXCEPT !.must = @ \ {k}]
  BY <1>1, ForgetKeeps
<1>5. TypeOK'
  BY <1>1, <1>3, <1>4 DEF TypeOK
<1>6. Sorted'
  BY <1>1, <1>2, <1>3, <1>5, SortedIsOrdered DEF Ordered
<1>7. Drawn'
  BY <1>1, <1>3 DEF Drawn
<1>8. EnterCounts'
  <2>1. AllUnsubscribed' <=> AllUnsubscribed
    BY <1>1, ConstantsAssumption, Numbers DEF AllUnsubscribed
  <2> QED
    BY <1>1, <1>4, <2>1 DEF EnterCounts
<1>9. Marked'
  <2>1. removed_' \subseteq gone' \cup {All} /\ gone' \cap Elements(added_') = {}
    BY <1>1, <1>3 DEF Marked
  <2>2. CASE gone \cap Elements(list_) \subseteq removed_
    BY <1>1, <2>1, <2>2 DEF Marked
  <2>3. CASE AllUnsubscribed /\ \A u \in Threads : frames[u] = <<>> \/ At(u, "clean")
    <3>1. AllUnsubscribed' /\ \A u \in Threads : frames'[u] = <<>> \/ At(u, "clean")'
      BY <1>1, <1>4, <2>3 DEF AllUnsubscribed
    <3> QED
      BY <2>1, <3>1 DEF Marked
  <2> QED
    BY <1>1, <2>2, <2>3 DEF Marked
<1>10. NoneLost'
  <2>1. SUFFICES ASSUME "unsubscribe_all" \notin used
                 PROVE  /\ (1 .. id_') \ gone' \subseteq Elements(list_') \cup Elements(added_')
                        /\ \A u \in Threads : frames'[u] # <<>> =>
                              AheadOf(frames'[u][Len(frames'[u])], gone', Elements(list_'), Elements(added_'))
    BY <1>1, NoneLostParts
  <2>2. (1 .. id_') \ gone' \subseteq Elements(list_') \cup Elements(added_')
    BY <1>1, <1>3, <2>1, NoneLostParts
  <2>3. ASSUME NEW u \in Threads, frames'[u] # <<>>
        PROVE  AheadOf(frames'[u][Len(frames'[u])], gone', Elements(list_'), Elements(added_'))
    <3> DEFINE f == frames[u][Len(frames[u])]
               g == frames'[u][Len(frames'[u])]
               l == Elements(list_)
               a == Elements(added_)
    <3>1. f \in Frame /\ g = [f EXCEPT !.must = @ \ {k}] /\ AheadOf(f, gone, l, a)
      <4>1. frames[u] # <<>>
        BY <1>4, <2>3
      <4>2. f \in Frame
        BY <1>1, <4>1, Stack
      <4> QED
        BY <1>1, <1>4, <2>1, <4>1, <4>2, NoneLostParts
    <3> HIDE DEF f, g, l, a
    <3>2. g.phase = f.phase /\ g.at = f.at /\ g.must = f.must \ {k}
      BY <3>1 DEF Frame
    <3>3. AheadOf(g, gone', l, a \ {k})
      BY <1>1, <3>1, <3>2 DEF AheadOf
    <3> QED
      BY <1>1, <1>3, <3>3 DEF g, l, a
  <2> QED
    BY <2>2, <2>3
<1> QED
  BY <1>4, <1>5, <1>6, <1>7, <1>8, <1>9, <1>10 DEF WellFormed

\* The mark of unsubscribe_all stands for the slots in the list.
LEMMA UnsubscribeAllWellFormed ==
    ASSUME WellFormed, NEW t \in Threads, UnsubscribeAll(t) PROVE WellFormed'
<1>1. /\ TypeOK /\ Sorted /\ Drawn /\ EnterCounts /\ Stacked /\ Marked /\ NoneLost
      /\ removed_' = removed_ \cup {All} /\ added_' = <<>>
      /\ Forget(Live) /\ gone' = (IF owner = NoThread THEN gone \cup Live ELSE gone)
      /\ used' = used \cup {"unsubscribe_all"}
      /\ list_' = list_ /\ id_' = id_ /\ current_enter_' = current_enter_ /\ owner' = owner /\ calls' = calls
  BY DEF WellFormed, UnsubscribeAll
<1>2. list_ \in Seq(Ids) /\ added_ \in Seq(Ids) /\ Ordered(list_, added_)
  BY <1>1, SortedIsOrdered DEF TypeOK
<1>3. gone \subseteq gone' /\ gone' \subseteq gone \cup 1 .. id_ /\ (owner # NoThread => gone' = gone)
  BY <1>1 DEF Live
<1>4. /\ frames' \in [Threads -> Seq(Frame)]
      /\ \A u \in Threads : (frames'[u] # <<>>) <=> (frames[u] # <<>>)
      /\ Depth' = Depth /\ Stacked'
      /\ \A u \in Threads : frames[u] = <<>> \/ At(u, "clean") => frames'[u] = <<>> \/ At(u, "clean")'
  <2>1. "nested call" \notin used' => "nested call" \notin used
    BY <1>1
  <2> QED
    BY <1>1, <1>3, <2>1, ForgetKeeps
<1>5. TypeOK'
  <2>1. 1 .. id_ \subseteq Ids
    <3>1. id_ \in 0 .. MaxSlots /\ MaxSlots \in Nat
      <4>1. MaxSlots \in Nat
        BY ConstantsAssumption
      <4> QED
        BY <1>1, <4>1 DEF TypeOK
    <3> QED
      BY <3>1 DEF Ids
  <2>2. added_' \in Seq(Ids)
    BY <1>1, EmptySeq
  <2>3. gone' \subseteq Ids
    BY <1>1, <1>3, <2>1 DEF TypeOK
  <2> QED
    BY <1>1, <1>4, <2>2, <2>3 DEF TypeOK
<1>6. Sorted'
  BY <1>1, <1>2, <1>5, EmptyList, SortedIsOrdered DEF Ordered
<1>7. Drawn'
  BY <1>1, <1>3, EmptyList DEF Drawn
<1>8. EnterCounts'
  BY <1>1, <1>4 DEF EnterCounts
<1>9. Marked'
  <2>1. removed_' \subseteq gone' \cup {All} /\ gone' \cap Elements(added_') = {} /\ AllUnsubscribed'
    BY <1>1, <1>3, EmptyList DEF Marked, AllUnsubscribed
  <2>2. CASE owner = NoThread
    <3>1. \A u \in Threads : frames'[u] = <<>>
      BY <1>1, <1>4, <2>2, ConstantsAssumption DEF EnterCounts
    <3> QED
      BY <2>1, <3>1 DEF Marked
  <2>3. CASE owner # NoThread /\ gone \cap Elements(list_) \subseteq removed_
    BY <1>1, <1>3, <2>1, <2>3 DEF Marked
  <2>4. CASE \A u \in Threads : frames[u] = <<>> \/ At(u, "clean")
    BY <1>4, <2>1, <2>4 DEF Marked
  <2> QED
    BY <1>1, <2>2, <2>3, <2>4 DEF Marked
<1>10. NoneLost'
  BY <1>1 DEF NoneLost
<1> QED
  BY <1>4, <1>5, <1>6, <1>7, <1>8, <1>9, <1>10 DEF WellFormed

\* What a call does to the stacks: it puts a call of its own above those of the
\* thread, which is in none or in a slot, and everybody else is in none.
LEMMA CallStack ==
    ASSUME WellFormed, NEW t \in Threads, Call(t)
    PROVE  /\ current_enter_ \in Nat /\ Len(frames[t]) \in Nat /\ current_enter_ >= Len(frames[t])
           /\ Depth = Len(frames[t]) /\ (frames[t] # <<>> <=> Len(frames[t]) > 0)
           /\ \A u \in Threads \ {t} : frames[u] = <<>> /\ frames'[u] = <<>>
           /\ frames[t] # <<>> => Top(t).phase = "slot" /\ Top(t) = frames[t][1]
           /\ frames' \in [Threads -> Seq(Frame)]
           /\ frames'[t] # <<>> /\ Len(frames'[t]) = Len(frames[t]) + 1
           /\ DOMAIN frames'[t] = 1 .. Len(frames[t]) + 1
           /\ \A i \in 2 .. Len(frames[t]) + 1 : frames'[t][i] = frames[t][i - 1]
           /\ LET x == frames'[t][1]
              IN  /\ x.phase = IF current_enter_' = 1 THEN "clean" ELSE "visit"
                  /\ x.at \in Elements(list_) \cup {End} /\ x.dead = gone
                  /\ x.must = IF frames[t] = <<>> THEN Live ELSE {}
<1> DEFINE outermost == current_enter_' = 1
           x == [phase |-> IF outermost THEN "clean" ELSE "visit",
                 at |-> IF outermost THEN End ELSE First(list_),
                 must |-> IF frames[t] = <<>> THEN Live ELSE {},
                 dead |-> gone]
<1>1. /\ TypeOK /\ Sorted /\ EnterCounts
      /\ InUser(t) /\ owner \in {NoThread, t}
      /\ frames' = [frames EXCEPT ![t] = <<x>> \o @]
  BY DEF WellFormed, Call
<1>2. list_ \in Seq(Ids) /\ added_ \in Seq(Ids) /\ Ordered(list_, added_)
  BY <1>1, SortedIsOrdered DEF TypeOK
<1>3. First(list_) \in Elements(list_) \cup {End}
  BY <1>2, FirstIsLeast DEF Ordered
<1>4. Live \subseteq Ids /\ gone \subseteq Ids /\ Elements(list_) \subseteq Ids
  <2>1. 1 .. id_ \subseteq Ids
    <3>1. id_ \in 0 .. MaxSlots /\ MaxSlots \in Nat
      <4>1. MaxSlots \in Nat
        BY ConstantsAssumption
      <4> QED
        BY <1>1, <4>1 DEF TypeOK
    <3> QED
      BY <3>1 DEF Ids
  <2>2. Elements(list_) \subseteq Ids
    BY <1>2, LenProperties, ElementOfSeq DEF Elements
  <2>3. gone \subseteq Ids
    BY <1>1 DEF TypeOK
  <2> QED
    BY <2>1, <2>2, <2>3 DEF Live
<1>5. /\ x \in Frame /\ x.phase = (IF outermost THEN "clean" ELSE "visit")
      /\ x.at \in Elements(list_) \cup {End} /\ x.dead = gone
      /\ x.must = IF frames[t] = <<>> THEN Live ELSE {}
  BY <1>3, <1>4 DEF Frame, Phases
<1> HIDE DEF x
\* Before the call: nobody else is in one, and t is not or is in a slot.
<1>6. /\ current_enter_ \in Nat /\ Len(frames[t]) \in Nat /\ current_enter_ >= Len(frames[t])
      /\ Depth = Len(frames[t]) /\ (frames[t] # <<>> <=> Len(frames[t]) > 0)
      /\ \A u \in Threads \ {t} : frames[u] = <<>>
      /\ frames[t] # <<>> => Top(t).phase = "slot" /\ Top(t) = frames[t][1]
  <2>1. current_enter_ \in Nat /\ current_enter_ >= Depth
    BY <1>1 DEF TypeOK, EnterCounts
  <2>2. \A u \in Threads \ {t} : frames[u] = <<>>
    BY <1>1, ConstantsAssumption DEF EnterCounts
  <2>3. Depth = Len(frames[t])
    <3>1. CASE owner = NoThread
      <4>1. frames[t] = <<>>
        BY <1>1, <3>1, ConstantsAssumption DEF EnterCounts
      <4> QED
        BY <3>1, <4>1, EmptyList DEF Depth
    <3>2. CASE owner # NoThread
      BY <1>1, <3>2 DEF Depth
    <3> QED
      BY <3>1, <3>2
  <2> QED
    BY <1>1, <2>1, <2>2, <2>3, Stack DEF InUser, At
<1>7. /\ frames' \in [Threads -> Seq(Frame)]
      /\ \A u \in Threads \ {t} : frames'[u] = <<>>
      /\ frames'[t] # <<>> /\ Len(frames'[t]) = Len(frames[t]) + 1
      /\ DOMAIN frames'[t] = 1 .. Len(frames[t]) + 1
      /\ frames'[t][1] = x
      /\ \A i \in 2 .. Len(frames[t]) + 1 : frames'[t][i] = frames[t][i - 1]
  <2> DEFINE r == <<x>> \o frames[t]
  <2>1. /\ r \in Seq(Frame) /\ r # <<>> /\ Len(r) = Len(frames[t]) + 1 /\ DOMAIN r = 1 .. Len(r)
        /\ r[1] = x /\ \A i \in 2 .. Len(frames[t]) + 1 : r[i] = frames[t][i - 1]
    <3>1. frames[t] \in Seq(Frame)
      BY <1>1, Stack
    <3>2. /\ r \in Seq(Frame) /\ r # <<>> /\ Len(r) = Len(frames[t]) + 1
          /\ r[1] = x /\ \A i \in 2 .. Len(frames[t]) + 1 : r[i] = frames[t][i - 1]
      BY <1>5, <3>1, StackProperties
    <3> HIDE DEF r
    <3> QED
      BY <3>2, LenProperties
  <2>2. frames' = [frames EXCEPT ![t] = r] /\ frames \in [Threads -> Seq(Frame)]
    BY <1>1 DEF TypeOK
  <2> HIDE DEF r
  <2> QED
    BY <1>6, <2>1, <2>2
<1> QED
  BY <1>5, <1>6, <1>7

\* A call is the outermost one if the counter of entries was 0, and then nobody
\* was in a call; if it was not and nobody was, the list is empty.
LEMMA CallWellFormed ==
    ASSUME WellFormed, NEW t \in Threads, Call(t) PROVE WellFormed'
<1> DEFINE outermost == current_enter_' = 1
           x == frames'[t][1]
<1>1. /\ TypeOK /\ Sorted /\ Drawn /\ EnterCounts /\ Stacked /\ Marked /\ NoneLost
      /\ owner \in {NoThread, t}
      /\ calls' = calls + 1 /\ used' = (IF frames[t] = <<>> THEN used ELSE used \cup {"nested call"})
      /\ owner' = t /\ current_enter_' = current_enter_ + 1
      /\ list_' = list_ /\ added_' = added_ /\ removed_' = removed_ /\ id_' = id_ /\ gone' = gone
  BY DEF WellFormed, Call
<1>2. /\ x.phase = (IF outermost THEN "clean" ELSE "visit")
      /\ x.at \in Elements(list_) \cup {End} /\ x.dead = gone
      /\ x.must = IF frames[t] = <<>> THEN Live ELSE {}
  BY CallStack
<1>3. /\ current_enter_ \in Nat /\ Len(frames[t]) \in Nat /\ current_enter_ >= Len(frames[t])
      /\ Depth = Len(frames[t]) /\ (frames[t] # <<>> <=> Len(frames[t]) > 0)
      /\ \A u \in Threads \ {t} : frames[u] = <<>>
      /\ frames[t] # <<>> => Top(t).phase = "slot" /\ Top(t) = frames[t][1]
  BY CallStack
<1>4. /\ frames' \in [Threads -> Seq(Frame)]
      /\ \A u \in Threads \ {t} : frames'[u] = <<>>
      /\ frames'[t] # <<>> /\ Len(frames'[t]) = Len(frames[t]) + 1
      /\ DOMAIN frames'[t] = 1 .. Len(frames[t]) + 1
      /\ frames'[t][1] = x
      /\ \A i \in 2 .. Len(frames[t]) + 1 : frames'[t][i] = frames[t][i - 1]
  BY CallStack
<1> HIDE DEF x
\* The list the call sees when it is not the outermost one.
<1>5. outermost => frames[t] = <<>>
  <2>1. \A n, c \in Nat : c >= n /\ c + 1 = 1 => ~(n > 0)
    OBVIOUS
  <2> QED
    BY <1>1, <1>3, <2>1
<1>6. ~outermost /\ frames[t] = <<>> => list_ = <<>> /\ "unsubscribe_all" \in used
  <2>1. \A n, c \in Nat : c >= n /\ c + 1 # 1 /\ ~(n > 0) => c # n
    OBVIOUS
  <2> QED
    BY <1>1, <1>3, <2>1 DEF EnterCounts
<1>7. TypeOK'
  <2>1. calls' \in Nat /\ current_enter_' \in Nat
    <3>1. calls \in Nat /\ current_enter_ \in Nat
      BY <1>1 DEF TypeOK
    <3>2. calls' = calls + 1 /\ current_enter_' = current_enter_ + 1
      BY <1>1
    <3> QED
      BY <3>1, <3>2
  <2>2. used' \subseteq {"unsubscribe", "unsubscribe_all", "nested call"}
    <3>1. used \subseteq {"unsubscribe", "unsubscribe_all", "nested call"}
      BY <1>1 DEF TypeOK
    <3>2. used' \subseteq used \cup {"nested call"}
      BY <1>1
    <3> QED
      BY <3>1, <3>2
  <2> QED
    BY <1>1, <1>4, <2>1, <2>2 DEF TypeOK
<1>8. Sorted' /\ Drawn'
  BY <1>1 DEF Sorted, Drawn
<1>9. EnterCounts'
  <2>1. Depth' = Len(frames[t]) + 1
    BY <1>1, <1>4, ConstantsAssumption DEF Depth
  <2>2. current_enter_' >= Depth' /\ (current_enter_' # Depth' <=> current_enter_ # Depth)
    <3>1. \A n, c \in Nat : c >= n => c + 1 >= n + 1 /\ (c + 1 # n + 1 <=> c # n)
      OBVIOUS
    <3> QED
      BY <1>1, <1>3, <2>1, <3>1
  <2>3. \A u \in Threads : (frames'[u] # <<>>) <=> (owner' = u)
    BY <1>1, <1>4
  <2> QED
    BY <1>1, <2>2, <2>3 DEF EnterCounts, AllUnsubscribed
<1>10. Stacked'
  <2>1. \A u \in Threads \ {t} : Nested(u)' /\ Len(frames'[u]) =< 1
    BY <1>4, EmptyList DEF Nested
  <2>2. ASSUME NEW i \in DOMAIN frames'[t]
        PROVE  /\ i > 1 => frames'[t][i].phase = "slot"
               /\ frames'[t][i].phase \in {"clean", "splice"} => Len(frames'[t]) = 1 /\ current_enter_' = 1
               /\ frames'[t][i].phase \in {"visit", "exec"} => frames'[t][i].at \in Elements(list_') \cup {End}
               /\ frames'[t][i].phase = "exec" => frames'[t][i].at # End
               /\ frames'[t][i].dead \subseteq gone'
    <3>1. CASE i = 1
      <4>1. outermost => Len(frames'[t]) = 1
        <5>1. outermost => Len(frames[t]) = 0
          BY <1>3, <1>5
        <5> QED
          BY <1>4, <5>1
      <4>2. frames'[t][i] = x
        BY <1>4, <3>1
      <4>3. list_' = list_ /\ gone' = gone /\ ~(i > 1)
        <5>1. ~(1 > 1)
          OBVIOUS
        <5>2. ~(i > 1)
          BY <3>1, <5>1, Zenon
        <5> QED
          BY <1>1, <5>2
      <4> QED
        BY <1>2, <4>1, <4>2, <4>3
    <3>2. CASE i # 1
      <4>1. i \in 2 .. Len(frames[t]) + 1 /\ i - 1 \in 1 .. Len(frames[t])
        <5>1. i \in 1 .. Len(frames[t]) + 1
          BY <1>4
        <5> QED
          BY <1>3, <3>2, <5>1
      <4>2. i - 1 \in DOMAIN frames[t] /\ frames'[t][i] = frames[t][i - 1] /\ frames[t] # <<>>
        <5>1. DOMAIN frames[t] = 1 .. Len(frames[t])
          BY <1>1, Stack
        <5> QED
          BY <1>4, <4>1, <5>1, EmptyList
      <4>3. i - 1 = 1 \/ i - 1 > 1
        BY <4>1
      <4>4. frames[t][i - 1].phase = "slot" /\ frames[t][i - 1].dead \subseteq gone
        BY <1>1, <1>3, <4>2, <4>3 DEF Stacked, Nested
      <4> QED
        BY <1>1, <4>2, <4>4
    <3> QED
      BY <3>1, <3>2
  <2>3. Nested(t)'
    BY <2>2 DEF Nested
  <2>4. "nested call" \notin used' => Len(frames'[t]) =< 1
    <3>1. "nested call" \notin used' => frames[t] = <<>>
      BY <1>1
    <3>2. frames[t] = <<>> => Len(frames'[t]) = 1
      <4>1. frames[t] = <<>> => Len(frames[t]) = 0
        BY <1>3
      <4> QED
        BY <1>4, <4>1
    <3>3. 1 =< 1
      OBVIOUS
    <3> QED
      BY <3>1, <3>2, <3>3, Zenon
  <2> QED
    BY <2>1, <2>3, <2>4 DEF Stacked
<1>11. Marked'
  <2>1. removed_' \subseteq gone' \cup {All} /\ gone' \cap Elements(added_') = {}
    BY <1>1 DEF Marked
  <2>2. CASE gone \cap Elements(list_) \subseteq removed_
    BY <1>1, <2>1, <2>2 DEF Marked
  <2>3. CASE AllUnsubscribed /\ \A u \in Threads : frames[u] = <<>> \/ At(u, "clean")
    <3>1. frames[t] = <<>>
      BY <1>3, <2>3 DEF At
    <3>2. CASE outermost
      <4>1. Top(t)' = x
        <5>1. frames'[t] \in Seq(Frame) /\ frames'[t] # <<>>
          BY <1>4
        <5> QED
          BY <1>4, <5>1, HeadIsFirst DEF Top
      <4>2. At(t, "clean")'
        BY <1>2, <1>4, <3>2, <4>1 DEF At
      <4> QED
        BY <1>1, <1>4, <2>1, <2>3, <4>2 DEF Marked, AllUnsubscribed
    <3>3. CASE ~outermost
      <4>1. gone' \cap Elements(list_') = {}
        BY <1>1, <1>6, <3>1, <3>3, EmptyList
      <4> QED
        BY <2>1, <4>1 DEF Marked
    <3> QED
      BY <3>2, <3>3
  <2> QED
    BY <1>1, <2>2, <2>3 DEF Marked
<1>12. NoneLost'
  <2>1. SUFFICES ASSUME "unsubscribe_all" \notin used
                 PROVE  /\ (1 .. id_') \ gone' \subseteq Elements(list_') \cup Elements(added_')
                        /\ \A u \in Threads : frames'[u] # <<>> =>
                              AheadOf(frames'[u][Len(frames'[u])], gone', Elements(list_'), Elements(added_'))
    BY <1>1, NoneLostParts
  <2>2. /\ (1 .. id_) \ gone \subseteq Elements(list_) \cup Elements(added_)
        /\ frames[t] # <<>> => AheadOf(frames[t][Len(frames[t])], gone, Elements(list_), Elements(added_))
    BY <1>1, <2>1, NoneLostParts
  <2>3. CASE frames[t] = <<>>
    <3>1. frames'[t][Len(frames'[t])] = x /\ x.phase = "clean" /\ x.must = (1 .. id_) \ gone
      <4>1. Len(frames'[t]) = 1
        BY <1>4, <2>3, EmptyList
      <4> QED
        BY <1>2, <1>4, <1>6, <2>1, <2>3, <4>1 DEF Live
    <3>2. AheadOf(x, gone, Elements(list_), Elements(added_))
      BY <2>2, <3>1 DEF AheadOf
    <3> QED
      BY <1>1, <1>4, <2>2, <3>1, <3>2
  <2>4. CASE frames[t] # <<>>
    <3>1. frames'[t][Len(frames'[t])] = frames[t][Len(frames[t])]
      <4>1. \A n \in Nat : n > 0 => n + 1 \in 2 .. n + 1 /\ n + 1 - 1 = n
        OBVIOUS
      <4>2. Len(frames[t]) \in Nat /\ Len(frames[t]) > 0 /\ Len(frames'[t]) = Len(frames[t]) + 1
        BY <1>3, <1>4, <2>4
      <4>3. frames'[t][Len(frames[t]) + 1] = frames[t][Len(frames[t]) + 1 - 1]
        BY <1>4, <4>1, <4>2
      <4> QED
        BY <4>1, <4>2, <4>3
    <3> QED
      BY <1>1, <1>4, <2>2, <2>4, <3>1
  <2> QED
    BY <2>3, <2>4
<1> QED
  BY <1>7, <1>8, <1>9, <1>10, <1>11, <1>12 DEF WellFormed

\* Every step keeps the invariant.
LEMMA StepWellFormed == WellFormed /\ [Next]_vars => WellFormed'
<1> SUFFICES ASSUME WellFormed, [Next]_vars PROVE WellFormed'
  OBVIOUS
<1>1. ASSUME NEW t \in Threads, Connect(t) PROVE WellFormed'
  BY <1>1, ConnectWellFormed
<1>2. ASSUME NEW t \in Threads, NEW k \in Ids, Unsubscribe(t, k) PROVE WellFormed'
  BY <1>2, UnsubscribeWellFormed
<1>3. ASSUME NEW t \in Threads, UnsubscribeAll(t) PROVE WellFormed'
  BY <1>3, UnsubscribeAllWellFormed
<1>4. ASSUME NEW t \in Threads, Call(t) PROVE WellFormed'
  BY <1>4, CallWellFormed
<1>5. ASSUME NEW t \in Threads, CleansAndReturns(t) PROVE WellFormed'
  BY <1>5, CleansAndReturnsWellFormed
<1>6. ASSUME NEW t \in Threads, CheckClean(t) PROVE WellFormed'
  BY <1>6, CheckCleanWellFormed
<1>7. ASSUME NEW t \in Threads, SpliceAdded(t) PROVE WellFormed'
  BY <1>7, SpliceAddedWellFormed
<1>8. ASSUME NEW t \in Threads, VisitRemoved(t) PROVE WellFormed'
  BY <1>8, VisitRemovedWellFormed
<1>9. ASSUME NEW t \in Threads, Visit(t) PROVE WellFormed'
  BY <1>9, VisitWellFormed
<1>10. ASSUME NEW t \in Threads, ExecSlot(t) PROVE WellFormed'
  BY <1>10, ExecSlotWellFormed
<1>11. ASSUME NEW t \in Threads, SlotReturns(t) PROVE WellFormed'
  BY <1>11, SlotReturnsWellFormed
<1>12. ASSUME NEW t \in Threads, CallEnds(t) PROVE WellFormed'
  BY <1>12, CallEndsWellFormed
<1>13. CASE UNCHANGED vars
  BY <1>13 DEF WellFormed, vars, TypeOK, Sorted, Drawn, EnterCounts, Depth, AllUnsubscribed, Stacked, Nested,
               Marked, At, Top, NoneLost, Live, Ahead
<1> QED
  BY <1>1, <1>2, <1>3, <1>4, <1>5, <1>6, <1>7, <1>8, <1>9, <1>10, <1>11, <1>12, <1>13 DEF Next

\* Whichever thread or slot calls next, the lists are sorted, one after the
\* other, the entries counted, the calls nested, and every slot that was
\* unsubscribed is marked where it is.
THEOREM WellFormedHolds == Spec => []WellFormed
<1>1. Init => WellFormed
  BY InitWellFormed
<1>2. WellFormed /\ [Next]_vars => WellFormed'
  BY StepWellFormed
<1> QED
  BY <1>1, <1>2, PTL DEF Spec

-----------------------------------------------------------------------------
(***************************************************************************)
(* What follows for the slots.                                             *)
(***************************************************************************)
\* A step leaves the point, the iterator and the dead of every call as they
\* were, but for the innermost call of the thread it is of, and but for the
\* stacks becoming one longer or one shorter.
SameCall(f, g) == f.phase = g.phase /\ f.at = g.at /\ f.dead = g.dead

\* The calls under way after a step, in terms of those before it.
LEMMA CallsAfterStep ==
    ASSUME WellFormed, NEW t \in Threads, NEW u \in Threads, NEW i \in DOMAIN frames'[u]
    PROVE  /\ Connect(t) \/ (\E k \in Ids : Unsubscribe(t, k)) \/ UnsubscribeAll(t) =>
                 i \in DOMAIN frames[u] /\ SameCall(frames'[u][i], frames[u][i])
           /\ Call(t) =>
                 \/ u = t /\ i = 1 /\ frames'[u][i].phase \in {"clean", "visit"}
                                 /\ frames'[u][i].at \in Elements(list_) \cup {End}
                 \/ u = t /\ frames[t] # <<>> /\ \E j \in DOMAIN frames[t] : frames'[u][i] = frames[t][j]
           /\ CleansAndReturns(t) => FALSE
           /\ CallEnds(t) =>
                 u = t /\ Len(frames[t]) > 1 /\ \E j \in DOMAIN frames[t] : frames'[u][i] = frames[t][j]
           /\ \A x \in Frame : frames[t] # <<>> /\ SetTop(t, x) =>
                 u = t /\ i \in DOMAIN frames[t] /\ frames'[u][i] = IF i = 1 THEN x ELSE frames[t][i]
<1>1. TypeOK /\ EnterCounts /\ Stacked
  BY DEF WellFormed
<1>2. ASSUME Connect(t) \/ (\E k \in Ids : Unsubscribe(t, k)) \/ UnsubscribeAll(t)
      PROVE  i \in DOMAIN frames[u] /\ SameCall(frames'[u][i], frames[u][i])
  <2>1. CASE frames' = frames
    BY <2>1 DEF SameCall
  <2>2. ASSUME NEW ks, Forget(ks) PROVE i \in DOMAIN frames[u] /\ SameCall(frames'[u][i], frames[u][i])
    <3>1. i \in DOMAIN frames[u] /\ frames'[u][i] = [frames[u][i] EXCEPT !.must = @ \ ks]
      BY <1>1, <2>2, ForgetStack
    <3>2. frames[u][i] \in Frame
      BY <1>1, <3>1, Stack
    <3> QED
      BY <3>1, <3>2 DEF Frame, SameCall
  <2>3. frames' = frames \/ (\E k \in Ids : Forget({k})) \/ Forget(Live)
    BY <1>2 DEF Connect, Unsubscribe, UnsubscribeAll
  <2> QED
    BY <2>1, <2>2, <2>3
<1>3. ASSUME Call(t)
      PROVE  \/ u = t /\ i = 1 /\ frames'[u][i].phase \in {"clean", "visit"}
                              /\ frames'[u][i].at \in Elements(list_) \cup {End}
             \/ u = t /\ frames[t] # <<>> /\ \E j \in DOMAIN frames[t] : frames'[u][i] = frames[t][j]
  <2>1. u = t
    BY <1>3, CallStack, EmptyList
  <2>2. i \in 1 .. Len(frames[t]) + 1 /\ Len(frames[t]) \in Nat
    BY <1>3, <2>1, CallStack
  <2>3. CASE i = 1
    BY <1>3, <2>1, <2>3, CallStack
  <2>4. CASE i # 1
    <3>1. i \in 2 .. Len(frames[t]) + 1 /\ i - 1 \in 1 .. Len(frames[t]) /\ Len(frames[t]) > 0
      BY <2>2, <2>4
    <3>2. frames'[t][i] = frames[t][i - 1] /\ frames[t] # <<>>
      BY <1>3, <3>1, CallStack
    <3>3. i - 1 \in DOMAIN frames[t]
      BY <1>1, <3>1, Stack
    <3> QED
      BY <2>1, <3>2, <3>3
  <2> QED
    BY <2>3, <2>4
<1>4. ASSUME CleansAndReturns(t) \/ CallEnds(t)
      PROVE  u = t /\ Len(frames[t]) > 1 /\ \E j \in DOMAIN frames[t] : frames'[u][i] = frames[t][j]
  <2>1. frames[t] # <<>> /\ Pop(t)
    BY <1>4 DEF CleansAndReturns, CallEnds, At
  <2>2. /\ \A v \in Threads \ {t} : frames'[v] = <<>>
        /\ frames'[t] # <<>> <=> Len(frames[t]) > 1
        /\ \A n \in DOMAIN frames'[t] : n + 1 \in DOMAIN frames[t] /\ frames'[t][n] = frames[t][n + 1]
    BY <1>1, <2>1, InCall, PopStack
  <2>3. u = t /\ frames'[t] # <<>>
    BY <2>2, EmptyList
  <2> QED
    BY <2>2, <2>3
<1>5. ASSUME CleansAndReturns(t) PROVE FALSE
  <2>1. Len(frames[t]) = 1
    BY <1>1, <1>5, Innermost DEF CleansAndReturns, At
  <2> QED
    BY <1>4, <1>5, <2>1
<1>6. ASSUME NEW x \in Frame, frames[t] # <<>>, SetTop(t, x)
      PROVE  u = t /\ i \in DOMAIN frames[t] /\ frames'[u][i] = IF i = 1 THEN x ELSE frames[t][i]
  <2>1. u = t
    <3>1. \A v \in Threads \ {t} : frames'[v] = <<>>
      BY <1>1, <1>6, InCall, SetTopStack
    <3> QED
      BY <3>1, EmptyList
  <2>2. /\ DOMAIN frames'[t] = DOMAIN frames[t] /\ frames'[t][1] = x
        /\ \A n \in DOMAIN frames[t] : n > 1 => frames'[t][n] = frames[t][n]
    BY <1>1, <1>6, SetTopStack
  <2>3. \A n \in DOMAIN frames[t] : n # 1 => n > 1
    BY <1>1, Stack
  <2> QED
    BY <2>1, <2>2, <2>3
<1> QED
  BY <1>2, <1>3, <1>4, <1>5, <1>6

\* A slot that was unsubscribed before a call began is not run by that call.
THEOREM UnsubscribedNotRunHolds == Spec => []UnsubscribedNotRun
<1> DEFINE Safe(f) == f.phase \in {"exec", "slot"} => f.at \notin f.dead
<1>1. Init => UnsubscribedNotRun
  BY EmptyList DEF Init, UnsubscribedNotRun
<1>2. ASSUME WellFormed, UnsubscribedNotRun, [Next]_vars PROVE UnsubscribedNotRun'
  <2>1. SUFFICES ASSUME NEW u \in Threads, NEW i \in DOMAIN frames'[u] PROVE Safe(frames'[u][i])
    BY DEF UnsubscribedNotRun
  <2>2. \A v \in Threads : \A j \in DOMAIN frames[v] : Safe(frames[v][j])
    BY <1>2 DEF UnsubscribedNotRun
  <2>3. TypeOK /\ EnterCounts /\ Stacked /\ Marked
    BY <1>2 DEF WellFormed
  <2>4. ASSUME NEW t \in Threads, Connect(t) \/ (\E k \in Ids : Unsubscribe(t, k)) \/ UnsubscribeAll(t)
        PROVE  Safe(frames'[u][i])
    <3>1. i \in DOMAIN frames[u] /\ SameCall(frames'[u][i], frames[u][i])
      BY <1>2, <2>4, CallsAfterStep
    <3> QED
      BY <2>2, <3>1 DEF SameCall
  <2>5. ASSUME NEW t \in Threads, Call(t) PROVE Safe(frames'[u][i])
    BY <1>2, <2>2, <2>5, CallsAfterStep
  <2>6. ASSUME NEW t \in Threads, CleansAndReturns(t) \/ CallEnds(t) PROVE Safe(frames'[u][i])
    BY <1>2, <2>2, <2>6, CallsAfterStep
  <2>7. ASSUME NEW t \in Threads, NEW x \in Frame, frames[t] # <<>>, SetTop(t, x), Safe(x)
        PROVE  Safe(frames'[u][i])
    <3>1. u = t /\ i \in DOMAIN frames[t] /\ frames'[u][i] = IF i = 1 THEN x ELSE frames[t][i]
      BY <1>2, <2>7, CallsAfterStep
    <3> HIDE DEF Safe
    <3> QED
      BY <2>2, <2>7, <3>1
  <2>8. ASSUME NEW t \in Threads, CheckClean(t) PROVE Safe(frames'[u][i])
    <3> DEFINE x == [Top(t) EXCEPT !.phase = "splice"]
    <3>1. frames[t] # <<>> /\ SetTop(t, x)
      BY <2>8 DEF CheckClean, At
    <3>2. x \in Frame /\ Safe(x)
      BY <2>3, <3>1, Innermost DEF Frame, Phases
    <3> QED
      BY <2>7, <3>1, <3>2
  <2>9. ASSUME NEW t \in Threads, SpliceAdded(t) PROVE Safe(frames'[u][i])
    <3> DEFINE x == [Top(t) EXCEPT !.phase = "visit", !.at = First(list_')]
    <3>1. frames[t] # <<>> /\ SetTop(t, x) /\ Top(t).phase = "splice"
      BY <2>9 DEF SpliceAdded, At
    <3>2. x.phase = "visit" /\ x \in Frame
      <4>1. WellFormed'
        BY <1>2, <2>9, SpliceAddedWellFormed
      <4>2. list_' \in Seq(Ids) /\ Increasing(list_')
        BY <4>1, SortedIsOrdered DEF WellFormed, TypeOK, Ordered
      <4>3. First(list_') \in Ids \cup {End}
        BY <4>2, FirstIsLeast, LenProperties, ElementOfSeq DEF Elements
      <4> QED
        BY <2>3, <3>1, <4>3, Innermost DEF Frame, Phases
    <3> QED
      BY <2>7, <3>1, <3>2
  <2>10. ASSUME NEW t \in Threads, VisitRemoved(t) \/ SlotReturns(t) PROVE Safe(frames'[u][i])
    <3>1. /\ frames[t] # <<>> /\ Top(t).at \in Elements(list_)
          /\ SetTop(t, [Top(t) EXCEPT !.phase = "visit", !.at = After(list_, Top(t).at)])
      <4>1. CASE VisitRemoved(t)
        <5>1. frames[t] # <<>> /\ Top(t).phase = "visit" /\ Top(t).at # End
              /\ SetTop(t, [Top(t) EXCEPT !.at = After(list_, Top(t).at)])
          BY <4>1 DEF VisitRemoved, At, AfterErase
        <5>2. [Top(t) EXCEPT !.at = After(list_, Top(t).at)] =
                  [Top(t) EXCEPT !.phase = "visit", !.at = After(list_, Top(t).at)]
          BY <2>3, <5>1, Innermost DEF Frame
        <5> QED
          BY <2>3, <5>1, <5>2, Innermost
      <4>2. CASE SlotReturns(t)
        BY <4>2 DEF SlotReturns, At
      <4> QED
        BY <2>10, <4>1, <4>2
    <3> DEFINE x == [Top(t) EXCEPT !.phase = "visit", !.at = After(list_, Top(t).at)]
    <3>2. x.phase = "visit" /\ x \in Frame
      <4>1. list_ \in Seq(Ids) /\ Increasing(list_)
        BY <1>2, SortedIsOrdered DEF WellFormed, TypeOK, Ordered
      <4>2. After(list_, Top(t).at) \in Ids \cup {End}
        BY <3>1, <4>1, AfterIsNext, LenProperties, ElementOfSeq DEF Elements
      <4> QED
        BY <2>3, <3>1, <4>2, Innermost DEF Frame, Phases
    <3> QED
      BY <2>7, <3>1, <3>2
  <2>11. ASSUME NEW t \in Threads, Visit(t) PROVE Safe(frames'[u][i])
    <3> DEFINE x == [Top(t) EXCEPT !.phase = "exec"]
    <3>1. frames[t] # <<>> /\ SetTop(t, x) /\ Top(t).phase = "visit" /\ Top(t).at # End /\ Top(t).at \notin removed_
      BY <2>11 DEF Visit, At, IsRemoved
    <3>2. Top(t).at \in Elements(list_) /\ Top(t).dead \subseteq gone
      BY <2>3, <3>1, Innermost
    <3>3. Top(t).at \notin gone
      BY <2>3, <3>1, <3>2 DEF Marked, At
    <3>4. x \in Frame /\ Safe(x)
      BY <2>3, <3>1, <3>2, <3>3, Innermost DEF Frame, Phases
    <3> QED
      BY <2>7, <3>1, <3>4
  <2>12. ASSUME NEW t \in Threads, ExecSlot(t) PROVE Safe(frames'[u][i])
    <3> DEFINE x == [Top(t) EXCEPT !.phase = "slot", !.must = @ \ {Top(t).at}]
    <3>1. frames[t] # <<>> /\ SetTop(t, x) /\ Top(t).phase = "exec"
      BY <2>12 DEF ExecSlot, At
    <3>2. Top(t) = frames[t][1] /\ 1 \in DOMAIN frames[t] /\ Top(t) \in Frame
      BY <2>3, <3>1, Innermost
    <3>3. Safe(Top(t))
      BY <2>2, <3>2
    <3>4. x \in Frame /\ Safe(x)
      BY <3>1, <3>2, <3>3 DEF Frame, Phases
    <3> QED
      BY <2>7, <3>1, <3>4
  <2>13. CASE UNCHANGED vars
    BY <2>2, <2>13 DEF vars
  <2> QED
    BY <1>2, <2>4, <2>5, <2>6, <2>8, <2>9, <2>10, <2>11, <2>12, <2>13 DEF Next
<1> QED
  BY <1>1, <1>2, WellFormedHolds, PTL DEF Spec

\* As long as no slot calls the observer, a call's iterator is at an element of
\* the list whatever the slots and the other threads do.
THEOREM NoDanglingIteratorHolds == Spec => []NoDanglingIterator
<1> DEFINE Fine(f, l) == f.at # End => f.at \in Elements(l)
<1>1. Init => NoDanglingIterator
  BY EmptyList DEF Init, NoDanglingIterator, Dangling
<1>2. ASSUME WellFormed, NoDanglingIterator, [Next]_vars PROVE NoDanglingIterator'
  <2>1. SUFFICES ASSUME "nested call" \notin used', NEW u \in Threads, NEW i \in DOMAIN frames'[u]
                 PROVE  Fine(frames'[u][i], list_')
    BY DEF NoDanglingIterator, Dangling
  <2>2. "nested call" \notin used
    BY <1>2, <2>1 DEF Next, vars, Connect, Unsubscribe, UnsubscribeAll, Call, CleansAndReturns, CheckClean,
                      SpliceAdded, VisitRemoved, Visit, ExecSlot, SlotReturns, CallEnds
  <2>3. \A v \in Threads : \A j \in DOMAIN frames[v] : Fine(frames[v][j], list_)
    BY <1>2, <2>2 DEF NoDanglingIterator, Dangling
  <2>4. TypeOK /\ EnterCounts /\ Stacked /\ \A v \in Threads : Len(frames[v]) =< 1
    BY <1>2, <2>2 DEF WellFormed, Stacked
  <2>5. WellFormed'
    BY <1>2, StepWellFormed
  <2>6. ASSUME NEW t \in Threads, Connect(t) \/ (\E k \in Ids : Unsubscribe(t, k)) \/ UnsubscribeAll(t)
        PROVE  Fine(frames'[u][i], list_')
    <3>1. i \in DOMAIN frames[u] /\ SameCall(frames'[u][i], frames[u][i])
      BY <1>2, <2>6, CallsAfterStep
    <3>2. list_' = list_
      BY <2>6 DEF Connect, Unsubscribe, UnsubscribeAll
    <3> QED
      BY <2>3, <3>1, <3>2 DEF SameCall
  <2>7. ASSUME NEW t \in Threads, Call(t) PROVE Fine(frames'[u][i], list_')
    <3>1. list_' = list_
      BY <2>7 DEF Call
    <3> QED
      BY <1>2, <2>3, <2>7, <3>1, CallsAfterStep
  <2>8. ASSUME NEW t \in Threads, CleansAndReturns(t) \/ CallEnds(t) PROVE FALSE
    <3>1. Len(frames[t]) > 1
      BY <1>2, <2>8, CallsAfterStep
    <3>2. Len(frames[t]) =< 1 /\ Len(frames[t]) \in Nat
      BY <2>4, Stack
    <3> QED
      BY <3>1, <3>2
  \* The innermost call is the only one, and the invariant has its iterator in
  \* the list whenever it is not in a slot.
  <2>9. ASSUME NEW t \in Threads, frames[t] # <<>>, NEW x \in Frame, SetTop(t, x), Fine(x, list_')
        PROVE  Fine(frames'[u][i], list_')
    <3>1. u = t /\ i \in DOMAIN frames[t] /\ frames'[u][i] = IF i = 1 THEN x ELSE frames[t][i]
      BY <1>2, <2>9, CallsAfterStep
    <3>2. i = 1
      <4>1. i \in 1 .. Len(frames[t]) /\ Len(frames[t]) \in Nat /\ Len(frames[t]) =< 1
        BY <2>4, <3>1, Stack
      <4> QED
        BY <4>1
    <3> HIDE DEF Fine
    <3> QED
      BY <2>9, <3>1, <3>2
  <2>10. ASSUME NEW t \in Threads, CheckClean(t) \/ Visit(t) \/ ExecSlot(t)
         PROVE  Fine(frames'[u][i], list_')
    <3>1. frames[t] # <<>> /\ list_' = list_
      BY <2>10 DEF CheckClean, Visit, ExecSlot, At
    <3>2. Top(t) = frames[t][1] /\ 1 \in DOMAIN frames[t] /\ Top(t) \in Frame
      BY <2>4, <3>1, Innermost
    <3>3. Fine(Top(t), list_)
      BY <2>3, <3>2
    <3>4. \E x \in Frame : SetTop(t, x) /\ x.at = Top(t).at
      <4>1. CASE CheckClean(t)
        <5> DEFINE x == [Top(t) EXCEPT !.phase = "splice"]
        <5>1. x \in Frame /\ x.at = Top(t).at
          BY <3>2 DEF Frame, Phases
        <5>2. SetTop(t, x)
          BY <4>1 DEF CheckClean
        <5> QED
          BY <5>1, <5>2
      <4>2. CASE Visit(t)
        <5> DEFINE x == [Top(t) EXCEPT !.phase = "exec"]
        <5>1. x \in Frame /\ x.at = Top(t).at
          BY <3>2 DEF Frame, Phases
        <5>2. SetTop(t, x)
          BY <4>2 DEF Visit
        <5> QED
          BY <5>1, <5>2
      <4>3. CASE ExecSlot(t)
        <5> DEFINE x == [Top(t) EXCEPT !.phase = "slot", !.must = @ \ {Top(t).at}]
        <5>1. x \in Frame /\ x.at = Top(t).at
          BY <3>2 DEF Frame, Phases
        <5>2. SetTop(t, x)
          BY <4>3 DEF ExecSlot
        <5> QED
          BY <5>1, <5>2
      <4> QED
        BY <2>10, <4>1, <4>2, <4>3
    <3>5. PICK x \in Frame : SetTop(t, x) /\ x.at = Top(t).at
      BY <3>4
    <3>6. Fine(x, list_')
      BY <3>1, <3>3, <3>5
    <3> QED
      BY <2>9, <3>1, <3>5, <3>6
  <2>11. ASSUME NEW t \in Threads, SpliceAdded(t) \/ VisitRemoved(t) \/ SlotReturns(t)
         PROVE  Fine(frames'[u][i], list_')
    <3>1. /\ frames[t] # <<>> /\ Len(frames[t]) = 1
          /\ \E x : SetTop(t, x) /\ x.phase = "visit"
      <4>1. frames[t] # <<>>
        BY <2>11 DEF SpliceAdded, VisitRemoved, SlotReturns, At
      <4>2. Len(frames[t]) = 1
        <5>1. Len(frames[t]) \in Nat /\ Len(frames[t]) > 0 /\ Len(frames[t]) =< 1
          BY <2>4, <4>1, Stack
        <5>2. \A n \in Nat : n > 0 /\ n =< 1 => n = 1
          OBVIOUS
        <5> QED
          BY <5>1, <5>2
      <4>3. Top(t) \in Frame
        BY <2>4, <4>1, Innermost
      <4>4. CASE SpliceAdded(t)
        <5> DEFINE x == [Top(t) EXCEPT !.phase = "visit", !.at = First(list_')]
        <5>1. SetTop(t, x) /\ x.phase = "visit"
          BY <4>3, <4>4 DEF SpliceAdded, Frame
        <5> QED
          BY <4>1, <4>2, <5>1
      <4>5. CASE VisitRemoved(t)
        <5> DEFINE x == [Top(t) EXCEPT !.at = AfterErase(list_, Top(t).at)]
        <5>1. SetTop(t, x) /\ x.phase = "visit"
          BY <4>3, <4>5 DEF VisitRemoved, At, Frame
        <5> QED
          BY <4>1, <4>2, <5>1
      <4>6. CASE SlotReturns(t)
        <5> DEFINE x == [Top(t) EXCEPT !.phase = "visit", !.at = After(list_, Top(t).at)]
        <5>1. SetTop(t, x) /\ x.phase = "visit"
          BY <4>3, <4>6 DEF SlotReturns, Frame
        <5> QED
          BY <4>1, <4>2, <5>1
      <4> QED
        BY <2>11, <4>4, <4>5, <4>6
    <3>2. PICK x : SetTop(t, x) /\ x.phase = "visit"
      BY <3>1
    <3>3. frames'[t][1] = x
      <4> DEFINE b == <<x>>
                 w == Tail(frames[t])
      <4>1. w = <<>>
        <5>1. frames[t] \in Seq(Frame)
          BY <2>4, Stack
        <5>2. w \in Seq(Frame) /\ Len(w) = 0
          BY <3>1, <5>1, HeadTailProperties
        <5> QED
          BY <5>2, EmptySeq
      <4>2. b \o <<>> = b
        <5>1. b \in Seq({x})
          OBVIOUS
        <5> QED
          BY <5>1, ConcatEmptySeq
      <4>3. frames' = [frames EXCEPT ![t] = b \o w] /\ frames \in [Threads -> Seq(Frame)]
        BY <2>4, <3>2 DEF SetTop, TypeOK
      <4>4. b[1] = x
        OBVIOUS
      <4> HIDE DEF b, w
      <4> QED
        BY <4>1, <4>2, <4>3, <4>4
    <3>4. frames'[t] \in Seq(Frame) /\ 1 \in DOMAIN frames'[t] /\ Nested(t)'
      <4>1. TypeOK' /\ EnterCounts' /\ Stacked'
        BY <2>5 DEF WellFormed
      <4>2. frames'[t] \in Seq(Frame)
        BY <4>1 DEF TypeOK
      <4>3. Nested(t)'
        BY <4>1 DEF Stacked
      <4>4. frames'[t] # <<>>
        <5>1. owner' = owner
          BY <2>11 DEF SpliceAdded, VisitRemoved, SlotReturns
        <5> QED
          BY <2>4, <3>1, <4>1, <5>1 DEF EnterCounts
      <4>5. 1 \in DOMAIN frames'[t]
        <5>1. Len(frames'[t]) \in Nat /\ Len(frames'[t]) > 0 /\ DOMAIN frames'[t] = 1 .. Len(frames'[t])
          BY <4>2, <4>4, LenProperties, EmptySeq
        <5>2. \A n \in Nat : n > 0 => 1 \in 1 .. n
          OBVIOUS
        <5> QED
          BY <5>1, <5>2
      <4> QED
        BY <4>2, <4>3, <4>5
    <3>5. x \in Frame /\ Fine(x, list_')
      <4>1. frames'[t][1] \in Frame
        BY <3>4, LenProperties, ElementOfSeq
      <4> QED
        BY <3>2, <3>3, <3>4, <4>1 DEF Nested
    <3> QED
      BY <2>9, <3>1, <3>2, <3>5
  <2>12. CASE UNCHANGED vars
    BY <2>3, <2>12 DEF vars
  <2> QED
    BY <1>2, <2>6, <2>7, <2>8, <2>10, <2>11, <2>12 DEF Next
<1> QED
  BY <1>1, <1>2, WellFormedHolds, PTL DEF Spec

\* No call returns before it has run the slots it has to.
THEOREM RunsEveryLiveSlotHolds == Spec => RunsEveryLiveSlot
<1>1. ASSUME WellFormed, [Next]_vars PROVE ["unsubscribe_all" \notin used => Complete]_vars
  <2>1. SUFFICES ASSUME "unsubscribe_all" \notin used, NEW u \in Threads,
                        Len(frames[u]) = 1, frames'[u] = <<>>, ~UNCHANGED vars
                 PROVE  Top(u).must = {}
    BY DEF Complete
  <2>2. TypeOK /\ EnterCounts /\ Stacked /\ NoneLost
    BY <1>1 DEF WellFormed
  <2>3. frames[u] # <<>> /\ Top(u) = frames[u][1]
    <3>1. Len(frames[u]) > 0
      BY <2>1
    <3> QED
      BY <2>2, <3>1, Stack
  <2>4. PICK t \in Threads :
           \/ Connect(t) \/ (\E k \in Ids : Unsubscribe(t, k)) \/ UnsubscribeAll(t) \/ Call(t)
           \/ CleansAndReturns(t) \/ CheckClean(t) \/ SpliceAdded(t)
           \/ VisitRemoved(t) \/ Visit(t) \/ ExecSlot(t) \/ SlotReturns(t) \/ CallEnds(t)
    BY <1>1, <2>1 DEF Next
  <2>5. CASE Connect(t) \/ (\E k \in Ids : Unsubscribe(t, k)) \/ UnsubscribeAll(t)
    <3>1. frames' = frames \/ (\E k \in Ids : Forget({k})) \/ Forget(Live)
      BY <2>5 DEF Connect, Unsubscribe, UnsubscribeAll
    <3>2. \A ks : Forget(ks) => frames'[u] # <<>>
      BY <2>2, <2>3, ForgetStack
    <3> QED
      BY <2>1, <2>3, <3>1, <3>2
  <2>6. CASE Call(t)
    BY <1>1, <2>1, <2>3, <2>6, CallStack
  <2>7. CASE CleansAndReturns(t)
    BY <2>1, <2>2, <2>7 DEF CleansAndReturns, EnterCounts
  <2>8. CASE CheckClean(t) \/ SpliceAdded(t) \/ VisitRemoved(t) \/ Visit(t) \/ ExecSlot(t) \/ SlotReturns(t)
    <3>1. owner' = owner
      BY <2>8 DEF CheckClean, SpliceAdded, VisitRemoved, Visit, ExecSlot, SlotReturns
    <3>2. EnterCounts'
      BY <1>1, StepWellFormed DEF WellFormed
    <3> QED
      BY <2>1, <2>2, <2>3, <3>1, <3>2 DEF EnterCounts
  <2>9. CASE CallEnds(t)
    <3>1. u = t
      BY <2>2, <2>3, <2>9, InCall DEF CallEnds, At
    <3>2. Top(u).phase = "visit" /\ Top(u).at = End
      BY <2>9, <3>1 DEF CallEnds, At
    <3>3. AheadOf(Top(u), gone, Elements(list_), Elements(added_))
      BY <2>1, <2>2, <2>3, NoneLostParts
    <3> QED
      BY <3>2, <3>3 DEF AheadOf
  <2> QED
    BY <2>4, <2>5, <2>6, <2>7, <2>8, <2>9
<1> QED
  BY <1>1, WellFormedHolds, PTL DEF Spec, RunsEveryLiveSlot
================================================================================
