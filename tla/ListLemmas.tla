------------------------------ MODULE ListLemmas ------------------------------
(***************************************************************************)
(* Lemmas the proofs about lists rest on: the least-number principle and   *)
(* the existence of a function that is defined by recursion, both for any  *)
(* set and any function, so that they can be used by name.                 *)
(***************************************************************************)
EXTENDS SequenceTheorems, FiniteSetTheorems, TLAPS

\* Of the numbers in a set that is not empty one is the least. The intervals
\* 1 .. n are finite sets, and inclusion of finite sets is well-founded.
LEMMA LeastNumber ==
    ASSUME NEW T \in SUBSET Nat, T # {}
    PROVE  \E m \in T : \A n \in T : m =< n
<1> DEFINE Upto == {1 .. n : n \in T}
<1>1. Upto \subseteq FiniteSubsetsOf(Nat) /\ Upto # {}
  <2>1. \A n \in T : 1 .. n \in FiniteSubsetsOf(Nat)
    <3>1. TAKE n \in T
    <3>2. n \in Int /\ 1 \in Int /\ 1 .. n \in SUBSET Nat
      OBVIOUS
    <3> QED
      BY <3>2, FS_Interval DEF FiniteSubsetsOf
  <2> QED
    BY <2>1
<1>2. PICK x \in Upto : \A y \in Upto : <<y, x>> \notin StrictSubsetOrdering(Nat)
  BY <1>1, FS_StrictSubsetOrderingWellFounded, WFMin
<1>3. PICK m \in T : x = 1 .. m
  OBVIOUS
<1>4. ASSUME NEW n \in T, n < m PROVE FALSE
  <2>1. 1 .. n \subseteq 1 .. m /\ m \in 1 .. m /\ m \notin 1 .. n
    BY <1>4
  <2>2. <<1 .. n, 1 .. m>> \in StrictSubsetOrdering(Nat)
    BY <2>1 DEF StrictSubsetOrdering
  <2> QED
    BY <1>2, <1>3, <2>2
<1> QED
  BY <1>4

\* Induction up to a number, for a set in the place of a predicate.
LEMMA InductionUpTo ==
    ASSUME NEW n \in Nat, NEW T \in SUBSET (0 .. n), 0 \in T,
           \A i \in 1 .. n : i - 1 \in T => i \in T
    PROVE  T = 0 .. n
<1>1. SUFFICES ASSUME (0 .. n) \ T # {} PROVE FALSE
  OBVIOUS
<1>2. PICK m \in (0 .. n) \ T : \A k \in (0 .. n) \ T : m =< k
  <2>1. (0 .. n) \ T \in SUBSET Nat
    OBVIOUS
  <2> QED
    BY <1>1, <2>1, LeastNumber
<1>3. m \in 1 .. n /\ m - 1 \in 0 .. n /\ ~(m =< m - 1)
  OBVIOUS
<1> QED
  BY <1>2, <1>3

\* f is what comes of start after each of m steps.
Iterates(f, m, start, step) == f[0] = start /\ \A i \in 1 .. m : f[i] = step[i][f[i - 1]]

\* A function defined by recursion exists.
LEMMA Iteration ==
    ASSUME NEW n \in Nat, NEW D, NEW start \in D, NEW step \in [1 .. n -> [D -> D]]
    PROVE  \E f \in [0 .. n -> D] : Iterates(f, n, start, step)
<1> DEFINE T == {m \in 0 .. n : \E f \in [0 .. m -> D] : Iterates(f, m, start, step)}
<1>1. 0 \in T
  <2> DEFINE f == [i \in 0 .. 0 |-> start]
  <2>1. f \in [0 .. 0 -> D] /\ Iterates(f, 0, start, step)
    BY DEF Iterates
  <2> HIDE DEF f
  <2> QED
    BY <2>1
<1>2. ASSUME NEW m \in 1 .. n, m - 1 \in T PROVE m \in T
  <2>1. PICK f \in [0 .. m - 1 -> D] : Iterates(f, m - 1, start, step)
    BY <1>2
  <2> DEFINE g == [i \in 0 .. m |-> IF i = m THEN step[m][f[m - 1]] ELSE f[i]]
  <2>2. m - 1 \in 0 .. m - 1 /\ f[m - 1] \in D /\ step[m] \in [D -> D]
    OBVIOUS
  <2>3. g \in [0 .. m -> D]
    BY <2>2
  <2>4. ASSUME NEW i \in 1 .. m PROVE g[i] = step[i][g[i - 1]]
    <3>1. CASE i = m
      BY <3>1
    <3>2. CASE i # m
      <4>1. i \in 1 .. m - 1 /\ i \in 0 .. m /\ i - 1 \in 0 .. m /\ i - 1 # m
        BY <3>2
      <4> QED
        BY <2>1, <3>2, <4>1 DEF Iterates
    <3> QED
      BY <3>1, <3>2
  <2>5. g[0] = start
    BY <2>1 DEF Iterates
  <2> HIDE DEF g
  <2>6. m \in 0 .. n /\ Iterates(g, m, start, step)
    BY <2>4, <2>5 DEF Iterates
  <2> QED
    BY <2>3, <2>6
<1> HIDE DEF T
<1>3. T = 0 .. n
  <2>1. T \in SUBSET (0 .. n)
    BY DEF T
  <2> QED
    BY <1>1, <1>2, <2>1, InductionUpTo
<1> QED
  BY <1>3 DEF T

\* f[v] is start[v] where v is in stop, and comes of f[down[v]] elsewhere.
Descends(f, dom, down, stop, start, step) ==
    \A v \in dom : f[v] = IF v \in stop THEN start[v] ELSE step[v][f[down[v]]]

\* A function of all numbers exists that is defined by recursion over smaller ones:
\* there is one on every 0 .. n, and they agree.
LEMMA Descent ==
    ASSUME NEW D, NEW down \in [Nat -> Nat], NEW stop \in SUBSET Nat, NEW start \in [Nat -> D],
           NEW step \in [Nat -> [D -> D]], \A v \in Nat \ stop : down[v] < v
    PROVE  \E f \in [Nat -> D] : Descends(f, Nat, down, stop, start, step)
<1> DEFINE Upto(n, f) == f \in [0 .. n -> D] /\ Descends(f, 0 .. n, down, stop, start, step)
<1>1. ASSUME NEW m \in Nat, NEW n \in Nat, NEW f, NEW g, Upto(m, f), Upto(n, g),
             NEW v \in (0 .. m) \cap (0 .. n)
      PROVE  f[v] = g[v]
  <2> DEFINE T == {k \in (0 .. m) \cap (0 .. n) : f[k] # g[k]}
  <2>1. SUFFICES ASSUME T # {} PROVE FALSE
    OBVIOUS
  <2>2. PICK k \in T : \A i \in T : k =< i
    <3>1. T \in SUBSET Nat
      OBVIOUS
    <3> HIDE DEF T
    <3> QED
      BY <2>1, <3>1, LeastNumber
  <2>3. k \in 0 .. m /\ k \in 0 .. n /\ k \in Nat /\ f[k] # g[k]
    OBVIOUS
  <2>4. CASE k \in stop
    BY <1>1, <2>3, <2>4 DEF Descends
  <2>5. CASE k \notin stop
    <3>1. down[k] \in Nat /\ down[k] < k
      BY <2>3, <2>5
    <3>2. down[k] \in (0 .. m) \cap (0 .. n) /\ ~(k =< down[k])
      BY <2>3, <3>1
    <3>3. f[down[k]] = g[down[k]]
      BY <2>2, <3>2
    <3>4. f[k] = step[k][f[down[k]]] /\ g[k] = step[k][g[down[k]]]
      BY <1>1, <2>3, <2>5 DEF Descends
    <3> QED
      BY <2>3, <3>3, <3>4
  <2> QED
    BY <2>4, <2>5
<1>2. ASSUME NEW n \in Nat PROVE \E f : Upto(n, f)
  <2> DEFINE T == {m \in 0 .. n : \E f : Upto(m, f)}
  <2>1. 0 \in T
    <3> DEFINE f == [v \in 0 .. 0 |-> start[v]]
    <3>1. 0 \in stop
      <4>1. ~(down[0] < 0)
        OBVIOUS
      <4> QED
        BY <4>1
    <3>2. f \in [0 .. 0 -> D] /\ \A v \in 0 .. 0 : v = 0 /\ f[v] = start[v]
      OBVIOUS
    <3> HIDE DEF f
    <3>3. Upto(0, f)
      BY <3>1, <3>2 DEF Descends
    <3> QED
      BY <3>3
  <2>2. ASSUME NEW m \in 1 .. n, m - 1 \in T PROVE m \in T
    <3>1. PICK f : Upto(m - 1, f)
      BY <2>2
    <3> DEFINE e == IF m \in stop THEN start[m] ELSE step[m][f[down[m]]]
               g == [v \in 0 .. m |-> IF v = m THEN e ELSE f[v]]
    <3>2. m \in Nat /\ m \in 0 .. n /\ m \in 0 .. m /\ \A v \in 0 .. m : v = m \/ v \in 0 .. m - 1
      OBVIOUS
    <3>3. ASSUME NEW v \in 0 .. m, v \notin stop
          PROVE  down[v] \in 0 .. m - 1 /\ down[v] \in 0 .. m /\ down[v] # m
      <4>1. down[v] \in Nat /\ down[v] < v /\ v =< m
        BY <3>3
      <4> QED
        BY <3>2, <4>1
    <3>4. e \in D
      BY <3>1, <3>2, <3>3
    <3>5. g \in [0 .. m -> D] /\ g[m] = e /\ \A v \in 0 .. m - 1 : v \in 0 .. m /\ v # m /\ g[v] = f[v]
      BY <3>1, <3>2, <3>4
    <3> HIDE DEF g
    <3>6. Descends(g, 0 .. m, down, stop, start, step)
      <4>1. ASSUME NEW v \in 0 .. m
            PROVE  g[v] = IF v \in stop THEN start[v] ELSE step[v][g[down[v]]]
        <5>1. v \notin stop => g[down[v]] = f[down[v]]
          BY <3>3, <3>5
        <5>2. CASE v = m
          BY <3>5, <5>1, <5>2
        <5>3. CASE v # m
          <6>1. v \in 0 .. m - 1
            BY <3>2, <5>3
          <6> QED
            BY <3>1, <3>5, <5>1, <6>1 DEF Descends
        <5> QED
          BY <5>2, <5>3
      <4> QED
        BY <4>1 DEF Descends
    <3> QED
      BY <3>2, <3>5, <3>6
  <2>3. T = 0 .. n
    <3>1. T \in SUBSET (0 .. n)
      OBVIOUS
    <3> HIDE DEF T
    <3> QED
      BY <2>1, <2>2, <3>1, InductionUpTo
  <2>4. n \in T
    <3> HIDE DEF T
    <3> QED
      BY <2>3
  <2> QED
    BY <2>4
<1> DEFINE F(n) == CHOOSE f : Upto(n, f)
           h == [v \in Nat |-> F(v)[v]]
<1>3. \A n \in Nat : Upto(n, F(n))
  BY <1>2
<1> HIDE DEF F
<1>4. \A v \in Nat : v \in 0 .. v /\ F(v)[v] \in D /\ h[v] = F(v)[v]
  BY <1>3
<1>5. ASSUME NEW v \in Nat
      PROVE  h[v] = IF v \in stop THEN start[v] ELSE step[v][h[down[v]]]
  <2>1. F(v)[v] = IF v \in stop THEN start[v] ELSE step[v][F(v)[down[v]]]
    BY <1>3, <1>4 DEF Descends
  <2>2. ASSUME v \notin stop PROVE F(v)[down[v]] = h[down[v]]
    <3>1. down[v] \in Nat /\ down[v] < v
      BY <2>2
    <3>2. down[v] \in (0 .. v) \cap (0 .. down[v])
      BY <3>1
    <3>3. Upto(v, F(v)) /\ Upto(down[v], F(down[v]))
      BY <1>3, <3>1
    <3> HIDE DEF Upto
    <3>4. F(v)[down[v]] = F(down[v])[down[v]]
      BY <1>1, <3>1, <3>2, <3>3
    <3> QED
      BY <1>4, <3>1, <3>4
  <2> QED
    BY <1>4, <2>1, <2>2
<1>6. h \in [Nat -> D]
  BY <1>4
<1> HIDE DEF h
<1> QED
  BY <1>5, <1>6 DEF Descends
===============================================================================
