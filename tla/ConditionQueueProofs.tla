------------------------ MODULE ConditionQueueProofs ------------------------
(***************************************************************************)
(* Proofs about ConditionQueue, for any finite set of threads, any number  *)
(* of pushes and either trait: no wakeup is lost, no value comes out twice *)
(* and the swap before pop() leaves nothing behind, and traits::simple is  *)
(* a FIFO whoever takes its values.                                        *)
(***************************************************************************)
EXTENDS ConditionQueue, SequenceTheorems, FiniteSetTheorems, TLAPS

\* The length of a sequence is the end of its domain.
LEMMA SameLength == ASSUME NEW a \in Nat, NEW b \in Nat, 1 .. a = 1 .. b PROVE a = b
<1>1. CASE a < b
  <2>1. b \in 1 .. b /\ b \notin 1 .. a
    BY <1>1
  <2> QED
    BY <2>1
<1>2. CASE b < a
  <2>1. a \in 1 .. a /\ a \notin 1 .. b
    BY <1>2
  <2> QED
    BY <2>1
<1> QED
  BY <1>1, <1>2

\* What a swap puts at the place that is popped makes no difference to the rest.
LEMMA SwappedIsPopped ==
    ASSUME NEW s \in Seq(Values), NEW i \in DOMAIN s
    PROVE  Popped(Swapped(s, i), i) = Without(s, i)
<1> DEFINE w == Swapped(s, i)
<1>1. Len(s) \in Nat /\ DOMAIN s = 1 .. Len(s) /\ s \in [1 .. Len(s) -> Values]
  BY LenProperties
<1>2. DOMAIN w = 1 .. Len(s) /\ \A j \in 1 .. Len(s) : j # i => w[j] = s[j]
  BY <1>1 DEF Swapped
<1>3. Len(w) = Len(s)
  <2>1. w \in [1 .. Len(s) -> Values \cup {Old}]
    BY <1>1 DEF Swapped
  <2>2. w \in Seq(Values \cup {Old})
    BY <1>1, <2>1, SeqDef
  <2>3. Len(w) \in Nat /\ DOMAIN w = 1 .. Len(w)
    BY <2>2, LenProperties
  <2> HIDE DEF w
  <2> QED
    BY <1>1, <1>2, <2>3, SameLength
<1>4. \A j \in 1 .. Len(s) - 1 : (IF j < i THEN w[j] ELSE w[j + 1]) = (IF j < i THEN s[j] ELSE s[j + 1])
  <2> HIDE DEF w
  <2>1. i \in 1 .. Len(s)
    BY <1>1
  <2> QED
    BY <1>1, <1>2, <2>1
<1>5. Popped(w, i) = [j \in 1 .. Len(s) - 1 |-> IF j < i THEN w[j] ELSE w[j + 1]]
  BY <1>3, Zenon DEF Popped, Without
<1> HIDE DEF w
<1>6. Popped(w, i) = Without(s, i)
  BY <1>4, <1>5, Zenon DEF Without
<1> QED
  BY <1>6 DEF w

\* Taking a value keeps the types and makes the queue shorter by one.
LEMMA TakeShortens ==
    ASSUME TypeOK, NEW i \in DOMAIN queue_, Take(i)
    PROVE  /\ queue_' \in Seq(Values) /\ Len(queue_') = Len(queue_) - 1
           /\ got' \in Seq(Values) /\ Len(got') = Len(got) + 1
<1>1. Len(queue_) \in Nat /\ DOMAIN queue_ = 1 .. Len(queue_) /\ Len(queue_) - 1 \in Nat
  BY LenProperties DEF TypeOK
<1>2. \A j \in 1 .. Len(queue_) - 1 : (IF j < i THEN queue_[j] ELSE queue_[j + 1]) \in Values
  BY <1>1, ElementOfSeq DEF TypeOK
<1>3. queue_' \in [1 .. Len(queue_) - 1 -> Values]
  <2>1. queue_' = Without(queue_, i)
    BY SwappedIsPopped DEF Take, TypeOK
  <2> QED
    BY <1>2, <2>1 DEF Without
<1>4. queue_' \in Seq(Values)
  BY <1>1, <1>3, SeqDef
<1>5. Len(queue_') = Len(queue_) - 1
  <2>1. Len(queue_') \in Nat /\ DOMAIN queue_' = 1 .. Len(queue_')
    BY <1>4, LenProperties
  <2>2. DOMAIN queue_' = 1 .. Len(queue_) - 1
    BY <1>3
  <2> QED
    BY <1>1, <2>1, <2>2, SameLength
<1>6. queue_[i] \in Values
  BY <1>1, ElementOfSeq DEF TypeOK
<1> QED
  BY <1>4, <1>5, <1>6, AppendProperties DEF Take, TypeOK

\* The sets of threads are finite, so their sizes are numbers.
LEMMA Sizes ==
    ASSUME TypeOK
    PROVE  IsFiniteSet(inside) /\ IsFiniteSet(waiting) /\ IsFiniteSet(Awake)
           /\ Cardinality(Awake) \in Nat
<1>1. IsFiniteSet(inside) /\ IsFiniteSet(waiting) /\ IsFiniteSet(Awake)
  BY FS_Subset, ConstantsAssumption DEF TypeOK, Awake
<1> QED
  BY <1>1, FS_CardinalityType

\* One sleeper is woken: one thread more is on its way.
LEMMA OneWakes ==
    ASSUME TypeOK, NEW t \in waiting, waiting' = waiting \ {t}, inside' = inside
    PROVE  Cardinality(Awake') = Cardinality(Awake) + 1
<1>1. Awake' = Awake \cup {t} /\ t \notin Awake
  BY DEF TypeOK, Awake
<1> QED
  BY <1>1, Sizes, FS_AddElement

\* A thread that was on its way leaves wait().
LEMMA OneLeaves ==
    ASSUME TypeOK, NEW t \in Awake, inside' = inside \ {t}, waiting' = waiting
    PROVE  Cardinality(Awake') = Cardinality(Awake) - 1
<1>1. Awake' = Awake \ {t} /\ t \in Awake
  BY DEF TypeOK, Awake
<1> QED
  BY <1>1, Sizes, FS_RemoveElement

\* The queue starts empty and nobody waits.
LEMMA InitInductive == Init => Inductive
<1>1. <<>> \in Seq(Values)
  BY EmptySeq
<1>2. 0 \in 0 .. MaxPushes
  BY ConstantsAssumption
<1> QED
  BY <1>1, <1>2 DEF Init, Inductive, TypeOK, NoLostWakeup, CancelledNobodySleeps

\* Every step preserves the invariant.
LEMMA NextInductive == Inductive /\ [Next]_vars => Inductive'
<1> SUFFICES ASSUME Inductive, [Next]_vars PROVE Inductive'
  OBVIOUS
<1>0. TypeOK /\ NoLostWakeup /\ CancelledNobodySleeps
  BY DEF Inductive
<1>s. /\ IsFiniteSet(Awake) /\ Cardinality(Awake) \in Nat
      /\ Len(queue_) \in Nat /\ (queue_ = <<>> <=> Len(queue_) = 0)
  BY <1>0, Sizes, LenProperties, EmptySeq DEF TypeOK
<1>t. ASSUME TakeFront
      PROVE  /\ queue_' \in Seq(Values) /\ Len(queue_') = Len(queue_) - 1
             /\ got' \in Seq(Values)
  BY <1>0, <1>t, TakeShortens DEF TakeFront
<1> USE DEF Inductive, TypeOK, NoLostWakeup, CancelledNobodySleeps
<1>1. CASE Push
  <2>1. sent' \in Values /\ sent' \in 0 .. MaxPushes
    BY <1>0, <1>1, ConstantsAssumption DEF Push, Values
  <2>2. queue_' \in Seq(Values) /\ Len(queue_') = Len(queue_) + 1
    BY <1>0, <1>1, <2>1, AppendProperties DEF Push
  <2>3. TypeOK' /\ CancelledNobodySleeps'
    BY <1>0, <1>1, <2>1, <2>2 DEF Push, NotifyOne
  <2>4. CASE waiting = {}
    BY <1>1, <2>3, <2>4 DEF Push, NotifyOne
  <2>5. CASE waiting # {}
    <3>1. PICK t \in waiting : waiting' = waiting \ {t}
      BY <1>1, <2>5 DEF Push, NotifyOne
    <3>2. Cardinality(Awake') = Cardinality(Awake) + 1
      BY <1>0, <1>1, <3>1, OneWakes DEF Push
    <3> QED
      BY <1>0, <1>s, <2>2, <2>3, <2>5, <3>2
  <2> QED
    BY <2>4, <2>5
<1>2. CASE Cancel
  BY <1>0, <1>2 DEF Cancel, NotifyAll
<1>3. CASE Reset
  BY <1>0, <1>3 DEF Reset, Awake
<1>4. CASE Clear
  <2>1. queue_' = <<>> /\ Len(queue_') = 0 /\ Cardinality(Awake') \in Nat
    BY <1>s, <1>4, EmptySeq DEF Clear, Awake
  <2> QED
    BY <1>0, <1>4, <2>1, EmptySeq DEF Clear
<1>5. CASE Pop \/ Wait0 \/ (\E t \in Threads : WaitReturns(t))
  <2>1. TakeFront /\ UNCHANGED <<trait, cancel_, waiting, inside, sent>>
    BY <1>5 DEF Pop, Wait0, WaitReturns
  <2>2. Awake' = Awake
    BY <2>1 DEF Awake
  <2> QED
    BY <1>0, <1>s, <1>t, <2>1, <2>2
<1>6. ASSUME NEW t \in Threads, WaitSleeps(t) PROVE Inductive'
  <2>1. Awake' = Awake
    BY <1>0, <1>6 DEF WaitSleeps, Awake
  <2> QED
    BY <1>0, <1>s, <1>6, <2>1 DEF WaitSleeps, NotEmpty
<1>7. ASSUME NEW t \in Threads, SleepsOn(t) PROVE Inductive'
  <2>1. TypeOK' /\ CancelledNobodySleeps'
    BY <1>0, <1>7 DEF SleepsOn, NotEmpty, Awake
  <2>2. Len(queue_') = 0 /\ Cardinality(Awake') \in Nat
    BY <1>s, <1>7, <2>1, FS_Subset, FS_CardinalityType, ConstantsAssumption
       DEF SleepsOn, NotEmpty, Awake
  <2> QED
    BY <2>1, <2>2
<1>8. ASSUME NEW t \in Threads, WakesCancelled(t) PROVE Inductive'
  BY <1>0, <1>8 DEF WakesCancelled, Awake
<1>9. ASSUME NEW t \in Threads, WakesWithValue(t) PROVE Inductive'
  <2>1. Cardinality(Awake') = Cardinality(Awake) - 1
    BY <1>0, <1>9, OneLeaves DEF WakesWithValue
  <2>2. TypeOK' /\ CancelledNobodySleeps'
    BY <1>0, <1>t, <1>9 DEF WakesWithValue, Awake
  <2> QED
    BY <1>0, <1>s, <1>t, <1>9, <2>1, <2>2 DEF WakesWithValue
<1>10. ASSUME NEW t \in Threads, SpuriousWake(t) PROVE Inductive'
  <2>1. Cardinality(Awake') = Cardinality(Awake) + 1
    BY <1>0, <1>10, OneWakes DEF SpuriousWake
  <2> QED
    BY <1>0, <1>s, <1>10, <2>1 DEF SpuriousWake
<1>11. CASE UNCHANGED vars
  BY <1>0, <1>11 DEF vars, Awake
<1> QED
  BY <1>1, <1>2, <1>3, <1>4, <1>5, <1>6, <1>7, <1>8, <1>9, <1>10, <1>11
     DEF Next, Waits, LooksAgain

\* The types, and that nobody sleeps beside a value or in a cancelled queue.
THEOREM InductiveHolds == Spec => []Inductive
BY InitInductive, NextInductive, PTL DEF Spec

\* For any finite set of threads: while somebody sleeps in wait(), a thread that
\* was woken is on its way to each value of the queue.
THEOREM NoWakeupIsLost == Spec => []NoLostWakeup
<1>1. Inductive => NoLostWakeup
  BY DEF Inductive
<1> QED
  BY <1>1, InductiveHolds, PTL

-----------------------------------------------------------------------------
\* The first value moves from the queue to those handed out.
LEMMA TakeKeepsOrder ==
    ASSUME TypeOK, Fifo, trait = "simple", TakeFront, sent' = sent, trait' = trait
    PROVE  Fifo'
<1>1. 1 \in DOMAIN queue_ /\ Take(1)
  BY DEF TakeFront, IsFront
<1>2. /\ Len(queue_) \in Nat \ {0} /\ DOMAIN queue_ = 1 .. Len(queue_)
      /\ Len(got) \in Nat /\ DOMAIN got = 1 .. Len(got)
  BY <1>1, LenProperties DEF TypeOK
<1>3. /\ queue_' \in Seq(Values) /\ Len(queue_') = Len(queue_) - 1
      /\ got' \in Seq(Values) /\ Len(got') = Len(got) + 1
  BY <1>1, TakeShortens
<1>4. /\ DOMAIN queue_' = 1 .. Len(queue_) - 1 /\ DOMAIN got' = 1 .. Len(got) + 1
  BY <1>3, LenProperties
<1>5. queue_[1] = Len(got) + 1
  BY <1>1, <1>2 DEF Fifo
<1>6. queue_[1] \in Values
  BY <1>2, ElementOfSeq DEF TypeOK
<1>7. \A i \in 1 .. Len(got) + 1 : got'[i] = IF i <= Len(got) THEN got[i] ELSE queue_[1]
  BY <1>1, <1>2, <1>6, AppendProperties DEF Take, TypeOK
<1>8. \A i \in DOMAIN got' : got'[i] = i
  BY <1>2, <1>4, <1>5, <1>7 DEF Fifo
<1>9. \A j \in 1 .. Len(queue_) - 1 : queue_'[j] = queue_[j + 1]
  <2>1. queue_' = Without(queue_, 1)
    BY <1>1, SwappedIsPopped DEF Take, TypeOK
  <2> QED
    BY <1>2, <2>1 DEF Without
<1>10. \A j \in DOMAIN queue_' : queue_'[j] = Len(got') + j
  <2> SUFFICES ASSUME NEW j \in DOMAIN queue_' PROVE queue_'[j] = Len(got') + j
    OBVIOUS
  <2>1. j \in 1 .. Len(queue_) - 1 /\ j + 1 \in DOMAIN queue_
    BY <1>2, <1>4
  <2>2. queue_[j + 1] = Len(got) + (j + 1)
    BY <2>1 DEF Fifo
  <2> QED
    BY <1>2, <1>3, <1>9, <2>1, <2>2
<1> QED
  BY <1>2, <1>3, <1>8, <1>10 DEF Fifo

\* A queue keeps its trait.
LEMMA TraitStays == [Next]_vars => trait' = trait
BY DEF Next, Waits, LooksAgain, Push, Cancel, Reset, Clear, Pop, Wait0, WaitReturns, WaitSleeps,
       SleepsOn, WakesCancelled, WakesWithValue, SpuriousWake, vars

\* Every step keeps the order.
LEMMA NextFifo == TypeOK /\ Fifo /\ [Next]_vars => Fifo'
<1> SUFFICES ASSUME TypeOK, Fifo, [Next]_vars, trait = "simple" PROVE Fifo'
  BY TraitStays DEF Fifo
<1>1. CASE Push
  <2>1. /\ Len(queue_) \in Nat /\ DOMAIN queue_ = 1 .. Len(queue_)
        /\ Len(got) \in Nat
    BY LenProperties DEF TypeOK
  <2>2. sent' = sent + 1 /\ sent' \in Values
    BY <1>1, ConstantsAssumption DEF Push, TypeOK, Values
  <2>3. /\ Len(queue_') = Len(queue_) + 1 /\ queue_' \in Seq(Values)
        /\ \A j \in 1 .. Len(queue_) + 1 :
              queue_'[j] = IF j <= Len(queue_) THEN queue_[j] ELSE sent'
    BY <1>1, <2>1, <2>2, AppendProperties DEF Push, TypeOK
  <2>4. DOMAIN queue_' = 1 .. Len(queue_) + 1
    BY <2>3, LenProperties
  <2>5. Len(got) + Len(queue_) = sent
    BY DEF Fifo
  <2>6. \A j \in DOMAIN queue_' : queue_'[j] = Len(got) + j
    BY <2>1, <2>2, <2>3, <2>4, <2>5 DEF Fifo
  <2> QED
    BY <1>1, <2>1, <2>2, <2>3, <2>5, <2>6 DEF Push, Fifo
<1>2. CASE TakeFront /\ sent' = sent /\ trait' = trait
  BY <1>2, TakeKeepsOrder
<1>3. CASE UNCHANGED <<trait, queue_, sent, got>>
  BY <1>3 DEF Fifo
<1> QED
  BY <1>1, <1>2, <1>3
     DEF Next, Waits, LooksAgain, Cancel, Reset, Clear, Pop, Wait0, WaitReturns, WaitSleeps,
         SleepsOn, WakesCancelled, WakesWithValue, SpuriousWake, vars

-----------------------------------------------------------------------------
\* A value that is taken was nowhere else, and nothing else moves.
LEMMA TakeTwiceNever ==
    ASSUME TypeOK, NoneTwice, TakeFront, sent' = sent
    PROVE  NoneTwice'
<1>1. PICK k \in DOMAIN queue_ : Take(k)
  BY DEF TakeFront
<1>2. /\ Len(queue_) \in Nat \ {0} /\ DOMAIN queue_ = 1 .. Len(queue_)
      /\ Len(got) \in Nat /\ DOMAIN got = 1 .. Len(got)
  BY <1>1, LenProperties DEF TypeOK
<1>3. /\ DOMAIN queue_' = 1 .. Len(queue_) - 1 /\ DOMAIN got' = 1 .. Len(got) + 1
  BY <1>1, TakeShortens, LenProperties
<1>4. \A j \in DOMAIN queue_' : queue_'[j] = IF j < k THEN queue_[j] ELSE queue_[j + 1]
  <2>1. queue_' = Without(queue_, k)
    BY <1>1, SwappedIsPopped DEF Take, TypeOK
  <2> QED
    BY <1>3, <2>1 DEF Without
<1>5. queue_[k] \in Values /\ queue_[k] \in 1 .. sent
  BY <1>1, <1>2, ElementOfSeq DEF TypeOK, NoneTwice
<1>6. /\ \A i \in 1 .. Len(got) : got'[i] = got[i]
      /\ got'[Len(got) + 1] = queue_[k]
  BY <1>1, <1>2, <1>5, AppendProperties DEF Take, TypeOK
<1>7. \A j \in DOMAIN queue_' :
          \E m \in DOMAIN queue_ : m # k /\ queue_'[j] = queue_[m] /\ m = IF j < k THEN j ELSE j + 1
  <2> SUFFICES ASSUME NEW j \in DOMAIN queue_'
               PROVE  \E m \in DOMAIN queue_ : m # k /\ queue_'[j] = queue_[m] /\ m = IF j < k THEN j ELSE j + 1
    OBVIOUS
  <2> DEFINE m == IF j < k THEN j ELSE j + 1
  <2>1. m \in DOMAIN queue_ /\ m # k
    BY <1>1, <1>2, <1>3
  <2> QED
    BY <1>4, <2>1
<1>8. \A i \in DOMAIN got' : got'[i] \in 1 .. sent
  BY <1>2, <1>3, <1>5, <1>6 DEF NoneTwice
<1>9. \A i \in DOMAIN queue_' : queue_'[i] \in 1 .. sent
  BY <1>7 DEF NoneTwice
<1>10. \A i, j \in DOMAIN got' : i # j => got'[i] # got'[j]
  BY <1>1, <1>2, <1>3, <1>6 DEF NoneTwice
<1>11. \A i, j \in DOMAIN queue_' : i # j => queue_'[i] # queue_'[j]
  <2> SUFFICES ASSUME NEW i \in DOMAIN queue_', NEW j \in DOMAIN queue_', i # j
               PROVE  queue_'[i] # queue_'[j]
    OBVIOUS
  <2>1. PICK m \in DOMAIN queue_ : queue_'[i] = queue_[m] /\ m = IF i < k THEN i ELSE i + 1
    BY <1>7
  <2>2. PICK n \in DOMAIN queue_ : queue_'[j] = queue_[n] /\ n = IF j < k THEN j ELSE j + 1
    BY <1>7
  <2>3. m # n
    BY <1>1, <1>2, <1>3, <2>1, <2>2
  <2> QED
    BY <2>1, <2>2, <2>3 DEF NoneTwice
<1>12. \A i \in DOMAIN got' : \A j \in DOMAIN queue_' : got'[i] # queue_'[j]
  <2> SUFFICES ASSUME NEW i \in DOMAIN got', NEW j \in DOMAIN queue_' PROVE got'[i] # queue_'[j]
    OBVIOUS
  <2>1. PICK m \in DOMAIN queue_ : m # k /\ queue_'[j] = queue_[m]
    BY <1>7
  <2>2. CASE i \in 1 .. Len(got)
    BY <1>2, <1>6, <2>1, <2>2 DEF NoneTwice
  <2>3. CASE i = Len(got) + 1
    BY <1>1, <1>6, <2>1, <2>3 DEF NoneTwice
  <2> QED
    BY <1>2, <1>3, <2>2, <2>3
<1> QED
  BY <1>8, <1>9, <1>10, <1>11, <1>12 DEF NoneTwice

\* A value that is pushed is a new one.
LEMMA PushTwiceNever == ASSUME TypeOK, NoneTwice, Push PROVE NoneTwice'
<1>1. /\ Len(queue_) \in Nat /\ DOMAIN queue_ = 1 .. Len(queue_)
  BY LenProperties DEF TypeOK
<1>2. sent \in Nat /\ sent' = sent + 1 /\ sent' \in Values
  BY ConstantsAssumption DEF Push, TypeOK, Values
<1>3. /\ DOMAIN queue_' = 1 .. Len(queue_) + 1
      /\ \A j \in 1 .. Len(queue_) : queue_'[j] = queue_[j]
      /\ queue_'[Len(queue_) + 1] = sent + 1
  <2>1. /\ queue_' \in Seq(Values) /\ Len(queue_') = Len(queue_) + 1
        /\ \A j \in 1 .. Len(queue_) + 1 : queue_'[j] = IF j <= Len(queue_) THEN queue_[j] ELSE sent'
    BY <1>1, <1>2, AppendProperties DEF Push, TypeOK
  <2>2. DOMAIN queue_' = 1 .. Len(queue_) + 1
    BY <2>1, LenProperties
  <2> QED
    BY <1>1, <1>2, <2>1, <2>2
<1>4. got' = got /\ \A i \in DOMAIN got : got[i] \in 1 .. sent
  BY DEF Push, NoneTwice
<1>5. \A i \in DOMAIN queue_' : queue_'[i] \in 1 .. sent'
  BY <1>1, <1>2, <1>3 DEF NoneTwice
<1>6. \A i, j \in DOMAIN queue_' : i # j => queue_'[i] # queue_'[j]
  BY <1>1, <1>2, <1>3 DEF NoneTwice
<1>7. \A i \in DOMAIN got : \A j \in DOMAIN queue_' : got[i] # queue_'[j]
  BY <1>1, <1>2, <1>3, <1>4 DEF NoneTwice
<1>8. \A i \in DOMAIN got' : got'[i] \in 1 .. sent'
  BY <1>2, <1>4
<1> QED
  BY <1>4, <1>5, <1>6, <1>7, <1>8 DEF NoneTwice

\* No step hands out or keeps a value twice.
LEMMA NextNoneTwice == TypeOK /\ NoneTwice /\ [Next]_vars => NoneTwice'
<1> SUFFICES ASSUME TypeOK, NoneTwice, [Next]_vars PROVE NoneTwice'
  OBVIOUS
<1>1. CASE Push
  BY <1>1, PushTwiceNever
<1>2. CASE TakeFront /\ sent' = sent
  BY <1>2, TakeTwiceNever
<1>3. CASE Clear
  <2>1. DOMAIN queue_' = {}
    BY <1>3, EmptySeq DEF Clear
  <2> QED
    BY <1>3, <2>1 DEF Clear, NoneTwice
<1>4. CASE UNCHANGED <<queue_, sent, got>>
  BY <1>4 DEF NoneTwice
<1> QED
  BY <1>1, <1>2, <1>3, <1>4
     DEF Next, Waits, LooksAgain, Cancel, Reset, Pop, Wait0, WaitReturns, WaitSleeps,
         SleepsOn, WakesCancelled, WakesWithValue, SpuriousWake, vars

\* With either trait only what was pushed is in the queue or handed out, and
\* nothing twice; traits::simple hands it all out in the order of the pushes, for
\* any number of threads in wait(), wait0() and pop().
THEOREM EachOnceInOrderHolds == Spec => []EachOnceInOrder
<1>1. Init => NoneTwice /\ Fifo
  BY EmptySeq DEF Init, NoneTwice, Fifo
<1>2. Inductive => TypeOK
  BY DEF Inductive
<1>3. TypeOK /\ NoneTwice /\ Fifo /\ [Next]_vars => (NoneTwice /\ Fifo)'
  BY NextNoneTwice, NextFifo
<1>4. NoneTwice /\ Fifo => EachOnceInOrder
  BY DEF EachOnceInOrder
<1> QED
  BY <1>1, <1>2, <1>3, <1>4, InductiveHolds, PTL DEF Spec
=============================================================================
