---------------------------- MODULE LoggerProofs ----------------------------
(***************************************************************************)
(* Proofs about Logger, for any threads, levels, numbers of jobs and parts *)
(* and any maximum of the cache: no element is in two places or lost, what *)
(* comes out of a push is what was pushed, and a message that all levels   *)
(* allow is whole.                                                         *)
(***************************************************************************)
EXTENDS Logger, SequenceTheorems, FiniteSetTheorems, TLAPS

-----------------------------------------------------------------------------
\* The queue.

\* What a sequence given by its elements is.
LEMMA SeqOfLength ==
    ASSUME NEW S, NEW n \in Nat, NEW s \in [1 .. n -> S]
    PROVE  s \in Seq(S) /\ Len(s) = n /\ DOMAIN s = 1 .. n
<1>1. s \in Seq(S)
  BY SeqDef
<1>2. Len(s) \in Nat /\ DOMAIN s = 1 .. Len(s)
  BY <1>1, LenProperties
<1>3. \A a, b \in Nat : 1 .. a = 1 .. b => a = b
  <2> SUFFICES ASSUME NEW a \in Nat, NEW b \in Nat, 1 .. a = 1 .. b PROVE a = b
    OBVIOUS
  <2>1. CASE a < b
    <3>1. b \in 1 .. b /\ b \notin 1 .. a
      BY <2>1
    <3> QED
      BY <3>1
  <2>2. CASE b < a
    <3>1. a \in 1 .. a /\ a \notin 1 .. b
      BY <2>2
    <3> QED
      BY <3>1
  <2> QED
    BY <2>1, <2>2
<1>4. Len(s) = n
  BY <1>2, <1>3
<1> QED
  BY <1>1, <1>2, <1>4

\* The queue in numbers.
LEMMA QueueNumbers ==
    ASSUME InOrder
    PROVE  /\ sent \in Nat /\ sent =< MaxJobs /\ Len(got) \in Nat /\ Len(got) =< sent
           /\ Len(queue_) = sent - Len(got) /\ DOMAIN queue_ = 1 .. sent - Len(got)
           /\ queue_ \in Seq(Elements)
<1>1. sent \in Nat /\ sent =< MaxJobs /\ Len(got) \in Nat /\ Len(got) =< sent
  BY LenProperties, ConstantsAssumption DEF InOrder
<1>2. sent - Len(got) \in Nat
  BY <1>1
<1>3. \A j \in 1 .. sent - Len(got) : Len(got) + j \in 1 .. MaxJobs
  BY <1>1, ConstantsAssumption
<1>4. queue_ \in [1 .. sent - Len(got) -> Elements]
  BY <1>3 DEF InOrder, Elements
<1> QED
  BY <1>1, <1>2, <1>4, SeqOfLength

\* A value is taken: the number of the first push that has not been handed out.
LEMMA QueueTakes ==
    ASSUME InOrder, Q!TakeFront
    PROVE  /\ Len(got) + 1 \in Pending
           /\ got' = Append(got, Len(got) + 1)
           /\ got' \in Seq(Elements) /\ Len(got') = Len(got) + 1
           /\ got'[Len(got')] = Len(got) + 1
           /\ queue_' = [j \in 1 .. sent - Len(got') |-> Len(got') + j]
<1> DEFINE n == Len(got)
<1>1. /\ sent \in Nat /\ sent =< MaxJobs /\ n \in Nat /\ n =< sent
      /\ Len(queue_) = sent - n /\ DOMAIN queue_ = 1 .. sent - n
  BY QueueNumbers
<1> DEFINE w == Q!Swapped(queue_, 1)
<1>2. 1 \in 1 .. sent - n /\ got' = Append(got, queue_[1]) /\ queue_' = Q!Without(w, 1)
  BY <1>1 DEF Q!TakeFront, Q!IsFront, Q!Take, Q!Popped
<1>w. Len(w) = sent - n /\ \A j \in 1 .. sent - n : j # 1 => w[j] = queue_[j]
  BY <1>1, <1>2 DEF Q!Swapped, InOrder
<1>3. queue_[1] = n + 1
  BY <1>2 DEF InOrder
<1>4. n + 1 \in Pending /\ n + 1 \in Elements
  BY <1>1, <1>2, ConstantsAssumption DEF Pending, Elements
<1>5. got' \in Seq(Elements) /\ Len(got') = n + 1 /\ got'[n + 1] = n + 1
  BY <1>2, <1>3, <1>4, AppendProperties DEF InOrder
<1>6. queue_' = [j \in 1 .. sent - (n + 1) |-> (n + 1) + j]
  <2>1. \A j \in 1 .. sent - n - 1 : j + 1 \in 1 .. sent - n /\ ~(j < 1)
    BY <1>1
  <2>2. \A j \in 1 .. sent - n - 1 : (IF j < 1 THEN w[j] ELSE w[j + 1]) = n + (j + 1)
    <3> HIDE DEF w
    <3>1. \A j \in 1 .. sent - n - 1 : j + 1 # 1
      BY <1>1
    <3> QED
      BY <1>w, <2>1, <3>1 DEF InOrder
  <2>3. sent - n - 1 = sent - (n + 1) /\ \A j \in 1 .. sent - n - 1 : n + (j + 1) = (n + 1) + j
    BY <1>1
  <2> HIDE DEF w
  <2>4. queue_' = [j \in 1 .. sent - n - 1 |-> IF j < 1 THEN w[j] ELSE w[j + 1]]
    BY <1>1, <1>2, <1>w DEF Q!Without
  <2> HIDE DEF n
  <2> QED
    BY <2>2, <2>3, <2>4, Zenon
<1> QED
  BY <1>2, <1>3, <1>4, <1>5, <1>6

\* A value is pushed: its number is next.
LEMMA QueuePushes ==
    ASSUME InOrder, Q!Push
    PROVE  /\ sent < MaxJobs /\ sent' = sent + 1 /\ got' = got
           /\ queue_' = [j \in 1 .. sent + 1 - Len(got) |-> Len(got) + j]
<1> DEFINE n == Len(got)
<1>1. /\ sent \in Nat /\ sent =< MaxJobs /\ n \in Nat /\ n =< sent
      /\ Len(queue_) = sent - n /\ DOMAIN queue_ = 1 .. sent - n /\ queue_ \in Seq(Elements)
  BY QueueNumbers
<1>2. sent < MaxJobs /\ sent' = sent + 1 /\ got' = got /\ queue_' = Append(queue_, sent + 1)
  BY DEF Q!Push
<1>3. sent + 1 \in Elements
  BY <1>1, <1>2, ConstantsAssumption DEF Elements
<1>4. /\ queue_' \in Seq(Elements) /\ Len(queue_') = sent - n + 1
      /\ \A j \in 1 .. sent - n : queue_'[j] = queue_[j]
      /\ queue_'[sent - n + 1] = sent + 1
  BY <1>1, <1>2, <1>3, AppendProperties
<1>5. queue_' = [j \in 1 .. sent - n + 1 |-> queue_'[j]]
  BY <1>4, LenProperties, SeqDef
<1>6. \A j \in 1 .. sent - n + 1 : queue_'[j] = n + j
  <2>1. \A j \in 1 .. sent - n + 1 : j \in 1 .. sent - n \/ (j = sent - n + 1 /\ n + j = sent + 1)
    BY <1>1
  <2>2. \A j \in 1 .. sent - n : queue_[j] = n + j
    BY DEF InOrder
  <2> QED
    BY <1>4, <2>1, <2>2
<1>7. sent + 1 - n = sent - n + 1
  BY <1>1
<1>8. queue_' = [j \in 1 .. sent + 1 - n |-> n + j]
  <2> HIDE DEF n
  <2>1. queue_' = [j \in 1 .. sent - n + 1 |-> n + j]
    BY <1>5, <1>6, Zenon
  <2> QED
    BY <1>7, <2>1, Zenon
<1> QED
  BY <1>2, <1>8

-----------------------------------------------------------------------------
\* The types of jobs and of what is in an element.

\* The members of a job; a job is not an empty function.
LEMMA JobTypes ==
    ASSUME NEW job \in Job
    PROVE  /\ job.id \in 1 .. MaxJobs /\ job.level \in Nat
           /\ job.used \in 0 .. MaxParts /\ job.parts \in 0 .. MaxParts /\ job.seen \subseteq Levels
           /\ job # Nothing
<1>1. Levels \cup {0} \subseteq Nat
  BY ConstantsAssumption
<1>2. job # Nothing
  BY NothingAssumption, Zenon
<1> QED
  BY <1>1, <1>2 DEF Job

\* A message and a call are jobs.
LEMMA MessageTyped ==
    ASSUME NEW n \in 1 .. MaxJobs, NEW lev \in Levels, level_ \in Levels
    PROVE  /\ Message(n, lev) \in Job /\ CallJob(n) \in Job
           /\ Message(n, lev).kind = "message" /\ Message(n, lev).seen = {level_}
           /\ Message(n, lev).parts = 0 /\ Message(n, lev).used = 0
BY ConstantsAssumption DEF Message, CallJob, Job

\* A call depends on no level.
LEMMA CallTyped == ASSUME NEW n \in 1 .. MaxJobs PROVE CallJob(n) \in Job /\ Sendable(CallJob(n))
BY ConstantsAssumption DEF CallJob, Job, Sendable

\* An element that is filled for a job puts that job out, whatever was in it.
LEMMA FilledPutsOut ==
    ASSUME NEW content \in Content, NEW job \in Job
    PROVE  Filled(content, job) \in Content /\ Output(Filled(content, job)) = job
<1>1. job # Nothing /\ content.data \in Job \cup {Nothing} /\ content.call \in Job \cup {Nothing}
  BY JobTypes DEF Content
<1>2. CASE job.kind = "message"
  <2>1. Filled(content, job) = [call |-> Nothing, data |-> job]
    BY <1>2 DEF Filled
  <2> QED
    BY <1>1, <2>1 DEF Content, Output
<1>3. CASE job.kind # "message"
  <2>1. Filled(content, job) = [content EXCEPT !.call = job]
    BY <1>3 DEF Filled
  <2> QED
    BY <1>1, <2>1 DEF Content, Output
<1> QED
  BY <1>2, <1>3

\* What is in an element is a job, or nothing.
LEMMA OutputTyped == ASSUME NEW content \in Content PROVE Output(content) \in Job \cup {Nothing}
BY DEF Content, Output

-----------------------------------------------------------------------------
\* What the steps have in common.

\* Operations of the queue that neither push nor take.
LEMMA QueueStays ==
    ASSUME NEW t,
           Q!Cancel \/ Q!WaitSleeps(t) \/ Q!SleepsOn(t) \/ Q!SpuriousWake(t) \/ Q!WakesCancelled(t)
    PROVE  sent' = sent /\ got' = got /\ queue_' = queue_
BY DEF Q!Cancel, Q!WaitSleeps, Q!SleepsOn, Q!SpuriousWake, Q!WakesCancelled

\* Steps in which no element is made, moved, filled or run.
Idles(t) ==
    \/ \E lev \in Levels : Start(t, lev) \/ SetLevel(t, lev)
    \/ Add(t) \/ Stop(t) \/ Attach(t) \/ WaitSleeps(t) \/ SpuriousWake(t) \/ WaitCancelled(t)
Rests == UNCHANGED vars \/ \E t \in Threads : Idles(t)

\* They leave the queue, the cache, the elements and what has come out alone.
LEMMA RestsStays ==
    ASSUME TypeOK, Rests
    PROVE  /\ sent' = sent /\ got' = got /\ queue_' = queue_
           /\ cache_' = cache_ /\ store' = store /\ filling' = filling /\ taken' = taken
           /\ carrier' = carrier /\ jobs' = jobs /\ out' = out /\ freed' = freed /\ dropped' = dropped
           /\ made'.elements = made.elements
           /\ \A u \in Threads : pc'[u] = "run" => pc[u] = "run"
<1>0. made \in [jobs : 0 .. MaxJobs, elements : 0 .. MaxJobs] /\ pc \in [Threads -> PCs]
  BY DEF TypeOK
<1> USE QueueStays
<1>1. CASE \E t \in Threads, lev \in Levels : Start(t, lev) \/ SetLevel(t, lev)
  BY <1>0, <1>1 DEF Start, SetLevel, queueVars
<1>2. CASE \E t \in Threads : Add(t)
  BY <1>2 DEF Add, queueVars, historyVars
<1>3. CASE \E t \in Threads : Stop(t)
  BY <1>3 DEF Stop, loggerVars, historyVars
<1>4. CASE \E t \in Threads : Attach(t)
  BY <1>0, <1>4 DEF Attach, queueVars, historyVars
<1>5. CASE \E t \in Threads : WaitSleeps(t) \/ SpuriousWake(t)
  BY <1>5 DEF WaitSleeps, SpuriousWake, loggerVars, historyVars
<1>6. CASE \E t \in Threads : WaitCancelled(t)
  BY <1>0, <1>6 DEF WaitCancelled, queueVars, historyVars
<1>7. CASE UNCHANGED vars
  BY <1>7 DEF vars, queueVars, loggerVars, historyVars
<1> QED
  BY <1>1, <1>2, <1>3, <1>4, <1>5, <1>6, <1>7 DEF Rests, Idles

\* A thread takes an element, in attach() or in run_one().
Takes(t) == WaitReturnsElement(t) \/ RunOne(t)

\* It takes the front of the queue, and had none before.
LEMMA TakesFront ==
    ASSUME TypeOK, NEW t \in Threads, Takes(t)
    PROVE  /\ Q!TakeFront /\ sent' = sent /\ TakesLast(t) /\ taken[t] = 0 /\ pc[t] # "run"
           /\ cache_' = cache_ /\ store' = store /\ level_' = level_ /\ acc' = acc /\ filling' = filling
           /\ carrier' = carrier /\ jobs' = jobs /\ made' = made /\ changes' = changes
           /\ out' = out /\ freed' = freed /\ dropped' = dropped
<1>1. CASE WaitReturnsElement(t)
  <2>1. pc[t] = "attach" /\ taken[t] = 0
    BY <1>1 DEF WaitReturnsElement, TypeOK
  <2> QED
    BY <1>1, <2>1 DEF WaitReturnsElement, Q!WaitReturns, Q!WakesWithValue, historyVars
<1>2. CASE RunOne(t)
  <2>1. pc[t] = "user" /\ taken[t] = 0
    BY <1>2 DEF RunOne, TypeOK
  <2> QED
    BY <1>2, <2>1 DEF RunOne, Q!Pop, historyVars
<1> QED
  BY <1>1, <1>2 DEF Takes

\* A thread gets an element for a job, in an accumulator's destructor or in
\* dispatch().
Obtains(t, job) ==
    /\ filling[t] = Nothing /\ Sendable(job)
    /\ Obtain(t, job)
    /\ dropped' = dropped /\ acc' = [acc EXCEPT ![t] = Nothing]

\* A thread drops a message that is not enabled.
Drops(t) == Finish(t) /\ ~Enabled(t)

Moves(t) ==
    \/ Takes(t) \/ Drops(t) \/ (\E job \in Job : Obtains(t, job))
    \/ PushElement(t) \/ Run(t) \/ Recycle(t)

\* An operation of a thread.
LEMMA OperationKinds ==
    ASSUME TypeOK, Accumulated, NEW t \in Threads,
           \/ \E lev \in Levels : Start(t, lev) \/ SetLevel(t, lev)
           \/ Dispatch(t) \/ Stop(t) \/ Attach(t) \/ RunOne(t) \/ SpuriousWake(t)
           \/ Logs(t) \/ Works(t)
    PROVE  Idles(t) \/ Moves(t)
<1>1. CASE Dispatch(t)
  <2>1. made.jobs + 1 \in 1 .. MaxJobs
    BY <1>1, ConstantsAssumption DEF Dispatch, TypeOK
  <2>2. acc' = [acc EXCEPT ![t] = Nothing]
    BY <1>1 DEF Dispatch, TypeOK
  <2>3. Obtains(t, CallJob(made.jobs + 1))
    BY <1>1, <2>1, <2>2, CallTyped DEF Dispatch, Free, Obtain, Obtains
  <2> QED
    BY <2>1, <2>3, CallTyped DEF Moves
<1>2. CASE Finish(t) /\ Enabled(t)
  <2>1. /\ filling[t] = Nothing /\ acc[t] \in Job /\ acc[t].used = MaxParts
        /\ acc' = [acc EXCEPT ![t] = Nothing] /\ Obtain(t, acc[t])
    BY <1>2 DEF Finish, Free, TypeOK
  <2>2. Sendable(acc[t])
    BY <1>2, <2>1 DEF Finish, Accumulated, Enabled, Sendable
  <2>3. dropped' = dropped
    BY <2>1 DEF Obtain
  <2> QED
    BY <2>1, <2>2, <2>3 DEF Obtains, Moves
<1> QED
  BY <1>1, <1>2 DEF Logs, Works, Idles, Takes, Drops, Moves

\* Every step is of one of these kinds.
LEMMA Kinds ==
    ASSUME TypeOK, Accumulated, [Next]_vars
    PROVE  Rests \/ \E t \in Threads : Moves(t)
<1>1. CASE Next
  <2> PICK t \in Threads :
             \/ \E lev \in Levels : Start(t, lev) \/ SetLevel(t, lev)
             \/ Dispatch(t) \/ Stop(t) \/ Attach(t) \/ RunOne(t) \/ SpuriousWake(t)
             \/ Logs(t) \/ Works(t)
    BY <1>1, Zenon DEF Next
  <2>1. Idles(t) \/ Moves(t)
    BY OperationKinds
  <2> QED
    BY <2>1 DEF Rests
<1>2. CASE UNCHANGED vars
  BY <1>2 DEF Rests
<1> QED
  BY <1>1, <1>2

-----------------------------------------------------------------------------
\* The queue keeps its order.

\* A taken element is the next one, and the rest follow it.
LEMMA TakesInOrder ==
    ASSUME TypeOK, InOrder, NEW t \in Threads, Takes(t)
    PROVE  InOrder'
<1>1. Q!TakeFront /\ sent' = sent /\ TakesLast(t)
  BY TakesFront
<1>2. sent \in Nat /\ Len(got) \in Nat /\ Len(got) + 1 =< sent /\ Len(got) + 1 \in Pending
  BY <1>1, QueueNumbers, QueueTakes DEF Pending
<1>3. /\ got' \in Seq(Elements) /\ Len(got') = Len(got) + 1
      /\ queue_' = [j \in 1 .. sent - Len(got') |-> Len(got') + j]
  BY <1>1, QueueTakes
<1>4. \A u \in Threads : taken'[u] =< Len(got) + 1
  <2>1. taken' = [taken EXCEPT ![t] = Len(got) + 1]
    BY <1>1, QueueTakes DEF TakesLast
  <2>2. \A u \in Threads : taken[u] \in Nat /\ taken[u] =< Len(got)
    BY <1>2 DEF TypeOK, InOrder
  <2>3. \A u \in Threads : taken'[u] = taken[u] \/ taken'[u] = Len(got) + 1
    BY <2>1 DEF TypeOK
  <2>4. \A a, n \in Nat : a =< n => a =< n + 1 /\ n + 1 =< n + 1
    OBVIOUS
  <2> QED
    BY <1>2, <2>2, <2>3, <2>4
<1> QED
  BY <1>1, <1>2, <1>3, <1>4 DEF InOrder

\* A pushed element is the last one.
LEMMA PushInOrder ==
    ASSUME TypeOK, InOrder, NEW t \in Threads, PushElement(t)
    PROVE  InOrder'
<1>1. /\ sent < MaxJobs /\ sent' = sent + 1 /\ got' = got
      /\ queue_' = [j \in 1 .. sent + 1 - Len(got) |-> Len(got) + j] /\ taken' = taken
  BY QueuePushes DEF PushElement
<1>2. sent \in Nat /\ Len(got) \in Nat /\ Len(got) =< sent /\ MaxJobs \in Nat
  BY QueueNumbers, ConstantsAssumption
<1> QED
  BY <1>1, <1>2 DEF InOrder

\* Every step keeps the order.
LEMMA NextInOrder == TypeOK /\ InOrder /\ Accumulated /\ [Next]_vars => InOrder'
<1> SUFFICES ASSUME TypeOK, InOrder, Accumulated, [Next]_vars PROVE InOrder'
  OBVIOUS
<1>1. CASE Rests
  BY <1>1, RestsStays DEF InOrder
<1>2. ASSUME NEW t \in Threads, Drops(t) \/ (\E job \in Job : Obtains(t, job)) \/ Run(t)
      PROVE  InOrder'
  BY <1>2 DEF InOrder, Drops, Finish, Obtains, Obtain, Run, queueVars
<1>3. ASSUME NEW t \in Threads, Recycle(t) PROVE InOrder'
  <2>1. queue_' = queue_ /\ sent' = sent /\ got' = got /\ taken' = [taken EXCEPT ![t] = 0]
    BY <1>3 DEF Recycle, queueVars
  <2>2. \A u \in Threads : taken'[u] = taken[u] \/ taken'[u] = 0
    BY <2>1 DEF TypeOK
  <2>3. 0 =< Len(got)
    BY QueueNumbers
  <2> QED
    BY <2>1, <2>2, <2>3 DEF InOrder
<1> QED
  BY <1>1, <1>2, <1>3, Kinds, TakesInOrder, PushInOrder DEF Moves

-----------------------------------------------------------------------------
\* Every element is in one place.

\* What the pushes that threads run are.
LEMMA TakenNumbers ==
    ASSUME TypeOK, InOrder, NEW t \in Threads, taken[t] # 0
    PROVE  taken[t] \in 1 .. sent /\ taken[t] \notin Pending /\ carrier[taken[t]] \in BeingRun
<1>1. taken[t] \in Nat /\ taken[t] =< Len(got) /\ taken[t] =< sent
  BY QueueNumbers DEF TypeOK, InOrder
<1>2. Len(got) \in Nat /\ sent \in Nat
  BY QueueNumbers
<1> QED
  BY <1>1, <1>2 DEF Pending, BeingRun

\* A thread obtains an element: a new one, or the first of the cache.
LEMMA ObtainPlaces ==
    ASSUME TypeOK, OncePerPlace, Apart, NEW t \in Threads, NEW job \in Job, Obtains(t, job)
    PROVE  OncePerPlace' /\ Apart'
<1>1. PICK e \in Elements :
         /\ CacheGet(e)
         /\ filling' = [filling EXCEPT ![t] = [element |-> e, job |-> job]]
         /\ made' = [made EXCEPT !.elements = IF e > @ THEN e ELSE @,
                                 !.jobs = IF job.id > @ THEN job.id ELSE @]
  BY DEF Obtains, Obtain
<1>2. /\ carrier' = carrier /\ taken' = taken /\ freed' = freed /\ sent' = sent /\ got' = got
      /\ filling[t] = Nothing
  BY DEF Obtains, Obtain, queueVars
<1>3. InQueue' = InQueue /\ BeingRun' = BeingRun /\ Pending' = Pending
  BY <1>2 DEF InQueue, BeingRun, Pending
<1>4. made.elements \in Nat /\ e \in Nat /\ made'.elements = IF e > made.elements THEN e ELSE made.elements
  BY <1>1, ConstantsAssumption DEF TypeOK, Elements
<1>5. [element |-> e, job |-> job] \in Filling /\ [element |-> e, job |-> job] # Nothing
  BY NothingAssumption DEF Filling
<1>6. \A u \in Threads : filling'[u] = IF u = t THEN [element |-> e, job |-> job] ELSE filling[u]
  BY <1>1 DEF TypeOK
<1>7. BeingFilled' = BeingFilled \cup {e}
  BY <1>2, <1>5, <1>6 DEF BeingFilled
<1>8. CASE cache_ = <<>>
  <2>1. e = made.elements + 1 /\ cache_' = cache_
    BY <1>1, <1>8 DEF CacheGet, Created
  <2>2. e \notin 1 .. made.elements /\ 1 .. made'.elements = (1 .. made.elements) \cup {e}
    BY <1>4, <2>1
  <2>3. InCache' = InCache
    BY <2>1 DEF InCache
  <2>4. Apart'
    BY <1>2, <1>3, <1>7, <2>2, <2>3 DEF Apart
  <2>5. e \notin BeingFilled
    BY <2>2 DEF Apart
  <2>6. OncePerPlace'
    BY <1>2, <1>3, <1>5, <1>6, <2>1, <2>5 DEF OncePerPlace, BeingFilled
  <2> QED
    BY <2>4, <2>6
<1>9. CASE cache_ # <<>>
  <2>1. e = Head(cache_) /\ cache_' = Tail(cache_)
    BY <1>1, <1>9 DEF CacheGet
  <2>2. /\ Len(cache_) \in Nat /\ Len(cache_) > 0 /\ DOMAIN cache_ = 1 .. Len(cache_)
        /\ Head(cache_) = cache_[1]
        /\ DOMAIN cache_' = 1 .. Len(cache_) - 1
        /\ \A i \in 1 .. Len(cache_) - 1 : cache_'[i] = cache_[i + 1]
    <3>1. cache_ \in Seq(Elements)
      BY DEF TypeOK
    <3>2. Len(cache_) \in Nat /\ DOMAIN cache_ = 1 .. Len(cache_) /\ Len(cache_) # 0
      BY <1>9, <3>1, LenProperties, EmptySeq
    <3>3. /\ cache_' \in Seq(Elements) /\ Len(cache_') = Len(cache_) - 1
          /\ \A i \in 1 .. Len(cache_) - 1 : cache_'[i] = cache_[i + 1]
      BY <1>9, <2>1, <3>1, HeadTailProperties
    <3> QED
      BY <1>9, <3>1, <3>2, <3>3, LenProperties, HeadTailProperties
  <2> DEFINE n == Len(cache_)
  <2> HIDE DEF n
  <2>3. /\ n \in Nat \ {0} /\ DOMAIN cache_ = 1 .. n /\ DOMAIN cache_' = 1 .. n - 1
        /\ \A i \in 1 .. n - 1 : cache_'[i] = cache_[i + 1] /\ i + 1 \in 1 .. n
        /\ \A i \in 1 .. n : i # 1 => i - 1 \in 1 .. n - 1 /\ i = (i - 1) + 1
        /\ e = cache_[1] /\ 1 \in 1 .. n
    BY <2>1, <2>2 DEF n
  <2>4. \A i, j \in 1 .. n : cache_[i] = cache_[j] => i = j
    BY <2>3 DEF OncePerPlace
  <2>5. InCache' = InCache \ {e} /\ e \in InCache
    <3>1. \A i \in 1 .. n - 1 : cache_'[i] \in InCache /\ cache_'[i] # e
      BY <2>3, <2>4 DEF InCache
    <3>2. \A i \in 1 .. n : i # 1 => cache_[i] = cache_'[i - 1] /\ i - 1 \in 1 .. n - 1
      BY <2>3
    <3>3. InCache = {cache_[i] : i \in 1 .. n} /\ InCache' = {cache_'[i] : i \in 1 .. n - 1}
      BY <2>3 DEF InCache
    <3>4. InCache' \subseteq InCache \ {e}
      BY <3>1, <3>3
    <3>5. InCache \ {e} \subseteq InCache'
      BY <2>3, <3>2, <3>3
    <3> QED
      BY <2>3, <3>3, <3>4, <3>5
  <2>6. e \in 1 .. made.elements
    BY <2>5 DEF Apart
  <2>7. made'.elements = made.elements
    BY <1>4, <2>6
  <2>8. Apart'
    BY <1>2, <1>3, <1>7, <2>5, <2>7 DEF Apart
  <2>9. e \notin BeingFilled
    BY <2>5 DEF Apart
  <2>10. \A i, j \in 1 .. n - 1 : cache_'[i] = cache_'[j] => i = j
    BY <2>3, <2>4
  <2>11. OncePerPlace'
    BY <1>2, <1>3, <1>5, <1>6, <2>3, <2>9, <2>10 DEF OncePerPlace, BeingFilled
  <2> QED
    BY <2>8, <2>11
<1> QED
  BY <1>8, <1>9

\* A thread pushes the element it has filled.
LEMMA PushPlaces ==
    ASSUME TypeOK, InOrder, OncePerPlace, Apart, NEW t \in Threads, PushElement(t)
    PROVE  OncePerPlace' /\ Apart'
<1> DEFINE e == filling[t].element
<1>1. /\ filling[t] # Nothing /\ carrier' = Append(carrier, e)
      /\ filling' = [filling EXCEPT ![t] = Nothing]
      /\ cache_' = cache_ /\ taken' = taken /\ made' = made /\ freed' = freed
      /\ sent' = sent + 1 /\ got' = got
  BY QueuePushes DEF PushElement
<1>2. e \in BeingFilled /\ e \in Elements
  BY <1>1 DEF BeingFilled, TypeOK, Filling
<1>3. /\ sent \in Nat /\ Len(got) \in Nat /\ Len(got) =< sent
      /\ carrier'[sent + 1] = e
      /\ \A i \in 1 .. sent : carrier'[i] = carrier[i]
  BY <1>1, <1>2, QueueNumbers, AppendProperties DEF TypeOK
<1>4. /\ Pending' = Pending \cup {sent + 1}
      /\ \A i \in Pending : i \in 1 .. sent /\ i # sent + 1
  BY <1>1, <1>3 DEF Pending
<1>5. \A u \in Threads : filling'[u] = IF u = t THEN Nothing ELSE filling[u]
  BY <1>1 DEF TypeOK
<1>6. \A u \in Threads : taken[u] # 0 => carrier'[taken'[u]] = carrier[taken[u]]
  <2>1. \A u \in Threads : taken[u] # 0 => taken[u] \in 1 .. sent
    BY TakenNumbers
  <2> QED
    BY <1>1, <1>3, <2>1
<1> HIDE DEF e
<1>7. InQueue' = InQueue \cup {e}
  BY <1>3, <1>4 DEF InQueue
<1>8. InCache' = InCache
  BY <1>1 DEF InCache
<1>9. BeingFilled' = BeingFilled \ {e}
  <2>1. \A u \in Threads : filling[u] # Nothing /\ u # t => filling[u].element # e
    BY <1>1 DEF OncePerPlace, e
  <2> QED
    BY <1>5, <2>1 DEF BeingFilled, e
<1>10. BeingRun' = BeingRun
  BY <1>1, <1>6 DEF BeingRun
<1>11. Apart'
  BY <1>1, <1>2, <1>7, <1>8, <1>9, <1>10 DEF Apart
<1>12. e \notin InQueue
  BY <1>2 DEF Apart
<1>13. OncePerPlace'
  <2>1. \A i, j \in Pending' : carrier'[i] = carrier'[j] => i = j
    BY <1>3, <1>4, <1>12 DEF OncePerPlace, InQueue
  <2>2. \A u, v \in Threads : filling'[u] # Nothing /\ filling'[v] # Nothing
                               /\ filling'[u].element = filling'[v].element => u = v
    BY <1>5 DEF OncePerPlace
  <2>3. \A u, v \in Threads : taken'[u] # 0 /\ taken'[v] # 0
                               /\ carrier'[taken'[u]] = carrier'[taken'[v]] => u = v
    <3>1. \A u \in Threads : taken'[u] # 0 => taken[u] # 0 /\ carrier'[taken'[u]] = carrier[taken[u]]
      BY <1>1, <1>6
    <3>2. \A u, v \in Threads : taken[u] # 0 /\ taken[v] # 0
                                 /\ carrier[taken[u]] = carrier[taken[v]] => u = v
      BY DEF OncePerPlace
    <3> QED
      BY <3>1, <3>2
  <2> QED
    BY <1>1, <2>1, <2>2, <2>3 DEF OncePerPlace
<1> QED
  BY <1>11, <1>13

\* A thread takes the element of the first push that is pending.
LEMMA TakePlaces ==
    ASSUME TypeOK, InOrder, OncePerPlace, Apart, NEW t \in Threads, Takes(t)
    PROVE  OncePerPlace' /\ Apart'
<1> DEFINE n == Len(got) + 1
           e == carrier[n]
<1>1. /\ taken[t] = 0 /\ sent' = sent /\ cache_' = cache_ /\ filling' = filling
      /\ carrier' = carrier /\ made' = made /\ freed' = freed
      /\ n \in Pending /\ Len(got') = n /\ taken' = [taken EXCEPT ![t] = n]
  BY TakesFront, QueueTakes DEF TakesLast
<1>2. Len(got) \in Nat /\ sent \in Nat /\ n \in Nat /\ n # 0
  BY QueueNumbers
<1>3. Pending' = Pending \ {n}
  BY <1>1, <1>2 DEF Pending
<1>4. \A u \in Threads : taken'[u] = IF u = t THEN n ELSE taken[u]
  BY <1>1 DEF TypeOK
<1> HIDE DEF n
<1>5. e \in InQueue
  BY <1>1 DEF InQueue
<1>6. InQueue' = InQueue \ {e}
  BY <1>1, <1>3 DEF InQueue, OncePerPlace
<1>7. BeingRun' = BeingRun \cup {e}
  BY <1>1, <1>2, <1>4 DEF BeingRun
<1>8. InCache' = InCache /\ BeingFilled' = BeingFilled
  BY <1>1 DEF InCache, BeingFilled
<1>9. Apart'
  BY <1>1, <1>5, <1>6, <1>7, <1>8 DEF Apart
<1>10. e \notin BeingRun
  BY <1>5 DEF Apart
<1>11. OncePerPlace'
  <2>1. \A u, v \in Threads : taken'[u] # 0 /\ taken'[v] # 0
                               /\ carrier'[taken'[u]] = carrier'[taken'[v]] => u = v
    BY <1>1, <1>4, <1>10 DEF OncePerPlace, BeingRun
  <2>2. \A i, j \in Pending' : carrier'[i] = carrier'[j] => i = j
    BY <1>1, <1>3 DEF OncePerPlace
  <2> QED
    BY <1>1, <2>1, <2>2 DEF OncePerPlace
<1> QED
  BY <1>9, <1>11

\* A thread gives the element it has run to the cache, or the cache frees it.
LEMMA RecyclePlaces ==
    ASSUME TypeOK, OncePerPlace, Apart, NEW t \in Threads, Recycle(t)
    PROVE  OncePerPlace' /\ Apart'
<1> DEFINE e == carrier[taken[t]]
<1>1. /\ pc[t] = "inside" /\ CachePush(e) /\ taken' = [taken EXCEPT ![t] = 0]
      /\ sent' = sent /\ got' = got /\ filling' = filling /\ carrier' = carrier /\ made' = made
  BY DEF Recycle, queueVars
<1>2. taken[t] # 0
  BY <1>1 DEF TypeOK
<1>3. \A u \in Threads : taken'[u] = IF u = t THEN 0 ELSE taken[u]
  BY <1>1 DEF TypeOK
<1>4. e \in BeingRun
  BY <1>2 DEF BeingRun
<1>5. InQueue' = InQueue /\ BeingFilled' = BeingFilled /\ Pending' = Pending
  BY <1>1 DEF InQueue, BeingFilled, Pending
<1>6. BeingRun' = BeingRun \ {e}
  <2>1. \A u \in Threads : taken[u] # 0 /\ u # t => carrier[taken[u]] # e
    BY <1>2 DEF OncePerPlace
  <2> QED
    BY <1>1, <1>3, <2>1 DEF BeingRun
<1>7. \A u, v \in Threads : taken'[u] # 0 /\ taken'[v] # 0
                             /\ carrier'[taken'[u]] = carrier'[taken'[v]] => u = v
  BY <1>1, <1>3 DEF OncePerPlace
<1>8. e \in Elements
  BY <1>4, ConstantsAssumption DEF Apart, TypeOK, Elements
<1> HIDE DEF e
<1>9. CASE HasRoom
  <2>1. cache_' = Append(cache_, e) /\ freed' = freed
    BY <1>1, <1>9 DEF CachePush
  <2> DEFINE n == Len(cache_)
  <2>2. n \in Nat /\ DOMAIN cache_ = 1 .. n /\ n + 1 \notin 1 .. n
    BY LenProperties DEF TypeOK
  <2>3. /\ DOMAIN cache_' = 1 .. n + 1 /\ cache_'[n + 1] = e
        /\ \A i \in 1 .. n : cache_'[i] = cache_[i]
    BY <1>8, <2>1, AppendProperties, LenProperties DEF TypeOK
  <2>4. 1 .. n + 1 = (1 .. n) \cup {n + 1}
    BY <2>2
  <2> HIDE DEF n
  <2>5. InCache' = InCache \cup {e}
    BY <2>2, <2>3, <2>4 DEF InCache
  <2>6. e \notin InCache
    BY <1>4 DEF Apart
  <2>7. Apart'
    BY <1>1, <1>4, <1>5, <1>6, <2>1, <2>5 DEF Apart
  <2>8. \A i, j \in DOMAIN cache_' : cache_'[i] = cache_'[j] => i = j
    BY <2>2, <2>3, <2>4, <2>6 DEF InCache, OncePerPlace
  <2> QED
    BY <1>1, <1>5, <1>7, <2>7, <2>8 DEF OncePerPlace
<1>10. CASE ~HasRoom
  <2>1. cache_' = cache_ /\ freed' = freed \cup {e}
    BY <1>1, <1>10 DEF CachePush
  <2>2. InCache' = InCache
    BY <2>1 DEF InCache
  <2>3. Apart'
    BY <1>1, <1>4, <1>5, <1>6, <2>1, <2>2 DEF Apart
  <2> QED
    BY <1>1, <1>5, <1>7, <2>1, <2>3 DEF OncePerPlace
<1> QED
  BY <1>9, <1>10

\* A step that moves no element.
LEMMA SamePlaces ==
    ASSUME OncePerPlace, Apart,
           sent' = sent, got' = got, cache_' = cache_, filling' = filling, taken' = taken,
           carrier' = carrier, freed' = freed, made'.elements = made.elements
    PROVE  OncePerPlace' /\ Apart'
<1>1. Pending' = Pending
  BY DEF Pending
<1>2. InQueue' = InQueue
  BY <1>1 DEF InQueue
<1>3. InCache' = InCache
  BY DEF InCache
<1>4. BeingFilled' = BeingFilled
  BY DEF BeingFilled
<1>5. BeingRun' = BeingRun
  BY DEF BeingRun
<1>6. Apart'
  BY <1>2, <1>3, <1>4, <1>5 DEF Apart
<1>7. OncePerPlace'
  BY <1>1 DEF OncePerPlace
<1> QED
  BY <1>6, <1>7

\* Every step keeps every element in one place.
LEMMA NextPlaces ==
    ASSUME TypeOK, InOrder, Accumulated, OncePerPlace, Apart, [Next]_vars
    PROVE  OncePerPlace' /\ Apart'
<1>1. CASE Rests
  <2>1. /\ sent' = sent /\ got' = got /\ cache_' = cache_ /\ filling' = filling /\ taken' = taken
        /\ carrier' = carrier /\ freed' = freed /\ made'.elements = made.elements
    BY <1>1, RestsStays
  <2> QED
    BY <2>1, SamePlaces
<1>2. ASSUME NEW t \in Threads, Drops(t) \/ Run(t)
      PROVE  OncePerPlace' /\ Apart'
  <2>1. /\ sent' = sent /\ got' = got /\ cache_' = cache_ /\ filling' = filling /\ taken' = taken
        /\ carrier' = carrier /\ freed' = freed /\ made' = made
    BY <1>2 DEF Drops, Finish, Run, queueVars
  <2> QED
    BY <2>1, SamePlaces
<1> QED
  BY <1>1, <1>2, Kinds, ObtainPlaces, PushPlaces, TakePlaces, RecyclePlaces DEF Moves

-----------------------------------------------------------------------------
\* What is in the elements, and what comes out.

\* The number of the push a thread is about to run.
LEMMA AboutToRun ==
    ASSUME TypeOK, InOrder, NEW t \in Threads, pc[t] = "run"
    PROVE  taken[t] # 0 /\ taken[t] \in 1 .. sent /\ taken[t] \notin Pending
           /\ carrier[taken[t]] \in BeingRun
<1>1. taken[t] # 0
  BY DEF TypeOK
<1> QED
  BY <1>1, TakenNumbers

\* A pushed element carries the job it was filled for, and no push that is pending
\* or about to be run is of the same element.
LEMMA PushCarried ==
    ASSUME TypeOK, InOrder, Apart, Carried, NEW t \in Threads, PushElement(t)
    PROVE  Carried'
<1> DEFINE e == filling[t].element
           job == filling[t].job
<1>1. /\ filling[t] # Nothing /\ carrier' = Append(carrier, e) /\ jobs' = Append(jobs, job)
      /\ store' = [store EXCEPT ![e] = Filled(store[e], job)]
      /\ sent' = sent + 1 /\ got' = got /\ pc' = pc /\ taken' = taken
  BY QueuePushes DEF PushElement
<1>2. e \in BeingFilled /\ e \in Elements /\ job \in Job
  BY <1>1 DEF BeingFilled, TypeOK, Filling
<1> HIDE DEF e, job
<1>3. /\ sent \in Nat /\ carrier'[sent + 1] = e /\ jobs'[sent + 1] = job
      /\ \A i \in 1 .. sent : carrier'[i] = carrier[i] /\ jobs'[i] = jobs[i]
  BY <1>1, <1>2, QueueNumbers, AppendProperties DEF TypeOK
<1>4. store[e] \in Content
  BY <1>2 DEF TypeOK
<1>5. Output(store'[e]) = job
  BY <1>1, <1>2, <1>4, FilledPutsOut DEF TypeOK
<1>6. \A d \in Elements : d # e => store'[d] = store[d]
  BY <1>1 DEF TypeOK
<1>7. \A i \in 1 .. sent : i \in Pending' => i \in Pending
  BY <1>1 DEF Pending
<1>8. ASSUME NEW i \in 1 .. sent,
             i \in Pending \/ \E u \in Threads : pc[u] = "run" /\ taken[u] = i
      PROVE  Output(store'[carrier'[i]]) = jobs'[i]
  <2>1. carrier[i] \in InQueue \/ carrier[i] \in BeingRun
    BY <1>8, AboutToRun DEF InQueue
  <2>2. carrier[i] # e /\ carrier[i] \in Elements
    BY <1>2, <2>1, ElementOfSeq DEF Apart, TypeOK
  <2> QED
    BY <1>3, <1>6, <1>8, <2>2 DEF Carried
<1>9. \A i \in 1 .. sent + 1 : i \in 1 .. sent \/ i = sent + 1
  BY <1>3
<1> QED
  BY <1>1, <1>3, <1>5, <1>7, <1>8, <1>9 DEF Carried

\* A step that fills no element, pushes none, and lets nobody be about to run
\* what was not pending.
LEMMA SameCarried ==
    ASSUME Carried, store' = store, carrier' = carrier, jobs' = jobs, sent' = sent,
           Pending' \subseteq Pending,
           \A u \in Threads : pc'[u] = "run" => taken'[u] \in Pending \/ (pc[u] = "run" /\ taken'[u] = taken[u])
    PROVE  Carried'
BY DEF Carried

\* Every step keeps in the elements what they were pushed for.
LEMMA NextCarried ==
    ASSUME TypeOK, InOrder, Accumulated, Apart, Carried, [Next]_vars
    PROVE  Carried'
<1>1. CASE Rests
  <2>1. /\ sent' = sent /\ got' = got /\ store' = store /\ taken' = taken /\ carrier' = carrier
        /\ jobs' = jobs /\ \A u \in Threads : pc'[u] = "run" => pc[u] = "run"
    BY <1>1, RestsStays
  <2>2. Pending' \subseteq Pending
    BY <2>1 DEF Pending
  <2> QED
    BY <2>1, <2>2, SameCarried
<1>2. ASSUME NEW t \in Threads, Drops(t) \/ (\E job \in Job : Obtains(t, job)) PROVE Carried'
  <2>1. /\ sent' = sent /\ got' = got /\ store' = store /\ taken' = taken /\ carrier' = carrier
        /\ jobs' = jobs /\ pc' = pc
    BY <1>2 DEF Drops, Finish, Obtains, Obtain, queueVars
  <2>2. Pending' \subseteq Pending
    BY <2>1 DEF Pending
  <2> QED
    BY <2>1, <2>2, SameCarried
<1>3. ASSUME NEW t \in Threads, Run(t) \/ Recycle(t) PROVE Carried'
  <2>1. /\ sent' = sent /\ got' = got /\ store' = store /\ carrier' = carrier /\ jobs' = jobs
        /\ \A u \in Threads : u # t => pc'[u] = pc[u] /\ taken'[u] = taken[u]
        /\ pc'[t] # "run"
    BY <1>3 DEF Run, Recycle, queueVars, TypeOK
  <2>2. Pending' \subseteq Pending
    BY <2>1 DEF Pending
  <2> QED
    BY <2>1, <2>2, SameCarried
<1>4. ASSUME NEW t \in Threads, Takes(t) PROVE Carried'
  <2>1. /\ sent' = sent /\ store' = store /\ carrier' = carrier /\ jobs' = jobs
        /\ taken' = [taken EXCEPT ![t] = Len(got) + 1] /\ Len(got) + 1 \in Pending
        /\ pc' = [pc EXCEPT ![t] = "run"] /\ Len(got') = Len(got) + 1
    BY <1>4, TakesFront, QueueTakes DEF TakesLast
  <2>2. Pending' \subseteq Pending
    BY <2>1, QueueNumbers DEF Pending
  <2>3. \A u \in Threads : IF u = t THEN taken'[u] \in Pending ELSE pc'[u] = pc[u] /\ taken'[u] = taken[u]
    BY <2>1 DEF TypeOK
  <2> QED
    BY <2>1, <2>2, <2>3, SameCarried
<1> QED
  BY <1>1, <1>2, <1>3, <1>4, Kinds, PushCarried DEF Moves

\* Every step that puts out anything puts out what was pushed.
LEMMA NextFaithful ==
    ASSUME TypeOK, InOrder, Accumulated, Carried, Faithful, [Next]_vars
    PROVE  Faithful'
<1>0. /\ sent \in Nat /\ DOMAIN out = 1 .. sent /\ DOMAIN jobs = 1 .. sent
      /\ out \in Seq(Job \cup {Nothing}) /\ jobs \in Seq(Job)
  BY QueueNumbers, LenProperties DEF TypeOK
<1>1. CASE Rests
  <2>1. out' = out /\ jobs' = jobs
    BY <1>1, RestsStays
  <2> QED
    BY <2>1 DEF Faithful
<1>2. ASSUME NEW t \in Threads,
             Takes(t) \/ Drops(t) \/ (\E job \in Job : Obtains(t, job)) \/ Recycle(t)
      PROVE  Faithful'
  <2>1. out' = out /\ jobs' = jobs
    BY <1>2, TakesFront DEF Drops, Finish, Obtains, Obtain, Recycle
  <2> QED
    BY <2>1 DEF Faithful
<1>3. ASSUME NEW t \in Threads, PushElement(t) PROVE Faithful'
  <2>1. filling[t].job \in Job
    BY <1>3 DEF PushElement, TypeOK, Filling
  <2>2. out' = Append(out, Nothing) /\ jobs' = Append(jobs, filling[t].job)
    BY <1>3 DEF PushElement
  <2>3. Len(out) = sent /\ Len(jobs) = sent
    BY DEF TypeOK
  <2>4. /\ DOMAIN out' = 1 .. sent + 1 /\ out'[sent + 1] = Nothing
        /\ \A i \in 1 .. sent : out'[i] = out[i]
    BY <1>0, <2>2, <2>3, AppendProperties, LenProperties
  <2>5. \A i \in 1 .. sent : jobs'[i] = jobs[i]
    BY <1>0, <2>1, <2>2, <2>3, AppendProperties
  <2>6. \A i \in 1 .. sent + 1 : i \in 1 .. sent \/ i = sent + 1
    BY <1>0
  <2> QED
    BY <1>0, <2>4, <2>5, <2>6 DEF Faithful
<1>4. ASSUME NEW t \in Threads, Run(t) PROVE Faithful'
  <2>1. /\ pc[t] = "run" /\ jobs' = jobs
        /\ out' = [out EXCEPT ![taken[t]] = Output(store[carrier[taken[t]]])]
    BY <1>4 DEF Run
  <2>2. Output(store[carrier[taken[t]]]) = jobs[taken[t]]
    BY <2>1, AboutToRun DEF Carried
  <2> QED
    BY <1>0, <2>1, <2>2 DEF Faithful
<1> QED
  BY <1>1, <1>2, <1>3, <1>4, Kinds DEF Moves

-----------------------------------------------------------------------------
\* What the accumulators make of the levels.

\* Another << adds a part if and only if the present level allows it.
LEMMA AddAccumulated ==
    ASSUME TypeOK, Accumulated, NEW t \in Threads, Add(t)
    PROVE  Accumulated'
<1>1. /\ acc[t] \in Job /\ acc[t].kind = "message" /\ level_ \in acc[t].seen
      /\ acc[t].parts =< acc[t].used
      /\ (\A lev \in acc[t].seen : acc[t].level =< lev) => acc[t].parts = acc[t].used
  BY DEF Add, TypeOK, Accumulated
<1>2. /\ acc' = [acc EXCEPT ![t].used = @ + 1, ![t].parts = IF Enabled(t) THEN @ + 1 ELSE @]
      /\ level_' = level_ /\ filling' = filling
  BY DEF Add
<1> DEFINE m == [acc[t] EXCEPT !.used = @ + 1, !.parts = IF Enabled(t) THEN @ + 1 ELSE @]
<1>3. acc' = [acc EXCEPT ![t] = m]
  BY <1>1, <1>2 DEF TypeOK
<1>4. /\ m.kind = acc[t].kind /\ m.seen = acc[t].seen /\ m.level = acc[t].level
      /\ m.used = acc[t].used + 1 /\ m.parts = IF Enabled(t) THEN acc[t].parts + 1 ELSE acc[t].parts
  BY <1>1 DEF Job
<1> HIDE DEF m
<1>5. (\A lev \in m.seen : m.level =< lev) => m.parts = m.used
  BY <1>1, <1>4 DEF Enabled
<1>6. \A u \in Threads : acc'[u] = IF u = t THEN m ELSE acc[u]
  BY <1>3 DEF TypeOK
<1>7. m.parts =< m.used
  <2>1. acc[t].parts \in Nat /\ acc[t].used \in Nat /\ acc[t].parts =< acc[t].used
    BY <1>1, JobTypes
  <2> QED
    BY <1>4, <2>1
<1>8. ASSUME NEW u \in Threads, acc'[u] # Nothing
      PROVE  /\ acc'[u].kind = "message" /\ level_' \in acc'[u].seen /\ acc'[u].parts =< acc'[u].used
             /\ (\A lev \in acc'[u].seen : acc'[u].level =< lev) => acc'[u].parts = acc'[u].used
  <2>1. CASE u = t
    BY <1>1, <1>2, <1>4, <1>5, <1>6, <1>7, <2>1
  <2>2. CASE u # t
    BY <1>2, <1>6, <1>8, <2>2 DEF Accumulated
  <2> QED
    BY <2>1, <2>2
<1>9. \A u \in Threads : filling'[u] # Nothing => Sendable(filling'[u].job)
  BY <1>2 DEF Accumulated
<1> QED
  BY <1>8, <1>9 DEF Accumulated

\* A thread that sets the level shows it to every accumulator.
LEMMA SetLevelAccumulated ==
    ASSUME TypeOK, Accumulated, NEW t \in Threads, NEW lev \in Levels, SetLevel(t, lev)
    PROVE  Accumulated'
<1>1. /\ level_' = lev /\ filling' = filling
      /\ acc' = [u \in Threads |-> IF acc[u] = Nothing THEN Nothing
                                   ELSE [acc[u] EXCEPT !.seen = @ \cup {lev}]]
  BY DEF SetLevel
<1>2. ASSUME NEW u \in Threads, acc'[u] # Nothing
      PROVE  /\ acc'[u].kind = "message" /\ level_' \in acc'[u].seen /\ acc'[u].parts =< acc'[u].used
             /\ (\A l \in acc'[u].seen : acc'[u].level =< l) => acc'[u].parts = acc'[u].used
  <2>1. acc[u] # Nothing /\ acc'[u] = [acc[u] EXCEPT !.seen = @ \cup {lev}]
    BY <1>1, <1>2
  <2>2. acc[u] \in Job
    BY <2>1 DEF TypeOK
  <2>3. /\ acc'[u].kind = acc[u].kind /\ acc'[u].seen = acc[u].seen \cup {lev}
        /\ acc'[u].level = acc[u].level /\ acc'[u].parts = acc[u].parts /\ acc'[u].used = acc[u].used
    BY <2>1, <2>2 DEF Job
  <2>4. /\ acc[u].kind = "message" /\ acc[u].parts =< acc[u].used
        /\ (\A l \in acc[u].seen : acc[u].level =< l) => acc[u].parts = acc[u].used
    BY <2>1 DEF Accumulated
  <2> QED
    BY <1>1, <2>3, <2>4
<1>3. \A u \in Threads : filling'[u] # Nothing => Sendable(filling'[u].job)
  BY <1>1 DEF Accumulated
<1> QED
  BY <1>2, <1>3 DEF Accumulated

\* A new accumulator has seen the present level, and has no parts.
LEMMA StartAccumulated ==
    ASSUME TypeOK, Accumulated, NEW t \in Threads, NEW lev \in Levels, Start(t, lev)
    PROVE  Accumulated'
<1>1. /\ made' = [made EXCEPT !.jobs = @ + 1] /\ made.jobs < MaxJobs
      /\ acc' = [acc EXCEPT ![t] = Message(made'.jobs, lev)]
      /\ filling' = filling /\ level_' = level_
  BY DEF Start
<1>2. made'.jobs \in 1 .. MaxJobs
  BY <1>1, ConstantsAssumption DEF TypeOK
<1> DEFINE m == Message(made'.jobs, lev)
<1>3. m.kind = "message" /\ m.seen = {level_} /\ m.parts = 0 /\ m.used = 0
  BY <1>2, MessageTyped DEF TypeOK
<1> HIDE DEF m
<1>4. \A u \in Threads : acc'[u] = IF u = t THEN m ELSE acc[u]
  BY <1>1 DEF TypeOK, m
<1> QED
  BY <1>1, <1>3, <1>4 DEF Accumulated

\* A message that is dropped has seen a level that does not allow it.
LEMMA DropsComplete ==
    ASSUME TypeOK, Accumulated, Complete, NEW t \in Threads, Drops(t)
    PROVE  Accumulated' /\ Complete'
<1>1. /\ acc[t] # Nothing /\ ~(acc[t].level =< level_) /\ acc' = [acc EXCEPT ![t] = Nothing]
      /\ dropped' = dropped \cup {acc[t]} /\ jobs' = jobs /\ filling' = filling /\ level_' = level_
  BY DEF Drops, Finish, Enabled
<1>2. acc[t] \in Job /\ level_ \in acc[t].seen /\ acc[t].level \in Nat /\ level_ \in Nat
  BY <1>1, JobTypes, ConstantsAssumption DEF TypeOK, Accumulated
<1>3. acc[t].level > level_
  BY <1>1, <1>2
<1>4. \A u \in Threads : acc'[u] = IF u = t THEN Nothing ELSE acc[u]
  BY <1>1 DEF TypeOK
<1>5. Accumulated'
  BY <1>1, <1>4 DEF Accumulated
<1>6. Complete'
  BY <1>1, <1>2, <1>3 DEF Complete
<1> QED
  BY <1>5, <1>6

\* Every step keeps the accumulators, and what has been sent and dropped, true to
\* the levels.
LEMMA NextComplete ==
    ASSUME TypeOK, Accumulated, Complete, [Next]_vars
    PROVE  Accumulated' /\ Complete'
<1>1. CASE Rests
  <2>1. jobs' = jobs /\ dropped' = dropped /\ filling' = filling
    BY <1>1, RestsStays
  <2>2. Complete'
    BY <2>1 DEF Complete
  <2>3. CASE \E t \in Threads : Add(t) \/ \E lev \in Levels : Start(t, lev) \/ SetLevel(t, lev)
    BY <2>2, <2>3, AddAccumulated, SetLevelAccumulated, StartAccumulated
  <2>4. CASE acc' = acc /\ level_' = level_
    BY <2>1, <2>2, <2>4 DEF Accumulated
  <2>5. ASSUME NEW t \in Threads,
               Stop(t) \/ Attach(t) \/ WaitSleeps(t) \/ SpuriousWake(t) \/ WaitCancelled(t)
        PROVE  acc' = acc /\ level_' = level_
    BY <2>5 DEF Stop, Attach, WaitSleeps, SpuriousWake, WaitCancelled, loggerVars
  <2>6. UNCHANGED vars => acc' = acc /\ level_' = level_
    BY DEF vars, loggerVars
  <2> QED
    BY <1>1, <2>3, <2>4, <2>5, <2>6 DEF Rests, Idles
<1>2. ASSUME NEW t \in Threads, Takes(t) \/ Run(t) \/ Recycle(t) PROVE Accumulated' /\ Complete'
  <2>1. jobs' = jobs /\ dropped' = dropped /\ filling' = filling /\ acc' = acc /\ level_' = level_
    BY <1>2, TakesFront DEF Run, Recycle
  <2> QED
    BY <2>1 DEF Accumulated, Complete
<1>3. ASSUME NEW t \in Threads, NEW job \in Job, Obtains(t, job) PROVE Accumulated' /\ Complete'
  <2>1. PICK e \in Elements : filling' = [filling EXCEPT ![t] = [element |-> e, job |-> job]]
    BY <1>3 DEF Obtains, Obtain
  <2>2. /\ jobs' = jobs /\ dropped' = dropped /\ level_' = level_ /\ Sendable(job)
        /\ acc' = [acc EXCEPT ![t] = Nothing]
    BY <1>3 DEF Obtains, Obtain
  <2>3. \A u \in Threads : filling'[u] = IF u = t THEN [element |-> e, job |-> job] ELSE filling[u]
    BY <2>1 DEF TypeOK
  <2>4. \A u \in Threads : acc'[u] = IF u = t THEN Nothing ELSE acc[u]
    BY <2>2 DEF TypeOK
  <2>5. Complete'
    BY <2>2 DEF Complete
  <2>6. \A u \in Threads : filling'[u] # Nothing => Sendable(filling'[u].job)
    BY <2>2, <2>3 DEF Accumulated
  <2>7. Accumulated'
    BY <2>2, <2>4, <2>6 DEF Accumulated
  <2> QED
    BY <2>5, <2>7
<1>4. ASSUME NEW t \in Threads, PushElement(t) PROVE Accumulated' /\ Complete'
  <2>1. /\ filling[t] # Nothing /\ jobs' = Append(jobs, filling[t].job)
        /\ filling' = [filling EXCEPT ![t] = Nothing]
        /\ acc' = acc /\ dropped' = dropped /\ level_' = level_
    BY <1>4 DEF PushElement
  <2>2. Sendable(filling[t].job) /\ filling[t].job \in Job
    BY <2>1 DEF Accumulated, TypeOK, Filling
  <2>3. \A u \in Threads : filling'[u] = IF u = t THEN Nothing ELSE filling[u]
    BY <2>1 DEF TypeOK
  <2>4. Accumulated'
    BY <2>1, <2>3 DEF Accumulated
  <2> DEFINE n == Len(jobs)
  <2>5. /\ n \in Nat /\ DOMAIN jobs = 1 .. n /\ DOMAIN jobs' = 1 .. n + 1
        /\ jobs'[n + 1] = filling[t].job /\ \A i \in 1 .. n : jobs'[i] = jobs[i]
    BY <2>1, <2>2, AppendProperties, LenProperties DEF TypeOK
  <2> HIDE DEF n
  <2>6. \A i \in 1 .. n + 1 : i \in 1 .. n \/ i = n + 1
    BY <2>5
  <2>7. \A i \in DOMAIN jobs' : Sendable(jobs'[i])
    BY <2>2, <2>5, <2>6 DEF Complete
  <2>8. Complete'
    BY <2>1, <2>7 DEF Complete
  <2> QED
    BY <2>4, <2>8
<1> QED
  BY <1>1, <1>2, <1>3, <1>4, Kinds, DropsComplete DEF Moves

-----------------------------------------------------------------------------
\* Types. In these lemmas a step is given by what it does to the variables that
\* it does not leave alone.

\* Steps that change only the level, the accumulators and the program counters.
LEMMA RestsTyped ==
    ASSUME TypeOK, Accumulated, Rests
    PROVE  TypeOK'
<1>0. /\ sent' = sent /\ cache_' = cache_ /\ store' = store /\ filling' = filling /\ taken' = taken
      /\ carrier' = carrier /\ jobs' = jobs /\ out' = out /\ freed' = freed /\ dropped' = dropped
  BY RestsStays
<1>1. ASSUME NEW t \in Threads, NEW lev \in Levels, Start(t, lev) PROVE TypeOK'
  <2>1. /\ made' = [made EXCEPT !.jobs = @ + 1] /\ made.jobs < MaxJobs
        /\ acc' = [acc EXCEPT ![t] = Message(made'.jobs, lev)]
        /\ level_' = level_ /\ pc' = pc /\ changes' = changes
    BY <1>1 DEF Start
  <2>2. /\ made' \in [jobs : 0 .. MaxJobs, elements : 0 .. MaxJobs]
        /\ made'.jobs \in 1 .. MaxJobs
    <3>1. made \in [jobs : 0 .. MaxJobs, elements : 0 .. MaxJobs] /\ made.jobs + 1 \in 1 .. MaxJobs
      BY <2>1, ConstantsAssumption DEF TypeOK
    <3> QED
      BY <2>1, <3>1
  <2>3. Message(made'.jobs, lev) \in Job
    BY <2>2, MessageTyped DEF TypeOK
  <2> QED
    BY <1>0, <2>1, <2>2, <2>3 DEF TypeOK
<1>2. ASSUME NEW t \in Threads, NEW lev \in Levels, SetLevel(t, lev) PROVE TypeOK'
  <2>1. /\ level_' = lev /\ changes < MaxChanges /\ changes' = changes + 1
        /\ acc' = [u \in Threads |-> IF acc[u] = Nothing THEN Nothing
                                     ELSE [acc[u] EXCEPT !.seen = @ \cup {lev}]]
        /\ pc' = pc /\ made' = made
    BY <1>2 DEF SetLevel
  <2>2. \A m \in Job : [m EXCEPT !.seen = @ \cup {lev}] \in Job
    BY DEF Job
  <2>3. acc' \in [Threads -> Job \cup {Nothing}]
    BY <2>1, <2>2 DEF TypeOK
  <2>4. changes' \in 0 .. MaxChanges
    BY <2>1, ConstantsAssumption DEF TypeOK
  <2> QED
    BY <1>0, <2>1, <2>3, <2>4 DEF TypeOK
<1>3. ASSUME NEW t \in Threads, Add(t) PROVE TypeOK'
  <2>1. acc[t] \in Job /\ acc[t].used < MaxParts /\ acc[t].parts =< acc[t].used
    BY <1>3 DEF Add, TypeOK, Accumulated
  <2>2. /\ acc' = [acc EXCEPT ![t].used = @ + 1, ![t].parts = IF Enabled(t) THEN @ + 1 ELSE @]
        /\ level_' = level_ /\ pc' = pc /\ made' = made /\ changes' = changes
    BY <1>3 DEF Add, historyVars
  <2>3. acc' \in [Threads -> Job \cup {Nothing}]
    <3> DEFINE m == [acc[t] EXCEPT !.used = @ + 1, !.parts = IF Enabled(t) THEN @ + 1 ELSE @]
    <3>1. acc' = [acc EXCEPT ![t] = m]
      BY <2>1, <2>2 DEF TypeOK
    <3>2. acc[t].used + 1 \in 0 .. MaxParts /\ acc[t].parts + 1 \in 0 .. MaxParts
      BY <2>1, JobTypes, ConstantsAssumption
    <3>3. m \in Job
      BY <2>1, <3>2 DEF Job
    <3> HIDE DEF m
    <3> QED
      BY <3>1, <3>3 DEF TypeOK
  <2> QED
    BY <1>0, <2>2, <2>3 DEF TypeOK
<1>4. ASSUME NEW t \in Threads, Attach(t) PROVE TypeOK'
  <2>1. /\ pc[t] = "user" /\ pc' = [pc EXCEPT ![t] = "attach"]
        /\ level_' = level_ /\ acc' = acc /\ made' = made /\ changes' = changes
    BY <1>4 DEF Attach, historyVars
  <2> QED
    BY <1>0, <2>1 DEF TypeOK, PCs
<1>5. ASSUME NEW t \in Threads, WaitCancelled(t) PROVE TypeOK'
  <2>1. /\ pc[t] = "attach" /\ pc' = [pc EXCEPT ![t] = "user"]
        /\ level_' = level_ /\ acc' = acc /\ made' = made /\ changes' = changes
    BY <1>5 DEF WaitCancelled, historyVars
  <2> QED
    BY <1>0, <2>1 DEF TypeOK, PCs
<1>6. CASE level_' = level_ /\ acc' = acc /\ pc' = pc /\ made' = made /\ changes' = changes
  BY <1>0, <1>6 DEF TypeOK
<1>7. ASSUME NEW t \in Threads, Stop(t) \/ WaitSleeps(t) \/ SpuriousWake(t)
      PROVE  level_' = level_ /\ acc' = acc /\ pc' = pc /\ made' = made /\ changes' = changes
  BY <1>7 DEF Stop, WaitSleeps, SpuriousWake, loggerVars, historyVars
<1>8. UNCHANGED vars => level_' = level_ /\ acc' = acc /\ pc' = pc /\ made' = made /\ changes' = changes
  BY DEF vars, loggerVars, historyVars
<1> QED
  BY <1>1, <1>2, <1>3, <1>4, <1>5, <1>6, <1>7, <1>8 DEF Rests, Idles

\* A taken element has a number of those that were pushed.
LEMMA TakesTyped ==
    ASSUME TypeOK, InOrder, NEW t \in Threads, Takes(t)
    PROVE  TypeOK'
<1>1. /\ sent' = sent /\ pc' = [pc EXCEPT ![t] = "run"]
      /\ taken' = [taken EXCEPT ![t] = Len(got) + 1] /\ Len(got) + 1 \in Pending
      /\ cache_' = cache_ /\ store' = store /\ level_' = level_ /\ acc' = acc /\ filling' = filling
      /\ carrier' = carrier /\ jobs' = jobs /\ made' = made /\ changes' = changes
      /\ out' = out /\ freed' = freed /\ dropped' = dropped
  BY TakesFront, QueueTakes DEF TakesLast
<1>2. Len(got) + 1 \in 0 .. sent /\ Len(got) + 1 # 0
  BY <1>1, QueueNumbers DEF Pending
<1>3. pc' \in [Threads -> PCs] /\ taken' \in [Threads -> 0 .. sent]
  BY <1>1, <1>2 DEF TypeOK, PCs
<1>4. \A u \in Threads : taken'[u] # 0 <=> pc'[u] \in {"run", "inside"}
  BY <1>1, <1>2 DEF TypeOK
<1> QED
  BY <1>1, <1>3, <1>4 DEF TypeOK

\* A dropped message is a message.
LEMMA DropsTyped ==
    ASSUME TypeOK, NEW t \in Threads, Drops(t)
    PROVE  TypeOK'
<1>1. /\ acc[t] # Nothing /\ acc' = [acc EXCEPT ![t] = Nothing] /\ dropped' = dropped \cup {acc[t]}
      /\ sent' = sent /\ cache_' = cache_ /\ store' = store /\ level_' = level_ /\ pc' = pc
      /\ filling' = filling /\ taken' = taken
      /\ carrier' = carrier /\ jobs' = jobs /\ made' = made /\ changes' = changes
      /\ out' = out /\ freed' = freed
  BY DEF Drops, Finish, queueVars
<1>2. acc' \in [Threads -> Job \cup {Nothing}] /\ dropped' \subseteq Job
  BY <1>1 DEF TypeOK
<1> QED
  BY <1>1, <1>2 DEF TypeOK

\* An obtained element was made, and the cache has one less or none.
LEMMA ObtainsTyped ==
    ASSUME TypeOK, NEW t \in Threads, NEW job \in Job, Obtains(t, job)
    PROVE  TypeOK'
<1>1. PICK e \in Elements :
         /\ CacheGet(e)
         /\ filling' = [filling EXCEPT ![t] = [element |-> e, job |-> job]]
         /\ made' = [made EXCEPT !.elements = IF e > @ THEN e ELSE @,
                                 !.jobs = IF job.id > @ THEN job.id ELSE @]
  BY DEF Obtains, Obtain
<1>2. /\ acc' = [acc EXCEPT ![t] = Nothing] /\ dropped' = dropped
      /\ sent' = sent /\ store' = store /\ level_' = level_ /\ pc' = pc /\ taken' = taken
      /\ carrier' = carrier /\ jobs' = jobs /\ changes' = changes /\ out' = out /\ freed' = freed
  BY DEF Obtains, Obtain, queueVars
<1>3. filling' \in [Threads -> Filling \cup {Nothing}]
  BY <1>1 DEF TypeOK, Filling
<1>4. made' \in [jobs : 0 .. MaxJobs, elements : 0 .. MaxJobs]
  <2>1. /\ made \in [jobs : 0 .. MaxJobs, elements : 0 .. MaxJobs]
        /\ e \in 0 .. MaxJobs /\ job.id \in 0 .. MaxJobs
    BY JobTypes, ConstantsAssumption DEF TypeOK, Elements
  <2>2. /\ (IF e > made.elements THEN e ELSE made.elements) \in 0 .. MaxJobs
        /\ (IF job.id > made.jobs THEN job.id ELSE made.jobs) \in 0 .. MaxJobs
    BY <2>1
  <2> QED
    BY <1>1, <2>1, <2>2
<1>5. cache_' \in Seq(Elements) /\ Len(cache_') =< MaxCache
  <2>1. CASE cache_ = <<>>
    BY <1>1, <2>1 DEF CacheGet, TypeOK
  <2>2. CASE cache_ # <<>>
    <3>1. cache_' = Tail(cache_) /\ cache_ \in Seq(Elements)
      BY <1>1, <2>2 DEF CacheGet, TypeOK
    <3>2. cache_' \in Seq(Elements) /\ Len(cache_') = Len(cache_) - 1 /\ Len(cache_) \in Nat
      BY <2>2, <3>1, HeadTailProperties, LenProperties
    <3>3. \A n \in Nat : n =< MaxCache => n - 1 =< MaxCache
      BY ConstantsAssumption
    <3> QED
      BY <3>2, <3>3 DEF TypeOK
  <2> QED
    BY <2>1, <2>2
<1>6. acc' \in [Threads -> Job \cup {Nothing}]
  BY <1>2 DEF TypeOK
<1> QED
  BY <1>2, <1>3, <1>4, <1>5, <1>6 DEF TypeOK

\* The histories of the pushes grow together.
LEMMA PushTyped ==
    ASSUME TypeOK, InOrder, NEW t \in Threads, PushElement(t)
    PROVE  TypeOK'
<1> DEFINE e == filling[t].element
           job == filling[t].job
<1>1. /\ filling[t] # Nothing /\ carrier' = Append(carrier, e) /\ jobs' = Append(jobs, job)
      /\ store' = [store EXCEPT ![e] = Filled(store[e], job)] /\ out' = Append(out, Nothing)
      /\ filling' = [filling EXCEPT ![t] = Nothing]
      /\ sent' = sent + 1 /\ cache_' = cache_ /\ level_' = level_ /\ pc' = pc /\ acc' = acc
      /\ taken' = taken /\ made' = made /\ changes' = changes /\ freed' = freed /\ dropped' = dropped
  BY QueuePushes DEF PushElement
<1>2. e \in Elements /\ job \in Job
  BY <1>1 DEF TypeOK, Filling
<1> HIDE DEF e, job
<1>3. sent \in Nat
  BY QueueNumbers
<1>4. /\ carrier' \in Seq(Elements) /\ Len(carrier') = sent + 1
      /\ jobs' \in Seq(Job) /\ Len(jobs') = sent + 1
      /\ out' \in Seq(Job \cup {Nothing}) /\ Len(out') = sent + 1
  <2>1. carrier' \in Seq(Elements) /\ Len(carrier') = sent + 1
    BY <1>1, <1>2, AppendProperties DEF TypeOK
  <2>2. jobs' \in Seq(Job) /\ Len(jobs') = sent + 1
    BY <1>1, <1>2, AppendProperties DEF TypeOK
  <2>3. out' \in Seq(Job \cup {Nothing}) /\ Len(out') = sent + 1
    BY <1>1, AppendProperties DEF TypeOK
  <2> QED
    BY <2>1, <2>2, <2>3
<1>5. store' \in [Elements -> Content]
  BY <1>1, <1>2, FilledPutsOut DEF TypeOK
<1>6. filling' \in [Threads -> Filling \cup {Nothing}]
  BY <1>1 DEF TypeOK
<1>7. taken' \in [Threads -> 0 .. sent']
  <2>1. \A i \in 0 .. sent : i \in 0 .. sent + 1
    BY <1>3
  <2> QED
    BY <1>1, <2>1 DEF TypeOK
<1> QED
  BY <1>1, <1>4, <1>5, <1>6, <1>7 DEF TypeOK

\* What comes out is a job.
LEMMA RunTyped ==
    ASSUME TypeOK, InOrder, NEW t \in Threads, Run(t)
    PROVE  TypeOK'
<1>1. /\ pc[t] = "run" /\ pc' = [pc EXCEPT ![t] = "inside"]
      /\ out' = [out EXCEPT ![taken[t]] = Output(store[carrier[taken[t]]])]
      /\ sent' = sent /\ cache_' = cache_ /\ store' = store /\ level_' = level_ /\ acc' = acc
      /\ filling' = filling /\ taken' = taken /\ carrier' = carrier /\ jobs' = jobs /\ made' = made
      /\ changes' = changes /\ freed' = freed /\ dropped' = dropped
  BY DEF Run, queueVars
<1>2. taken[t] \in 1 .. sent /\ sent \in Nat
  BY <1>1, AboutToRun, QueueNumbers
<1>3. carrier[taken[t]] \in Elements
  BY <1>2, ElementOfSeq DEF TypeOK
<1>4. Output(store[carrier[taken[t]]]) \in Job \cup {Nothing}
  BY <1>3, OutputTyped DEF TypeOK
<1>5. out' \in Seq(Job \cup {Nothing}) /\ Len(out') = sent
  <2>1. out \in [1 .. sent -> Job \cup {Nothing}]
    BY LenProperties DEF TypeOK
  <2>2. out' \in [1 .. sent -> Job \cup {Nothing}]
    BY <1>1, <1>2, <1>4, <2>1
  <2> QED
    BY <1>2, <2>2, SeqOfLength
<1>6. pc' \in [Threads -> PCs] /\ \A u \in Threads : taken'[u] # 0 <=> pc'[u] \in {"run", "inside"}
  BY <1>1 DEF TypeOK, PCs
<1> QED
  BY <1>1, <1>5, <1>6 DEF TypeOK

\* The cache has one element more, up to its maximum, or one more is freed.
LEMMA RecycleTyped ==
    ASSUME TypeOK, InOrder, NEW t \in Threads, Recycle(t)
    PROVE  TypeOK'
<1> DEFINE e == carrier[taken[t]]
<1>1. /\ pc[t] = "inside" /\ CachePush(e) /\ taken' = [taken EXCEPT ![t] = 0]
      /\ pc' = [pc EXCEPT ![t] = IF t \in Attached THEN "attach" ELSE "user"]
      /\ sent' = sent /\ store' = store /\ level_' = level_ /\ acc' = acc
      /\ filling' = filling /\ carrier' = carrier /\ jobs' = jobs /\ made' = made
      /\ changes' = changes /\ out' = out /\ dropped' = dropped
  BY DEF Recycle, queueVars
<1>2. taken[t] # 0
  BY <1>1 DEF TypeOK
<1>3. e \in Elements
  BY <1>2, TakenNumbers, ElementOfSeq DEF TypeOK
<1>4. pc' \in [Threads -> PCs] /\ taken' \in [Threads -> 0 .. sent]
  BY <1>1, QueueNumbers DEF TypeOK, PCs
<1>5. \A u \in Threads : taken'[u] # 0 <=> pc'[u] \in {"run", "inside"}
  BY <1>1 DEF TypeOK
<1>6. cache_' \in Seq(Elements) /\ Len(cache_') =< MaxCache /\ freed' \subseteq Elements
  <2> HIDE DEF e
  <2>1. CASE HasRoom
    <3>1. cache_' = Append(cache_, e) /\ freed' = freed /\ Len(cache_) < MaxCache /\ cache_ \in Seq(Elements)
      BY <1>1, <2>1 DEF CachePush, HasRoom, TypeOK
    <3>2. cache_' \in Seq(Elements) /\ Len(cache_') = Len(cache_) + 1 /\ Len(cache_) \in Nat
      BY <1>3, <3>1, AppendProperties, LenProperties
    <3>3. \A n \in Nat : n < MaxCache => n + 1 =< MaxCache
      BY ConstantsAssumption
    <3> QED
      BY <3>1, <3>2, <3>3 DEF TypeOK
  <2>2. CASE ~HasRoom
    BY <1>1, <1>3, <2>2 DEF CachePush, TypeOK
  <2> QED
    BY <2>1, <2>2
<1> QED
  BY <1>1, <1>4, <1>5, <1>6 DEF TypeOK

-----------------------------------------------------------------------------
\* The whole invariant.

\* A logger starts with no job and no element.
LEMMA InitInductive == Init => Inductive
<1> SUFFICES ASSUME Init PROVE Inductive
  OBVIOUS
<1>1. /\ queue_ = <<>> /\ sent = 0 /\ got = <<>> /\ cache_ = <<>> /\ carrier = <<>>
      /\ jobs = <<>> /\ out = <<>> /\ freed = {} /\ dropped = {} /\ changes = 0
      /\ made = [jobs |-> 0, elements |-> 0] /\ level_ \in Levels
      /\ store = [e \in Elements |-> [call |-> Nothing, data |-> Nothing]]
      /\ pc = [t \in Threads |-> "user"] /\ acc = [t \in Threads |-> Nothing]
      /\ filling = [t \in Threads |-> Nothing] /\ taken = [t \in Threads |-> 0]
  BY DEF Init, Q!Init
<1>2. \A S : <<>> \in Seq(S) /\ Len(<<>>) = 0
  BY EmptySeq
<1>3. DOMAIN <<>> = {} /\ 1 .. 0 = {}
  BY <1>2, LenProperties
<1>4. MaxJobs \in Nat /\ MaxChanges \in Nat /\ MaxCache \in Nat
  BY ConstantsAssumption
<1>5. TypeOK
  BY <1>1, <1>2, <1>4 DEF TypeOK, Content, PCs
<1>6. InOrder
  <2>1. queue_ = [j \in 1 .. sent - Len(got) |-> Len(got) + j]
    <3>1. <<>> = [j \in 1 .. 0 |-> 0 + j]
      BY <1>3
    <3>2. Len(got) = 0
      BY <1>1, <1>2
    <3>3. sent - Len(got) = 0
      <4>1. sent = 0 /\ 0 - 0 = 0
        BY <1>1
      <4> QED
        BY <3>2, <4>1, Zenon
    <3> QED
      BY <1>1, <3>1, <3>2, <3>3
  <2> QED
    BY <1>1, <1>2, <1>4, <2>1 DEF InOrder
<1>7. Pending = {}
  BY <1>1, <1>2 DEF Pending
<1>8. InQueue = {} /\ InCache = {} /\ BeingFilled = {} /\ BeingRun = {}
  BY <1>1, <1>3, <1>7 DEF InQueue, InCache, BeingFilled, BeingRun
<1>9. OncePerPlace /\ Apart
  BY <1>1, <1>3, <1>7, <1>8 DEF OncePerPlace, Apart
<1>10. Carried /\ Accumulated /\ Faithful /\ Complete
  BY <1>1, <1>3 DEF Carried, Accumulated, Faithful, Complete
<1> QED
  BY <1>5, <1>6, <1>9, <1>10 DEF Inductive

\* Every step keeps the invariant.
LEMMA NextInductive == Inductive /\ [Next]_vars => Inductive'
<1> SUFFICES ASSUME Inductive, [Next]_vars PROVE Inductive'
  OBVIOUS
<1>1. TypeOK /\ InOrder /\ OncePerPlace /\ Apart /\ Carried /\ Accumulated /\ Faithful /\ Complete
  BY DEF Inductive
<1>2. TypeOK'
  BY <1>1, Kinds, RestsTyped, TakesTyped, DropsTyped, ObtainsTyped, PushTyped, RunTyped, RecycleTyped
     DEF Moves
<1> QED
  BY <1>1, <1>2, NextInOrder, NextPlaces, NextCarried, NextFaithful, NextComplete DEF Inductive

\* The parts of the invariant hold in every state.
THEOREM InductiveHolds == Spec => []Inductive
BY InitInductive, NextInductive, PTL DEF Spec

\* The places of an element, when it is in one of the five sets and there once.
LEMMA OnlyPlace ==
    ASSUME TypeOK, InOrder, OncePerPlace, Apart, NEW e \in 1 .. made.elements
    PROVE  \E p : Places(e) = {p}
<1> DEFINE inQueue == {j \in DOMAIN queue_ : carrier[queue_[j]] = e}
           inCache == {j \in DOMAIN cache_ : cache_[j] = e}
           beingFilled == {u \in Threads : filling[u] # Nothing /\ filling[u].element = e}
           beingRun == {u \in Threads : taken[u] # 0 /\ carrier[taken[u]] = e}
           n == Len(got)
<1>1. /\ n \in Nat /\ sent \in Nat
      /\ DOMAIN queue_ = 1 .. sent - n /\ \A j \in DOMAIN queue_ : queue_[j] = n + j
  BY QueueNumbers DEF InOrder
<1>2. \A j \in DOMAIN queue_ : queue_[j] \in Pending
  BY <1>1 DEF Pending
<1>3. \A i \in Pending : i - n \in DOMAIN queue_ /\ queue_[i - n] = i
  BY <1>1 DEF Pending
<1>4. \A j, k \in DOMAIN queue_ : queue_[j] = queue_[k] => j = k
  BY <1>1
<1> HIDE DEF n
<1>5. e \notin InQueue => inQueue = {}
  BY <1>2 DEF InQueue
<1>6. e \in InQueue => \E j : inQueue = {j}
  <2> SUFFICES ASSUME NEW i \in Pending, e = carrier[i] PROVE \E j : inQueue = {j}
    BY DEF InQueue
  <2>1. i - n \in inQueue
    BY <1>3
  <2>2. \A j \in inQueue : queue_[j] = i
    BY <1>2 DEF OncePerPlace
  <2>3. \A j \in inQueue : j = i - n
    BY <1>3, <1>4, <2>1, <2>2
  <2> HIDE DEF inQueue
  <2>4. inQueue = {i - n}
    BY <2>1, <2>3
  <2> QED
    BY <2>4
<1>7. e \notin InCache => inCache = {}
  BY DEF InCache
<1>8. e \in InCache => \E j : inCache = {j}
  BY DEF InCache, OncePerPlace
<1>9. e \notin BeingFilled => beingFilled = {}
  BY DEF BeingFilled
<1>10. e \in BeingFilled => \E u : beingFilled = {u}
  BY DEF BeingFilled, OncePerPlace
<1>11. e \notin BeingRun => beingRun = {}
  BY DEF BeingRun
<1>12. e \in BeingRun => \E u : beingRun = {u}
  <2> SUFFICES ASSUME NEW t \in Threads, taken[t] # 0, e = carrier[taken[t]] PROVE \E u : beingRun = {u}
    BY DEF BeingRun
  <2>1. t \in beingRun /\ \A u \in beingRun : u = t
    BY DEF OncePerPlace
  <2> HIDE DEF beingRun
  <2>2. beingRun = {t}
    BY <2>1
  <2> QED
    BY <2>2
<1>13. Places(e) =
          {<<"queue", i>> : i \in inQueue} \cup {<<"cache", i>> : i \in inCache}
          \cup {<<"filling", u>> : u \in beingFilled} \cup {<<"taken", u>> : u \in beingRun}
          \cup (IF e \in freed THEN {<<"freed", 0>>} ELSE {})
  BY DEF Places
<1> HIDE DEF inQueue, inCache, beingFilled, beingRun
<1>14. CASE e \in InQueue
  <2>1. PICK j : inQueue = {j}
    BY <1>6, <1>14
  <2>2. inCache = {} /\ beingFilled = {} /\ beingRun = {} /\ e \notin freed
    BY <1>7, <1>9, <1>11, <1>14 DEF Apart
  <2>3. Places(e) = {<<"queue", j>>}
    BY <1>13, <2>1, <2>2
  <2> QED
    BY <2>3
<1>15. CASE e \in InCache
  <2>1. PICK j : inCache = {j}
    BY <1>8, <1>15
  <2>2. inQueue = {} /\ beingFilled = {} /\ beingRun = {} /\ e \notin freed
    BY <1>5, <1>9, <1>11, <1>15 DEF Apart
  <2>3. Places(e) = {<<"cache", j>>}
    BY <1>13, <2>1, <2>2
  <2> QED
    BY <2>3
<1>16. CASE e \in BeingFilled
  <2>1. PICK u : beingFilled = {u}
    BY <1>10, <1>16
  <2>2. inQueue = {} /\ inCache = {} /\ beingRun = {} /\ e \notin freed
    BY <1>5, <1>7, <1>11, <1>16 DEF Apart
  <2>3. Places(e) = {<<"filling", u>>}
    BY <1>13, <2>1, <2>2
  <2> QED
    BY <2>3
<1>17. CASE e \in BeingRun
  <2>1. PICK u : beingRun = {u}
    BY <1>12, <1>17
  <2>2. inQueue = {} /\ inCache = {} /\ beingFilled = {} /\ e \notin freed
    BY <1>5, <1>7, <1>9, <1>17 DEF Apart
  <2>3. Places(e) = {<<"taken", u>>}
    BY <1>13, <2>1, <2>2
  <2> QED
    BY <2>3
<1>18. CASE e \in freed
  <2>1. inQueue = {} /\ inCache = {} /\ beingFilled = {} /\ beingRun = {}
    BY <1>5, <1>7, <1>9, <1>11, <1>18 DEF Apart
  <2>2. Places(e) = {<<"freed", 0>>}
    BY <1>13, <1>18, <2>1
  <2> QED
    BY <2>2
<1> QED
  BY <1>14, <1>15, <1>16, <1>17, <1>18 DEF Apart

\* For any threads and any maximum of the cache: an element that was made is in
\* one place, so no two threads have the same one, and none is lost.
THEOREM OnePlaceHolds == Spec => []OnePlace
<1>1. Inductive => OnePlace
  <2> SUFFICES ASSUME Inductive PROVE OnePlace
    OBVIOUS
  <2>1. TypeOK /\ InOrder /\ OncePerPlace /\ Apart
    BY DEF Inductive
  <2>2. ASSUME NEW e \in 1 .. made.elements PROVE Cardinality(Places(e)) = 1
    <3>1. PICK p : Places(e) = {p}
      BY <2>1, OnlyPlace
    <3> QED
      BY <3>1, FS_Singleton
  <2> QED
    BY <2>1, <2>2 DEF OnePlace
<1> QED
  BY <1>1, InductiveHolds, PTL

\* What comes out of a push is the call or the message that was pushed, whatever
\* the element has carried before.
THEOREM FaithfulHolds == Spec => []Faithful
<1>1. Inductive => Faithful
  BY DEF Inductive
<1> QED
  BY <1>1, InductiveHolds, PTL

\* Whoever sets the level and when: a message that all the levels it has seen
\* allow is sent with all its parts, and one that none allows is not.
THEOREM CompleteHolds == Spec => []Complete
<1>1. Inductive => Complete
  BY DEF Inductive
<1> QED
  BY <1>1, InductiveHolds, PTL
=============================================================================
