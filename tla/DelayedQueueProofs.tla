-------------------------- MODULE DelayedQueueProofs --------------------------
(***************************************************************************)
(* Proofs about DelayedQueue, for any threads and any bounds: the types,   *)
(* the mutual exclusion of wait_next, the custody of delayed tasks, and    *)
(* that none of them runs before its time; for workers that all call       *)
(* run(), that no wakeup is lost; for one worker, the orders in which it   *)
(* runs the delayed tasks and the regular ones; and that the queue         *)
(* implements DelayedTimers.                                               *)
(***************************************************************************)
EXTENDS DelayedQueue, SequenceTheorems, FiniteSetTheorems, TLAPS

-----------------------------------------------------------------------------
(***************************************************************************)
(* Closures.                                                               *)
(***************************************************************************)
\* What each constructor of closures makes is a closure.
LEMMA TaskTypes ==
    /\ NoTask \in Task /\ Body \in Task
    /\ \A n \in 1 .. MaxRegular : Regular(n) \in Task
    /\ \A id \in DelayedIds : Register(id) \in Task
    /\ \A id \in DelayedIds : \A cancelled \in BOOLEAN : Delayed(id, cancelled) \in Task
    /\ \A waitRegular \in BOOLEAN : StopTask(waitRegular) \in Task
BY DEF Task

\* The kind of a closure tells which constructor made it, hence what it holds.
LEMMA TaskKinds ==
    ASSUME NEW task \in Task
    PROVE  /\ task.kind = "regular" => task.id \in 1 .. MaxRegular
           /\ task.kind \in {"register", "delayed"} => task.id \in DelayedIds
           /\ task.flag \in BOOLEAN
<1>1. CASE task = NoTask
  BY <1>1 DEF NoTask
<1>6. CASE task = Body
  BY <1>6 DEF Body
<1>2. CASE \E n \in 1 .. MaxRegular : task = Regular(n)
  BY <1>2 DEF Regular
<1>3. CASE \E id \in DelayedIds : task = Register(id)
  BY <1>3 DEF Register
<1>4. CASE \E id \in DelayedIds : \E cancelled \in BOOLEAN : task = Delayed(id, cancelled)
  BY <1>4 DEF Delayed
<1>5. CASE \E waitRegular \in BOOLEAN : task = StopTask(waitRegular)
  BY <1>5 DEF StopTask
<1> QED
  BY <1>1, <1>2, <1>3, <1>4, <1>5, <1>6 DEF Task

\* What the closure of post_delayed_task is.
LEMMA RegisterKind == \A id : Register(id).kind = "register" /\ Register(id).id = id
BY DEF Register

\* The calls cancel_all_delayed_tasks prepares are a sequence of closures.
LEMMA CancelCallsType ==
    ASSUME NEW ids \in SUBSET DelayedIds, NEW s \in InOrder(ids)
    PROVE  [i \in DOMAIN s |-> Delayed(s[i], TRUE)] \in Seq(Task)
<1>1. IsFiniteSet(ids)
  <2>1. IsFiniteSet(1 .. MaxDelayed)
    BY FS_Interval, BoundsAssumption
  <2> QED
    BY <2>1, FS_Subset DEF DelayedIds
<1>2. Cardinality(ids) \in Nat
  BY <1>1, FS_CardinalityType
<1>3. DOMAIN s = 1 .. Cardinality(ids) /\ \A i \in DOMAIN s : s[i] \in DelayedIds
  BY DEF InOrder
<1>4. \A i \in DOMAIN s : Delayed(s[i], TRUE) \in Task
  BY <1>3, TaskTypes
<1>5. [i \in DOMAIN s |-> Delayed(s[i], TRUE)] \in [1 .. Cardinality(ids) -> Task]
  BY <1>3, <1>4
<1> QED
  BY <1>2, <1>5, SeqDef

-----------------------------------------------------------------------------
\* The initial state satisfies the invariant.
LEMMA InitInductive == Init => Inductive
<1> SUFFICES ASSUME Init PROVE Inductive
  OBVIOUS
<1> USE BoundsAssumption, ThreadsAssumption
<1>1. TypeOK
  <2>1. todo \in [Threads -> Seq(Task)]
    BY TaskTypes DEF Init
  <2>2. pc \in [Threads -> PCs]
    BY DEF Init, PCs
  <2> QED
    BY <2>1, <2>2, TaskTypes DEF Init, TypeOK, DelayedIds
<1>2. MutualExclusion
  BY DEF Init, MutualExclusion, Inside, Timed, Threads
<1>3. Custody /\ FreshIds /\ Counted /\ FirstWaits
  BY DEF Init, Custody, FreshIds, Counted, FirstWaits, Holds, HasTask, Timed, InWaitNext, Inside, Threads
<1> QED
  BY <1>1, <1>2, <1>3 DEF Inductive
-----------------------------------------------------------------------------
(***************************************************************************)
(* Types.                                                                  *)
(***************************************************************************)
LEMMA HeadTailTypes ==
    ASSUME NEW S, NEW s \in Seq(S), s # <<>>
    PROVE  Head(s) \in S /\ Tail(s) \in Seq(S)
BY HeadTailProperties

\* cancel_all_delayed_tasks puts calls before what a thread has to execute.
LEMMA SwapInWaitTypes ==
    ASSUME TypeOK, NEW t \in Threads, SwapInWait(t)
    PROVE  todo' \in [Threads -> Seq(Task)]
<1>1. PICK s \in InOrder(in_wait) : CallEach(t, s, TRUE)
  BY DEF SwapInWait
<1>2. [i \in DOMAIN s |-> Delayed(s[i], TRUE)] \in Seq(Task)
  BY CancelCallsType DEF TypeOK
<1>3. [i \in DOMAIN s |-> Delayed(s[i], TRUE)] \o todo[t] \in Seq(Task)
  BY <1>2, ConcatProperties DEF TypeOK
<1> QED
  BY <1>1, <1>3 DEF CallEach, TypeOK

\* The task a worker holds has an id that was drawn.
LEMMA HeldIds ==
    ASSUME TypeOK, FreshIds, NEW w \in Workers, Holds(w)
    PROVE  cur[w] \in DelayedIds
BY BoundsAssumption DEF TypeOK, FreshIds, DelayedIds

\* A public operation keeps the types.
LEMMA CallTypes ==
    ASSUME TypeOK, NEW t \in Threads, Call(t)
    PROVE  TypeOK'
<1> USE BoundsAssumption, TaskTypes
<1>1. CASE PostTask(t)
  BY <1>1 DEF TypeOK, PostTask, BeginPost, Goto, PCs, Posting, queueVars, activeVars, idVars
<1>2. ASSUME NEW waitRegular \in StopModes, PostStop(t, waitRegular) PROVE TypeOK'
  BY <1>2 DEF TypeOK, PostStop, BeginPost, Goto, PCs, Posting, queueVars, activeVars, idVars
<1>3. CASE PostDelayed(t)
  <2>1. next_id \in DelayedIds /\ next_id' \in 1 .. MaxDelayed + 1
    BY <1>3 DEF TypeOK, PostDelayed, DelayedIds
  <2> QED
    BY <1>3, <2>1 DEF TypeOK, PostDelayed, Goto, PCs, Posting, queueVars, activeVars, historyVars
<1>4. ASSUME NEW id \in DelayedIds, CancelWaiting(t, id) PROVE TypeOK'
  BY <1>4 DEF TypeOK, CancelWaiting, BeginPost, Goto, PCs, Posting, queueVars, idVars
<1>5. ASSUME NEW id \in DelayedIds, CancelInProcess(t, id) PROVE TypeOK'
  BY <1>5 DEF TypeOK, CancelInProcess, NotifyAll, idVars, threadVars
<1>6. ASSUME NEW waitRegular \in StopModes, Stop(t, waitRegular) PROVE TypeOK'
  <2>1. todo' \in [Threads -> Seq(Task)]
    BY <1>6, ConcatProperties DEF TypeOK, Stop, StopQueue
  <2>2. task_queue' \in Seq(Task) /\ waiting' \subseteq Workers /\ pc' \in [Threads -> PCs]
    BY <1>6 DEF TypeOK, Stop, StopQueue, NotifyAll, Goto, PCs
  <2>3. stops' \in Nat /\ UNCHANGED <<delayed, work_lock, activeVars, idVars, now, arg, cur,
                                      left, posted, asked, calls, started, alive>>
    BY <1>6 DEF TypeOK, Stop, StopQueue
  <2> QED
    BY <1>6, <2>1, <2>2, <2>3 DEF TypeOK, Stop, StopQueue, activeVars, idVars
<1>7. CASE Reset(t)
  BY <1>7 DEF TypeOK, Reset, activeVars, idVars, threadVars, historyVars
<1>8. CASE Destroy(t)
  <2>1. todo' \in [Threads -> Seq(Task)]
    BY <1>8, SwapInWaitTypes DEF Destroy
  <2> QED
    BY <1>8, <2>1 DEF TypeOK, Destroy, SwapInWait, queueVars, idVars
<1> QED
  BY <1>1, <1>2, <1>3, <1>4, <1>5, <1>6, <1>7, <1>8 DEF Call

\* So does what a thread goes on with.
LEMMA ContinueTypes ==
    ASSUME TypeOK, FreshIds, NEW t \in Threads, Continue(t)
    PROVE  TypeOK'
<1> USE BoundsAssumption, TaskTypes
<1>1. CASE CheckActive(t)
  BY <1>1 DEF TypeOK, CheckActive, Goto, PCs, Posting, queueVars, activeVars, idVars, historyVars
<1>2. CASE Push(t)
  <2>1. task_queue' \in Seq(Task)
    BY <1>2, AppendProperties DEF TypeOK, Push, Enqueue
  <2>2. waiting' \subseteq Workers
    BY <1>2 DEF TypeOK, Push, NotifyOne
  <2> QED
    BY <1>2, <2>1, <2>2 DEF TypeOK, Push, Goto, PCs, activeVars, idVars, historyVars
<1>3. CASE CancelAll(t)
  <2>1. todo' \in [Threads -> Seq(Task)]
    BY <1>3, SwapInWaitTypes DEF CancelAll
  <2> QED
    BY <1>3, <2>1 DEF TypeOK, CancelAll, SwapInWait, Goto, PCs, queueVars, idVars, historyVars
<1>4. ASSUME NEW dur \in Durations, Activate(t, dur) PROVE TypeOK'
  <2>1. arg[t].id \in DelayedIds
    BY <1>4, TaskKinds DEF TypeOK, FreshIds, Activate
  <2>2. dur \in Nat
    OBVIOUS
  <2> QED
    BY <1>4, <2>1, <2>2 DEF TypeOK, Activate, ToWaitMap, Goto, PCs, Posting, queueVars, historyVars
<1>5. ASSUME NEW kind, HasNext(t, kind)
      PROVE  /\ Head(todo[t]) \in Task /\ Tail(todo[t]) \in Seq(Task)
             /\ Head(todo[t]).kind = kind
  BY <1>5, HeadTailTypes DEF TypeOK, HasNext
<1>6. ASSUME NEW kind, HasNext(t, kind), EnterBody(t) PROVE todo' \in [Threads -> Seq(Task)]
  <2>1. (IF t \in Callers THEN <<Body>> ELSE <<>>) \in Seq(Task)
    BY EmptySeq
  <2>2. (IF t \in Callers THEN <<Body>> ELSE <<>>) \o Tail(todo[t]) \in Seq(Task)
    BY <1>5, <1>6, <2>1, ConcatProperties
  <2> QED
    BY <1>6, <2>2 DEF TypeOK, EnterBody
<1>7. CASE ExecRegular(t)
  <2>1. started' \in Seq(1 .. MaxRegular)
    BY <1>5, <1>7, TaskKinds, AppendProperties DEF TypeOK, ExecRegular
  <2> QED
    BY <1>6, <1>7, <2>1 DEF TypeOK, ExecRegular, queueVars, activeVars, idVars
<1>8. CASE ExecDelayed(t)
  <2>1. Head(todo[t]).id \in DelayedIds /\ Head(todo[t]).flag \in BOOLEAN
    BY <1>5, <1>8, TaskKinds DEF ExecDelayed
  <2>2. calls' \in [DelayedIds -> Seq(BOOLEAN)]
    BY <1>8, <2>1, AppendProperties DEF TypeOK, ExecDelayed
  <2> QED
    BY <1>6, <1>8, <2>2 DEF TypeOK, ExecDelayed, queueVars, activeVars, idVars
<1>9. CASE ExecRegister(t)
  <2>1. Head(todo[t]).id \in DelayedIds /\ Tail(todo[t]) \in Seq(Task)
    BY <1>5, <1>9, TaskKinds DEF ExecRegister
  <2>2. waiting' \subseteq Workers
    BY <1>9 DEF TypeOK, ExecRegister, NotifyOne
  <2> QED
    BY <1>9, <2>1, <2>2 DEF TypeOK, ExecRegister, activeVars, idVars, historyVars
<1>10. CASE ExecStop(t)
  <2>1. todo' \in [Threads -> Seq(Task)]
    BY <1>5, <1>10, ConcatProperties DEF TypeOK, ExecStop, StopQueue
  <2> QED
    BY <1>10, <2>1, EmptySeq DEF TypeOK, ExecStop, StopQueue, NotifyAll, Goto, PCs,
                                 activeVars, idVars, historyVars
<1>11. CASE Return(t)
  <2>1. Tail(todo[t]) \in Seq(Task)
    BY <1>11, HeadTailTypes DEF TypeOK, Return, InUser
  <2> QED
    BY <1>11, <2>1 DEF TypeOK, Return, queueVars, activeVars, idVars, historyVars
<1> QED
  BY <1>1, <1>2, <1>3, <1>4, <1>7, <1>8, <1>9, <1>10, <1>11 DEF Continue

\* A task obtained from wait_next is run by a worker that has one left to run.
LEMMA ObtainTypes ==
    ASSUME TypeOK, Counted, NEW w \in Workers, pc[w] \in InWaitNext,
           NEW task \in Task, Obtain(w, task)
    PROVE  /\ work_lock' \in Workers \cup {NoThread}
           /\ todo' \in [Threads -> Seq(Task)]
           /\ left' \in [Workers -> Nat]
           /\ cur' \in [Workers -> {0} \cup DelayedIds]
           /\ pc' \in [Threads -> PCs]
<1>1. w \in Bounded => left[w] - 1 \in Nat
  BY DEF TypeOK, Counted
<1>2. <<task>> \in Seq(Task)
  OBVIOUS
<1> QED
  BY <1>1, <1>2 DEF TypeOK, Obtain, Goto, PCs, Threads

\* A step of run() and wait_next keeps the types.
LEMMA ServeTypes ==
    ASSUME TypeOK, FreshIds, Counted, FirstWaits, NEW w \in Workers, Serve(w)
    PROVE  TypeOK'
<1> USE DEF PCs, Inside, Timed, Goto, Threads
<1>1. CASE RunReturns(w)
  BY <1>1 DEF TypeOK, RunReturns, queueVars, activeVars, idVars, historyVars
<1>2. CASE WaitNext(w)
  BY <1>2 DEF TypeOK, WaitNext, activeVars, idVars, historyVars
<1>3. CASE Disabled(w)
  BY <1>3 DEF TypeOK, Disabled, activeVars, idVars, historyVars
<1>4. CASE Idle(w)
  BY <1>4 DEF TypeOK, Idle, activeVars, idVars, historyVars
<1>5. CASE IdleWakes(w)
  BY <1>5 DEF TypeOK, IdleWakes, activeVars, idVars, historyVars
<1>6. CASE TakeRegular(w)
  <2>1. Head(task_queue) \in Task /\ Tail(task_queue) \in Seq(Task)
    BY <1>6, HeadTailTypes DEF TypeOK, TakeRegular
  <2> QED
    BY <1>6, <2>1, ObtainTypes DEF TypeOK, TakeRegular, InWaitNext, activeVars, idVars, historyVars
<1>7. ASSUME NEW id \in DelayedIds, PopDelayed(w, id) PROVE TypeOK'
  BY <1>7 DEF TypeOK, PopDelayed, OnTop, activeVars, idVars, historyVars
<1>8. CASE TestPredicate(w)
  BY <1>8 DEF TypeOK, TestPredicate, queueVars, activeVars, idVars, historyVars
<1>9. CASE Block(w)
  BY <1>9 DEF TypeOK, Block, activeVars, idVars, historyVars
<1>10. CASE Notified(w)
  BY <1>10 DEF TypeOK, Notified, activeVars, idVars, historyVars
<1>11. CASE TimesOut(w)
  BY <1>11 DEF TypeOK, TimesOut, activeVars, idVars, historyVars
<1>12. CASE CancelSeen(w)
  <2>1. Delayed(cur[w], TRUE) \in Task
    BY <1>12, HeldIds, TaskTypes DEF CancelSeen, Holds, HasTask
  <2> QED
    BY <1>12, <2>1, ObtainTypes DEF TypeOK, CancelSeen, InWaitNext, activeVars, idVars, historyVars
<1>13. CASE NotCancelled(w)
  BY <1>13 DEF TypeOK, NotCancelled, queueVars, activeVars, idVars, historyVars
<1>14. CASE TakeInstead(w)
  <2>1. Head(task_queue) \in Task /\ Tail(task_queue) \in Seq(Task)
    BY <1>14, HeadTailTypes DEF TypeOK, TakeInstead, FirstWaits
  <2> QED
    BY <1>14, <2>1, HeldIds, ObtainTypes DEF TypeOK, TakeInstead, PutBack, ToWaitMap, InWaitNext,
                                       Holds, HasTask, idVars, historyVars
<1>15. CASE Fire(w)
  <2>1. Delayed(cur[w], Cancelled(cur[w])) \in Task
    BY <1>15, HeldIds, TaskTypes DEF Fire, Cancelled, Holds, HasTask
  <2> QED
    BY <1>15, <2>1, ObtainTypes DEF TypeOK, Fire, InWaitNext, idVars, historyVars
<1> QED
  BY <1>1, <1>2, <1>3, <1>4, <1>5, <1>6, <1>7, <1>8, <1>9, <1>10, <1>11, <1>12,
     <1>13, <1>14, <1>15 DEF Serve

-----------------------------------------------------------------------------
(***************************************************************************)
(* The lock and the custody of delayed tasks.                              *)
(***************************************************************************)
\* A thread outside run()'s wait_next touches neither the lock's owner nor what
\* a worker inside wait_next has in hand.
Aside(t) ==
    /\ UNCHANGED <<work_lock, cur, left>>
    /\ \A u \in Threads : u # t => pc'[u] = pc[u]
    /\ pc[t] \notin InWaitNext /\ pc'[t] \notin InWaitNext

\* A public operation is such a step, ...
LEMMA CallAside == ASSUME TypeOK, NEW t \in Threads, Call(t) PROVE Aside(t)
<1> USE DEF Aside, MayCall, InUser, InWaitNext, Inside, Timed, Goto, BeginPost, TypeOK, Threads
<1>1. CASE PostTask(t)
  BY <1>1 DEF PostTask, queueVars
<1>2. ASSUME NEW waitRegular \in StopModes, PostStop(t, waitRegular) PROVE Aside(t)
  BY <1>2 DEF PostStop, queueVars
<1>3. CASE PostDelayed(t)
  BY <1>3 DEF PostDelayed, queueVars
<1>4. ASSUME NEW id \in DelayedIds, CancelWaiting(t, id) PROVE Aside(t)
  BY <1>4 DEF CancelWaiting, queueVars
<1>5. ASSUME NEW id \in DelayedIds, CancelInProcess(t, id) PROVE Aside(t)
  BY <1>5 DEF CancelInProcess, threadVars
<1>6. ASSUME NEW waitRegular \in StopModes, Stop(t, waitRegular) PROVE Aside(t)
  BY <1>6 DEF Stop, StopQueue
<1>7. CASE Reset(t)
  BY <1>7 DEF Reset, threadVars
<1>8. CASE Destroy(t)
  BY <1>8 DEF Destroy, queueVars
<1> QED
  BY <1>1, <1>2, <1>3, <1>4, <1>5, <1>6, <1>7, <1>8 DEF Call

\* ... and so is what follows it, and what a thread executes.
LEMMA ContinueAside == ASSUME TypeOK, NEW t \in Threads, Continue(t) PROVE Aside(t)
<1> USE DEF Aside, HasNext, InWaitNext, Inside, Timed, Goto, TypeOK, Threads
<1>1. CASE CheckActive(t)
  BY <1>1 DEF CheckActive, queueVars
<1>2. CASE Push(t)
  BY <1>2 DEF Push
<1>3. CASE CancelAll(t)
  BY <1>3 DEF CancelAll, queueVars
<1>4. ASSUME NEW dur \in Durations, Activate(t, dur) PROVE Aside(t)
  BY <1>4 DEF Activate, queueVars
<1>5. CASE ExecRegular(t)
  BY <1>5 DEF ExecRegular, queueVars
<1>6. CASE ExecDelayed(t)
  BY <1>6 DEF ExecDelayed, queueVars
<1>7. CASE ExecRegister(t)
  BY <1>7 DEF ExecRegister
<1>8. CASE ExecStop(t)
  BY <1>8 DEF ExecStop, StopQueue
<1>9. CASE Return(t)
  BY <1>9 DEF Return, InUser, queueVars
<1> QED
  BY <1>1, <1>2, <1>3, <1>4, <1>5, <1>6, <1>7, <1>8, <1>9 DEF Continue

\* Only who has the lock, or finds it free, changes the queue of tasks.
LEMMA QueueLocked ==
    ASSUME TypeOK, NEW t \in Threads, Call(t) \/ Continue(t), ~LockFree
    PROVE  UNCHANGED task_queue
BY DEF Call, Continue, PostTask, PostDelayed, Reset, Destroy, PostStop, Stop, StopQueue,
       CancelWaiting, CancelInProcess, CheckActive, Push, CancelAll, Activate, ExecRegular,
       ExecDelayed, ExecRegister, ExecStop, Return, queueVars

LockParts == MutualExclusion /\ Counted /\ FirstWaits

\* Such a step leaves the lock as it is.
LEMMA AsideLock ==
    ASSUME TypeOK, LockParts, NEW t \in Threads, Aside(t), Call(t) \/ Continue(t)
    PROVE  LockParts'
<1>1. MutualExclusion'
  BY DEF Aside, LockParts, MutualExclusion, InWaitNext, Threads
<1>2. Counted'
  BY ThreadsAssumption DEF Aside, LockParts, Counted, InWaitNext, Threads
<1>3. ASSUME NEW w \in Workers, pc'[w] = "take" PROVE task_queue' # <<>>
  <2>1. pc[w] = "take"
    BY <1>3 DEF Aside, InWaitNext, Inside, Timed, Threads
  <2>2. ~LockFree
    BY <2>1, ThreadsAssumption DEF LockParts, MutualExclusion, Inside, Timed, LockFree, Threads
  <2> QED
    BY <2>1, <2>2, QueueLocked DEF LockParts, FirstWaits
<1> QED
  BY <1>1, <1>2, <1>3 DEF LockParts, FirstWaits

\* A step of run() passes the lock on as it has to.
LEMMA ServeLock ==
    ASSUME TypeOK, LockParts, NEW w \in Workers, Serve(w)
    PROVE  LockParts'
<1> USE ThreadsAssumption
    DEF LockParts, MutualExclusion, Counted, FirstWaits, InWaitNext, Inside, Timed, Goto,
        TypeOK, Threads, LockFree, Obtain
<1>1. CASE RunReturns(w)
  BY <1>1 DEF RunReturns, Looping, queueVars
<1>2. CASE WaitNext(w)
  BY <1>2 DEF WaitNext, Looping, HasLeft
<1>3. CASE Disabled(w)
  BY <1>3 DEF Disabled
<1>4. CASE Idle(w)
  BY <1>4 DEF Idle
<1>5. CASE IdleWakes(w)
  BY <1>5 DEF IdleWakes
<1>6. CASE TakeRegular(w)
  BY <1>6 DEF TakeRegular
<1>7. ASSUME NEW id \in DelayedIds, PopDelayed(w, id) PROVE LockParts'
  BY <1>7 DEF PopDelayed
<1>8. CASE TestPredicate(w)
  BY <1>8 DEF TestPredicate, queueVars
<1>9. CASE Block(w)
  BY <1>9 DEF Block
<1>10. CASE Notified(w)
  BY <1>10 DEF Notified
<1>11. CASE TimesOut(w)
  BY <1>11 DEF TimesOut
<1>12. CASE CancelSeen(w)
  BY <1>12 DEF CancelSeen
<1>13. CASE NotCancelled(w)
  BY <1>13 DEF NotCancelled, RegularFirst, queueVars
<1>14. CASE TakeInstead(w)
  BY <1>14 DEF TakeInstead
<1>15. CASE Fire(w)
  BY <1>15 DEF Fire
<1> QED
  BY <1>1, <1>2, <1>3, <1>4, <1>5, <1>6, <1>7, <1>8, <1>9, <1>10, <1>11, <1>12,
     <1>13, <1>14, <1>15 DEF Serve

Hands == Custody /\ FreshIds

\* A thread outside wait_next that only takes from the containers, and is not
\* about to enter a new task, leaves the custody as it is.
LEMMA Shrink ==
    ASSUME TypeOK, Hands, NEW t \in Threads, Aside(t),
           in_wait' \subseteq in_wait, in_process' \subseteq in_process,
           next_id' = next_id, pc'[t] # "delay",
           \A u \in Threads : u # t => arg'[u] = arg[u]
    PROVE  Hands'
<1>1. \A w \in Workers : (Holds(w))' = Holds(w) /\ cur'[w] = cur[w]
  BY DEF Aside, Holds, HasTask, InWaitNext, Inside, Threads
<1>2. \A u \in Threads : pc'[u] = "delay" => pc[u] = "delay" /\ arg'[u] = arg[u]
  BY DEF Aside
<1>3. Custody'
  BY <1>1 DEF Hands, Custody
<1>4. FreshIds'
  BY <1>1, <1>2 DEF Hands, FreshIds
<1> QED
  BY <1>3, <1>4 DEF Hands

\* The id post_delayed_task draws is nowhere.
LEMMA PostDelayedHands ==
    ASSUME TypeOK, Hands, NEW t \in Threads, PostDelayed(t), Aside(t)
    PROVE  Hands'
<1>1. \A w \in Workers : (Holds(w))' = Holds(w) /\ cur'[w] = cur[w]
  BY DEF Aside, Holds, HasTask, InWaitNext, Inside, Threads
<1>2. \A u \in Threads : u # t => pc'[u] = pc[u] /\ arg'[u] = arg[u]
  BY DEF Aside, PostDelayed
<1>3. arg'[t].kind = "register" /\ arg'[t].id = next_id /\ pc'[t] = "delay"
  BY RegisterKind DEF PostDelayed, Goto, TypeOK
<1>4. next_id' = next_id + 1 /\ UNCHANGED activeVars /\ next_id \in Nat
  BY BoundsAssumption DEF PostDelayed, TypeOK
<1>5. Custody'
  BY <1>1, <1>4 DEF Hands, Custody, activeVars
<1>6. \A id \in in_wait' \cup in_process' : id < next_id'
  BY <1>4, BoundsAssumption DEF Hands, FreshIds, activeVars, TypeOK, DelayedIds
<1>7. \A w \in Workers : (Holds(w))' => cur'[w] \in 1 .. next_id' - 1
  BY <1>1, <1>4 DEF Hands, FreshIds
<1>10. \A u \in Threads : u # t /\ pc[u] = "delay" =>
          arg[u].kind = "register" /\ arg[u].id \in Nat /\ arg[u].id < next_id
  <2> SUFFICES ASSUME NEW u \in Threads, u # t, pc[u] = "delay"
               PROVE  arg[u].kind = "register" /\ arg[u].id \in Nat /\ arg[u].id < next_id
    OBVIOUS
  <2>1. arg[u].kind = "register" /\ arg[u].id < next_id
    BY DEF Hands, FreshIds
  <2>2. arg[u] \in Task
    BY DEF TypeOK
  <2>3. arg[u].id \in DelayedIds
    BY <2>1, <2>2, TaskKinds
  <2> QED
    BY <2>1, <2>3, BoundsAssumption DEF DelayedIds
<1>11. \A id \in in_wait \cup in_process : id < next_id
  BY DEF Hands, FreshIds
<1>8. ASSUME NEW u \in Threads, pc'[u] = "delay"
      PROVE  /\ arg'[u].kind = "register" /\ arg'[u].id < next_id'
             /\ arg'[u].id \notin in_wait' \cup in_process'
             /\ \A w \in Workers : (Holds(w))' => cur'[w] # arg'[u].id
             /\ \A v \in Threads : pc'[v] = "delay" /\ arg'[v].id = arg'[u].id => v = u
  <2>1. u # t => arg[u].id \in Nat /\ arg[u].id < next_id
    BY <1>2, <1>8, <1>10
  <2>2. arg'[u].kind = "register" /\ arg'[u].id < next_id'
    BY <1>2, <1>3, <1>4, <1>8, <1>10, <2>1
  <2>3. arg'[u].id \notin in_wait' \cup in_process'
    <3>1. CASE u = t
      <4>1. next_id \notin in_wait \cup in_process
        BY <1>4, <1>11
      <4> QED
        BY <1>3, <1>4, <3>1, <4>1 DEF activeVars
    <3>2. CASE u # t
      BY <1>2, <1>4, <1>8, <3>2 DEF Hands, FreshIds, activeVars
    <3> QED
      BY <3>1, <3>2
  <2>4. \A w \in Workers : (Holds(w))' => cur'[w] # arg'[u].id
    BY <1>1, <1>2, <1>3, <1>4, <1>8 DEF Hands, FreshIds
  <2>5. ASSUME NEW v \in Threads, pc'[v] = "delay", arg'[v].id = arg'[u].id PROVE v = u
    <3>1. v # t => arg[v].id \in Nat /\ arg[v].id < next_id
      BY <1>2, <2>5, <1>10
    <3>2. CASE u = t \/ v = t
      BY <1>3, <1>4, <2>1, <2>5, <1>2, <3>1, <3>2
    <3>3. CASE u # t /\ v # t
      BY <1>2, <1>8, <2>5, <3>3 DEF Hands, FreshIds
    <3> QED
      BY <3>2, <3>3
  <2> QED
    BY <2>2, <2>3, <2>4, <2>5
<1>9. FreshIds'
  BY <1>6, <1>7, <1>8 DEF FreshIds
<1> QED
  BY <1>5, <1>9 DEF Hands

\* A new task enters the map.
LEMMA ActivateHands ==
    ASSUME TypeOK, Hands, NEW t \in Threads, NEW dur \in Durations, Activate(t, dur), Aside(t)
    PROVE  Hands'
<1>1. \A w \in Workers : (Holds(w))' = Holds(w) /\ cur'[w] = cur[w]
  BY DEF Aside, Holds, HasTask, InWaitNext, Inside, Threads
<1>2. /\ in_wait' = in_wait \cup {arg[t].id} /\ in_process' = in_process \ {arg[t].id}
      /\ UNCHANGED <<arg, next_id>> /\ pc[t] = "delay" /\ pc'[t] = "post"
      /\ \A u \in Threads : u # t => pc'[u] = pc[u]
  BY DEF Activate, ToWaitMap, Goto, TypeOK
<1>3. Custody'
  BY <1>1, <1>2 DEF Hands, Custody, FreshIds
<1>4. FreshIds'
  BY <1>1, <1>2 DEF Hands, FreshIds
<1> QED
  BY <1>3, <1>4 DEF Hands

\* A public operation takes no task that a worker holds.
LEMMA CallHands ==
    ASSUME TypeOK, Hands, NEW t \in Threads, Call(t)
    PROVE  Hands'
<1>1. Aside(t)
  BY CallAside
<1>2. CASE PostDelayed(t)
  BY <1>1, <1>2, PostDelayedHands
<1>3. CASE ~PostDelayed(t)
  <2>1. /\ in_wait' \subseteq in_wait /\ in_process' \subseteq in_process
        /\ next_id' = next_id /\ pc'[t] # "delay"
        /\ \A u \in Threads : u # t => arg'[u] = arg[u]
    BY <1>3 DEF Call, PostTask, PostStop, CancelWaiting, CancelInProcess, Stop, StopQueue, Reset,
                Destroy, SwapInWait, MayCall, InUser, BeginPost, Goto, activeVars, idVars,
                threadVars, TypeOK
  <2> QED
    BY <1>1, <2>1, Shrink
<1> QED
  BY <1>2, <1>3

\* What follows it, and what a thread executes, does not either.
LEMMA ContinueHands ==
    ASSUME TypeOK, Hands, NEW t \in Threads, Continue(t)
    PROVE  Hands'
<1>1. Aside(t)
  BY ContinueAside
<1>2. CASE \E dur \in Durations : Activate(t, dur)
  BY <1>1, <1>2, ActivateHands
<1>3. CASE ~\E dur \in Durations : Activate(t, dur)
  <2>1. /\ in_wait' \subseteq in_wait /\ in_process' \subseteq in_process
        /\ next_id' = next_id /\ pc'[t] # "delay"
        /\ \A u \in Threads : u # t => arg'[u] = arg[u]
    BY <1>3 DEF Continue, CheckActive, Push, CancelAll, SwapInWait, ExecRegular, ExecDelayed,
                ExecRegister, ExecStop, StopQueue, Return, InUser, HasNext, Goto, activeVars,
                idVars, TypeOK
  <2> QED
    BY <1>1, <2>1, Shrink
<1> QED
  BY <1>2, <1>3

\* What a worker does is quiet if it gives up at most the task it holds.
LEMMA Quiet ==
    ASSUME TypeOK, Hands, NEW w \in Workers,
           UNCHANGED <<in_wait, next_id, arg>>, in_process' \subseteq in_process,
           \A u \in Threads : u # w => pc'[u] = pc[u],
           \A v \in Workers : v # w => cur'[v] = cur[v],
           pc'[w] # "delay",
           (Holds(w))' => Holds(w) /\ cur'[w] = cur[w],
           \A id \in in_process' : cur[w] = id /\ Holds(w) => (Holds(w))' /\ cur'[w] = id
    PROVE  Hands'
<1>1. \A v \in Workers : (Holds(v))' => Holds(v) /\ cur'[v] = cur[v]
  BY DEF Holds, Threads
<1>2. \A u \in Threads : pc'[u] = "delay" => pc[u] = "delay"
  OBVIOUS
<1>3. \A v \in Workers : v # w => (Holds(v))' = Holds(v) /\ cur'[v] = cur[v]
  BY DEF Holds, Threads
<1>4. Custody'
  BY <1>1, <1>3 DEF Hands, Custody
<1>5. FreshIds'
  BY <1>1, <1>2 DEF Hands, FreshIds
<1> QED
  BY <1>4, <1>5 DEF Hands

\* A step of wait_next moves one task between the containers and the worker.
LEMMA ServeHands ==
    ASSUME TypeOK, Hands, NEW w \in Workers, Serve(w)
    PROVE  Hands'
<1> DEFINE Others == /\ \A u \in Threads : u # w => pc'[u] = pc[u]
                     /\ \A v \in Workers : v # w => cur'[v] = cur[v]
           Leaves == /\ UNCHANGED <<in_wait, next_id, arg>> /\ in_process' \subseteq in_process
                     /\ pc'[w] # "delay"
                     /\ (Holds(w))' => Holds(w) /\ cur'[w] = cur[w]
                     /\ \A id \in in_process' :
                           cur[w] = id /\ Holds(w) => (Holds(w))' /\ cur'[w] = id
<1>0. ASSUME Others, Leaves PROVE Hands'
  BY <1>0, Quiet
<1>u. w \in Threads
  BY DEF Threads
<1> USE <1>u DEF Holds, HasTask, Timed, Goto, TypeOK
<1>1. CASE RunReturns(w)
  BY <1>0, <1>1 DEF RunReturns, Looping, activeVars, idVars
<1>2. CASE WaitNext(w)
  BY <1>0, <1>2 DEF WaitNext, Looping, activeVars, idVars
<1>3. CASE Disabled(w)
  BY <1>0, <1>3 DEF Disabled, activeVars, idVars
<1>4. CASE Idle(w)
  BY <1>0, <1>4 DEF Idle, activeVars, idVars
<1>5. CASE IdleWakes(w)
  BY <1>0, <1>5 DEF IdleWakes, activeVars, idVars
<1>6. CASE TakeRegular(w)
  BY <1>0, <1>6 DEF TakeRegular, Obtain, activeVars, idVars
<1>7. ASSUME NEW id \in DelayedIds, PopDelayed(w, id) PROVE Hands'
  <2>1. CASE id \in in_wait
    <3>1. /\ in_wait' = in_wait \ {id} /\ in_process' = in_process \cup {id}
          /\ ~Holds(w) /\ (Holds(w))' /\ cur'[w] = id /\ pc'[w] # "delay"
          /\ Others /\ UNCHANGED <<next_id, arg>>
      BY <1>7, <2>1 DEF PopDelayed, idVars
    <3>2. \A v \in Workers : v # w => (Holds(v))' = Holds(v) /\ cur'[v] = cur[v]
      BY <3>1 DEF Threads
    <3> HIDE DEF Holds, HasTask, Timed, Goto, TypeOK, Leaves
    <3>3. \A v \in Workers : Holds(v) => cur[v] # id
      BY <2>1 DEF Hands, Custody
    <3>4. Custody'
      <4>1. in_wait' \cap in_process' = {}
        BY <3>1 DEF Hands, Custody
      <4>2. \A v \in Workers : (Holds(v))' => cur'[v] \notin in_wait'
        BY <3>1, <3>2 DEF Hands, Custody
      <4>3. \A i \in in_process' : \E v \in Workers : (Holds(v))' /\ cur'[v] = i
        <5>1. ASSUME NEW i \in in_process PROVE \E v \in Workers : (Holds(v))' /\ cur'[v] = i
          <6>1. PICK v \in Workers : Holds(v) /\ cur[v] = i
            BY DEF Hands, Custody
          <6>2. v # w
            BY <3>1, <6>1
          <6> QED
            BY <3>2, <6>1, <6>2
        <5> QED
          BY <3>1, <5>1
      <4>4. \A v, x \in Workers : (Holds(v))' /\ (Holds(x))' /\ cur'[v] = cur'[x] => v = x
        BY <3>1, <3>2, <3>3 DEF Hands, Custody
      <4> QED
        BY <4>1, <4>2, <4>3, <4>4 DEF Custody
    <3>5. FreshIds'
      <4>1. id < next_id /\ id \in 1 .. next_id - 1
        BY <2>1, BoundsAssumption DEF Hands, FreshIds, DelayedIds, TypeOK
      <4>2. \A i \in in_wait' \cup in_process' : i < next_id'
        BY <3>1, <4>1 DEF Hands, FreshIds
      <4>3. \A v \in Workers : (Holds(v))' => cur'[v] \in 1 .. next_id' - 1
        BY <3>1, <3>2, <4>1 DEF Hands, FreshIds
      <4>4. \A u \in Threads : pc'[u] = "delay" => pc[u] = "delay" /\ arg[u].id # id
        BY <2>1, <3>1 DEF Hands, FreshIds
      <4>5. \A u \in Threads : pc'[u] = "delay" => \A v \in Workers : (Holds(v))' => cur'[v] # arg'[u].id
        BY <3>1, <3>2, <4>4 DEF Hands, FreshIds
      <4>6. \A u \in Threads : pc'[u] = "delay" =>
              /\ arg'[u].kind = "register" /\ arg'[u].id < next_id'
              /\ arg'[u].id \notin in_wait' \cup in_process'
              /\ \A v \in Threads : pc'[v] = "delay" /\ arg'[v].id = arg'[u].id => v = u
        BY <3>1, <4>4 DEF Hands, FreshIds
      <4> QED
        BY <4>2, <4>3, <4>5, <4>6 DEF FreshIds
    <3> QED
      BY <3>4, <3>5 DEF Hands
  <2>2. CASE id \notin in_wait
    BY <1>0, <1>7, <2>2 DEF PopDelayed, activeVars, idVars
  <2> QED
    BY <2>1, <2>2
<1>8. CASE TestPredicate(w)
  BY <1>0, <1>8 DEF TestPredicate, activeVars, idVars
<1>9. CASE Block(w)
  BY <1>0, <1>9 DEF Block, activeVars, idVars
<1>10. CASE Notified(w)
  BY <1>0, <1>10 DEF Notified, activeVars, idVars
<1>11. CASE TimesOut(w)
  BY <1>0, <1>11 DEF TimesOut, activeVars, idVars
<1>12. CASE CancelSeen(w)
  BY <1>0, <1>12 DEF CancelSeen, Obtain, activeVars, idVars
<1>13. CASE NotCancelled(w)
  BY <1>0, <1>13 DEF NotCancelled, activeVars, idVars
<1>14. CASE TakeInstead(w)
  <2>1. /\ in_wait' = in_wait \cup {cur[w]} /\ in_process' = in_process \ {cur[w]}
        /\ Holds(w) /\ ~(Holds(w))' /\ pc'[w] # "delay"
        /\ Others /\ UNCHANGED <<next_id, arg>>
    BY <1>14 DEF TakeInstead, PutBack, ToWaitMap, Obtain, idVars
  <2>2. \A v \in Workers : v # w => (Holds(v))' = Holds(v) /\ cur'[v] = cur[v]
    BY <2>1 DEF Threads
  <2> HIDE DEF Holds, HasTask, Timed, Goto, TypeOK, Leaves
  <2>3. \A v \in Workers : v # w /\ Holds(v) => cur[v] # cur[w]
    BY <2>1 DEF Hands, Custody
  <2>4. Custody'
    <3>1. in_wait' \cap in_process' = {}
      BY <2>1 DEF Hands, Custody
    <3>2. \A v \in Workers : (Holds(v))' => cur'[v] \notin in_wait'
      BY <2>1, <2>2, <2>3 DEF Hands, Custody
    <3>3. \A i \in in_process' : \E v \in Workers : (Holds(v))' /\ cur'[v] = i
      <4>1. ASSUME NEW i \in in_process, i # cur[w]
            PROVE  \E v \in Workers : (Holds(v))' /\ cur'[v] = i
        <5>1. PICK v \in Workers : Holds(v) /\ cur[v] = i
          BY DEF Hands, Custody
        <5> QED
          BY <2>2, <4>1, <5>1
      <4> QED
        BY <2>1, <4>1
    <3>4. \A v, x \in Workers : (Holds(v))' /\ (Holds(x))' /\ cur'[v] = cur'[x] => v = x
      BY <2>1, <2>2 DEF Hands, Custody
    <3> QED
      BY <3>1, <3>2, <3>3, <3>4 DEF Custody
  <2>5. \A u \in Threads : pc'[u] = "delay" => pc[u] = "delay" /\ arg[u].id # cur[w]
    BY <2>1 DEF Hands, FreshIds
  <2>6. cur[w] \in 1 .. next_id - 1
    BY <2>1 DEF Hands, FreshIds
  <2>7. FreshIds'
    <3>1. \A i \in in_wait' \cup in_process' : i < next_id'
      BY <2>1, <2>6, BoundsAssumption DEF Hands, FreshIds, TypeOK
    <3>2. \A v \in Workers : (Holds(v))' => cur'[v] \in 1 .. next_id' - 1
      BY <2>1, <2>2 DEF Hands, FreshIds
    <3>3. \A u \in Threads : pc'[u] = "delay" => \A v \in Workers : (Holds(v))' => cur'[v] # arg'[u].id
      BY <2>1, <2>2, <2>5 DEF Hands, FreshIds
    <3>4. \A u \in Threads : pc'[u] = "delay" =>
            /\ arg'[u].kind = "register" /\ arg'[u].id < next_id'
            /\ arg'[u].id \notin in_wait' \cup in_process'
            /\ \A v \in Threads : pc'[v] = "delay" /\ arg'[v].id = arg'[u].id => v = u
      BY <2>1, <2>5 DEF Hands, FreshIds
    <3> QED
      BY <3>1, <3>2, <3>3, <3>4 DEF FreshIds
  <2> QED
    BY <2>4, <2>7 DEF Hands
<1>15. CASE Fire(w)
  BY <1>0, <1>15 DEF Fire, Obtain, idVars
<1> QED
  BY <1>1, <1>2, <1>3, <1>4, <1>5, <1>6, <1>7, <1>8, <1>9, <1>10, <1>11, <1>12,
     <1>13, <1>14, <1>15 DEF Serve

-----------------------------------------------------------------------------
\* Every step preserves the invariant.
LEMMA NextInductive == Inductive /\ [Next]_vars => Inductive'
<1> SUFFICES ASSUME Inductive, [Next]_vars PROVE Inductive'
  OBVIOUS
<1>0. TypeOK /\ LockParts /\ Hands
  BY DEF Inductive, LockParts, Hands
<1> SUFFICES TypeOK' /\ LockParts' /\ Hands'
  BY DEF Inductive, LockParts, Hands
<1>1. ASSUME NEW t \in Threads, Call(t) PROVE TypeOK' /\ LockParts' /\ Hands'
  BY <1>0, <1>1, CallTypes, CallAside, AsideLock, CallHands
<1>2. ASSUME NEW t \in Threads, Continue(t) PROVE TypeOK' /\ LockParts' /\ Hands'
  BY <1>0, <1>2, ContinueTypes, ContinueAside, AsideLock, ContinueHands DEF Hands
<1>3. ASSUME NEW w \in Workers, Serve(w) PROVE TypeOK' /\ LockParts' /\ Hands'
  BY <1>0, <1>3, ServeTypes, ServeLock, ServeHands DEF Hands, LockParts
<1>4. ASSUME NEW w \in Workers, Run(w) PROVE TypeOK' /\ LockParts' /\ Hands'
  <2>1. TypeOK'
    BY <1>0, <1>4, BoundsAssumption
       DEF TypeOK, Run, Goto, PCs, Threads, queueVars, activeVars, idVars, historyVars
  <2>2. LockParts'
    BY <1>0, <1>4, ThreadsAssumption
       DEF LockParts, MutualExclusion, Counted, FirstWaits, Run, Goto, InWaitNext, Inside, Timed,
           TypeOK, Threads, queueVars
  <2>3. Hands'
    BY <1>0, <1>4
       DEF Hands, Custody, FreshIds, Holds, HasTask, Timed, Run, Goto, TypeOK, Threads,
           activeVars, idVars
  <2> QED
    BY <2>1, <2>2, <2>3
<1>5. ASSUME NEW w \in Workers, SpuriousWake(w) PROVE TypeOK' /\ LockParts' /\ Hands'
  BY <1>0, <1>5
     DEF TypeOK, LockParts, MutualExclusion, Counted, FirstWaits, Hands, Custody, FreshIds, Holds,
         SpuriousWake, activeVars, idVars, threadVars, historyVars
<1>6. CASE Tick
  BY <1>0, <1>6
     DEF TypeOK, LockParts, MutualExclusion, Counted, FirstWaits, Hands, Custody, FreshIds, Holds,
         Tick, queueVars, activeVars, idVars, threadVars, historyVars
<1>7. CASE UNCHANGED vars
  BY <1>0, <1>7
     DEF TypeOK, LockParts, MutualExclusion, Counted, FirstWaits, Hands, Custody, FreshIds, Holds,
         vars, queueVars, activeVars, idVars, threadVars, historyVars
<1> QED
  BY <1>1, <1>2, <1>3, <1>4, <1>5, <1>6, <1>7 DEF Next

\* The invariant holds in every state of every behaviour.
THEOREM InductiveHolds == Spec => []Inductive
BY InitInductive, NextInductive, PTL DEF Spec

\* The variables keep their types: in particular run(n) never counts below
\* zero, and every closure that is queued, posted or executed is one the queue
\* made.
THEOREM TypesHold == Spec => []TypeOK
<1>1. Inductive => TypeOK
  BY DEF Inductive
<1> QED
  BY <1>1, InductiveHolds, PTL

\* For any number of workers and clients, a worker is inside wait_next with the
\* lock exactly when it owns work_lock_.
THEOREM LockExcludes == Spec => []MutualExclusion
<1>1. Inductive => MutualExclusion
  BY DEF Inductive
<1> QED
  BY <1>1, InductiveHolds, PTL

\* For any number of threads and tasks, the comment at base.h:581-590 is true:
\* no thread holds a task of the wait map, and exactly one holds each task of
\* the process set.
THEOREM CustodyHolds == Spec => []Custody
<1>1. Inductive => Custody
  BY DEF Inductive
<1> QED
  BY <1>1, InductiveHolds, PTL

-----------------------------------------------------------------------------
(***************************************************************************)
(* No handler is chosen to run before its time in a queue that is enabled. *)
(* A worker inside wait_next has nothing to execute yet; the delayed calls *)
(* in the queue are all withdrawals; and a worker about to return its task *)
(* early has a reason, which nobody can take away while it has the lock.   *)
(***************************************************************************)
WaitsEmptyHanded == \A w \in Workers : pc[w] \in InWaitNext => todo[w] = <<>>

Withdrawal(task) == task.kind = "delayed" => task.flag = TRUE
OnlyWithdrawals ==
    /\ \A i \in DOMAIN task_queue : Withdrawal(task_queue[i])
    /\ \A t \in Threads : Withdrawal(arg[t])

Early(w) == now < expires[cur[w]]
Reasons ==
    \A w \in Workers : Early(w) =>
        /\ pc[w] = "notified" => Predicate(w)
        /\ pc[w] = "fire" => ~enabled \/ cur[w] \notin in_process
        /\ pc[w] # "timedout"

InTime == WaitsEmptyHanded /\ OnlyWithdrawals /\ Reasons

\* What the constructors of closures say of withdrawals.
LEMMA WithdrawalKinds ==
    /\ Withdrawal(NoTask)
    /\ \A n : Withdrawal(Regular(n)) /\ Withdrawal(Register(n)) /\ Withdrawal(StopTask(n))
    /\ \A id : Withdrawal(Delayed(id, TRUE)) /\ ~Withdrawal(Delayed(id, FALSE))
BY DEF Withdrawal, NoTask, Regular, Register, StopTask, Delayed

\* Nothing is due in a new queue.
LEMMA InitInTime == Init => InTime
<1> SUFFICES ASSUME Init PROVE InTime
  OBVIOUS
<1>1. WaitsEmptyHanded /\ Reasons
  BY DEF Init, WaitsEmptyHanded, Reasons, InWaitNext, Inside, Timed, Threads
<1>2. OnlyWithdrawals
  BY WithdrawalKinds DEF Init, OnlyWithdrawals
<1> QED
  BY <1>1, <1>2 DEF InTime

\* A thread that is not inside wait_next hands nothing to one that is, and takes
\* no task back into the process set.
LEMMA AsideHands ==
    ASSUME TypeOK, NEW t \in Threads, Call(t) \/ Continue(t)
    PROVE  /\ \A u \in Threads : u # t => todo'[u] = todo[u]
           /\ in_process' \subseteq in_process /\ now' = now
           /\ ~LockFree => enabled' = enabled
BY DEF Call, Continue, PostTask, PostDelayed, Reset, Destroy, PostStop, Stop, StopQueue,
       CancelWaiting, CancelInProcess, CheckActive, Push, CancelAll, Activate, ExecRegular,
       ExecDelayed, ExecRegister, ExecStop, Return, EnterBody, SwapInWait, CallEach, ToWaitMap,
       queueVars, activeVars, threadVars, TypeOK

\* Only a task that no worker holds yet gets its time.
LEMMA TimesKept ==
    ASSUME TypeOK, Hands, NEW t \in Threads, Call(t) \/ Continue(t), NEW w \in Workers, Holds(w)
    PROVE  expires'[cur[w]] = expires[cur[w]]
<1>1. CASE \E dur \in Durations : Activate(t, dur)
  BY <1>1 DEF Activate, Hands, FreshIds, TypeOK
<1>2. CASE ~\E dur \in Durations : Activate(t, dur)
  BY <1>2 DEF Call, Continue, PostTask, PostDelayed, Reset, Destroy, PostStop, Stop, CancelWaiting,
       CancelInProcess, CheckActive, Push, CancelAll, ExecRegular, ExecDelayed, ExecRegister,
       ExecStop, Return, idVars
<1> QED
  BY <1>1, <1>2

\* The calls that are posted are withdrawals.
LEMMA AsideWithdrawals ==
    ASSUME TypeOK, OnlyWithdrawals, NEW t \in Threads, Call(t) \/ Continue(t)
    PROVE  OnlyWithdrawals'
<1> DEFINE Posts(task) == /\ UNCHANGED task_queue
                          /\ arg' = [arg EXCEPT ![t] = task]
<1>1. ASSUME NEW task, Withdrawal(task), Posts(task) PROVE OnlyWithdrawals'
  BY <1>1 DEF OnlyWithdrawals, TypeOK
<1>2. ASSUME UNCHANGED arg, UNCHANGED task_queue \/ task_queue' = <<>> PROVE OnlyWithdrawals'
  BY <1>2 DEF OnlyWithdrawals
<1>3. CASE PostTask(t)
  BY <1>1, <1>3, WithdrawalKinds DEF PostTask, BeginPost, queueVars
<1>4. CASE \E waitRegular \in StopModes : PostStop(t, waitRegular)
  BY <1>1, <1>4, WithdrawalKinds DEF PostStop, BeginPost, queueVars
<1>5. CASE PostDelayed(t)
  BY <1>1, <1>5, WithdrawalKinds DEF PostDelayed, queueVars
<1>6. CASE \E id \in DelayedIds : CancelWaiting(t, id)
  BY <1>1, <1>6, WithdrawalKinds DEF CancelWaiting, BeginPost, queueVars
<1>7. CASE CheckActive(t)
  BY <1>1, <1>2, <1>7, WithdrawalKinds DEF CheckActive, queueVars
<1>8. CASE Push(t)
  <2>1. /\ task_queue' = Append(task_queue, arg[t]) /\ arg' = [arg EXCEPT ![t] = NoTask]
        /\ task_queue \in Seq(Task) /\ arg[t] \in Task
    BY <1>8 DEF Push, Enqueue, TypeOK
  <2>2. /\ Len(task_queue) \in Nat /\ DOMAIN task_queue = 1 .. Len(task_queue)
        /\ DOMAIN task_queue' = 1 .. Len(task_queue) + 1
        /\ \A i \in DOMAIN task_queue' :
              task_queue'[i] = IF i = Len(task_queue) + 1 THEN arg[t] ELSE task_queue[i]
    BY <2>1, AppendProperties, LenProperties
  <2>3. \A i \in DOMAIN task_queue' : Withdrawal(task_queue'[i])
    BY <2>2 DEF OnlyWithdrawals
  <2> QED
    BY <2>1, <2>3, WithdrawalKinds DEF OnlyWithdrawals, TypeOK
<1>9. CASE \/ Reset(t) \/ Destroy(t) \/ \E waitRegular \in StopModes : Stop(t, waitRegular)
           \/ \E id \in DelayedIds : CancelInProcess(t, id)
  BY <1>2, <1>9 DEF Reset, Destroy, Stop, StopQueue, CancelInProcess, queueVars, threadVars
<1>10. CASE \/ CancelAll(t) \/ \E dur \in Durations : Activate(t, dur)
            \/ ExecRegular(t) \/ ExecDelayed(t) \/ ExecRegister(t) \/ ExecStop(t) \/ Return(t)
  BY <1>2, <1>10 DEF CancelAll, Activate, ExecRegular, ExecDelayed, ExecRegister, ExecStop,
       StopQueue, Return, queueVars
<1> QED
  BY <1>3, <1>4, <1>5, <1>6, <1>7, <1>8, <1>9, <1>10 DEF Call, Continue

\* A step aside of wait_next gives no worker a task before its time.
LEMMA AsideInTime ==
    ASSUME TypeOK, LockParts, Hands, InTime, NEW t \in Threads, Call(t) \/ Continue(t)
    PROVE  InTime'
<1>1. Aside(t)
  BY CallAside, ContinueAside
<1>2. WaitsEmptyHanded'
  BY <1>1, AsideHands DEF Aside, InTime, WaitsEmptyHanded, Threads
<1>3. OnlyWithdrawals'
  BY AsideWithdrawals DEF InTime
<1>4. ASSUME NEW w \in Workers, pc'[w] \in {"notified", "timedout", "fire"}
      PROVE  /\ pc[w] = pc'[w] /\ cur'[w] = cur[w] /\ Early(w)' = Early(w)
             /\ UNCHANGED <<task_queue, enabled>> /\ in_process' \subseteq in_process
  <2>1. pc[w] = pc'[w] /\ cur'[w] = cur[w]
    BY <1>1, <1>4 DEF Aside, InWaitNext, Inside, Timed, Threads
  <2>2. ~LockFree /\ Holds(w)
    BY <1>4, <2>1, ThreadsAssumption
       DEF LockParts, MutualExclusion, Inside, Timed, LockFree, Holds, HasTask, Threads
  <2> QED
    BY <2>1, <2>2, AsideHands, QueueLocked, TimesKept DEF Early
<1>5. Reasons'
  BY <1>4 DEF InTime, Reasons, Predicate
<1> QED
  BY <1>2, <1>3, <1>5 DEF InTime

\* While a worker is inside wait_next, another can do no more than leave run().
LEMMA ServesAlone ==
    ASSUME TypeOK, LockParts, NEW w \in Workers, NEW u \in Workers, u # w, pc[u] \in Inside, Serve(w)
    PROVE  RunReturns(w)
<1>1. ~LockFree /\ pc[w] \notin Inside
  BY ThreadsAssumption DEF LockParts, MutualExclusion, LockFree, Threads
<1> QED
  BY <1>1 DEF Serve, WaitNext, Disabled, Idle, IdleWakes, TakeRegular, PopDelayed, TestPredicate,
       Block, Notified, TimesOut, CancelSeen, NotCancelled, TakeInstead, Fire, Inside, Timed

\* What the worker itself does with its reasons.
LEMMA ServeReason ==
    ASSUME TypeOK, LockParts, InTime, NEW w \in Workers, Serve(w), Early(w)'
    PROVE  /\ pc'[w] = "notified" => Predicate(w)'
           /\ pc'[w] = "fire" => ~enabled' \/ cur'[w] \notin in_process'
           /\ pc'[w] # "timedout"
<1> USE DEF Early, Predicate, Goto, TypeOK, Threads
<1>1. CASE RunReturns(w)
  BY <1>1 DEF RunReturns
<1>2. CASE WaitNext(w)
  BY <1>2 DEF WaitNext
<1>3. CASE Disabled(w)
  BY <1>3 DEF Disabled
<1>4. CASE Idle(w)
  BY <1>4 DEF Idle
<1>5. CASE IdleWakes(w)
  BY <1>5 DEF IdleWakes
<1>6. CASE TakeRegular(w)
  BY <1>6 DEF TakeRegular, Obtain
<1>7. ASSUME NEW id \in DelayedIds, PopDelayed(w, id)
      PROVE  /\ pc'[w] = "notified" => Predicate(w)'
             /\ pc'[w] = "fire" => ~enabled' \/ cur'[w] \notin in_process'
             /\ pc'[w] # "timedout"
  <2>1. CASE id \in in_wait
    BY <1>7, <2>1 DEF PopDelayed, idVars
  <2>2. CASE id \notin in_wait
    BY <1>7, <2>2 DEF PopDelayed, activeVars
  <2> QED
    BY <2>1, <2>2
<1>8. CASE TestPredicate(w)
  BY <1>8 DEF TestPredicate, queueVars, activeVars
<1>9. CASE Block(w)
  BY <1>9 DEF Block
<1>10. CASE Notified(w)
  BY <1>10 DEF Notified
<1>11. CASE TimesOut(w)
  BY <1>11 DEF TimesOut, activeVars, idVars
<1>12. CASE CancelSeen(w)
  BY <1>12 DEF CancelSeen, Obtain
<1>13. CASE NotCancelled(w)
  <2>1. /\ pc[w] \in {"notified", "timedout"} /\ cur[w] \in in_process
        /\ pc'[w] = IF RegularFirst(w) THEN "take" ELSE "fire"
        /\ UNCHANGED <<enabled, in_process, cur, now, expires>>
    BY <1>13 DEF NotCancelled, queueVars, activeVars, idVars
  <2>2. pc[w] = "notified" /\ Predicate(w)
    BY <2>1 DEF InTime, Reasons
  <2>3. task_queue = <<>> => ~enabled
    BY <2>1, <2>2
  <2> QED
    BY <2>1, <2>2, <2>3 DEF RegularFirst
<1>14. CASE TakeInstead(w)
  BY <1>14 DEF TakeInstead, Obtain
<1>15. CASE Fire(w)
  BY <1>15 DEF Fire, Obtain
<1> QED
  BY <1>1, <1>2, <1>3, <1>4, <1>5, <1>6, <1>7, <1>8, <1>9, <1>10, <1>11, <1>12,
     <1>13, <1>14, <1>15 DEF Serve

\* A worker that serves changes what it has to execute alone, and only by
\* coming out of wait_next.
LEMMA ServeHanded ==
    ASSUME TypeOK, LockParts, NEW w \in Workers, Serve(w)
    PROVE  /\ \A u \in Threads : u # w => todo'[u] = todo[u] /\ pc'[u] = pc[u]
           /\ pc'[w] \in InWaitNext =>
                 UNCHANGED todo /\ (pc[w] \in InWaitNext \/ todo[w] = <<>>)
           /\ UNCHANGED arg
           /\ task_queue' = task_queue \/ (task_queue # <<>> /\ task_queue' = Tail(task_queue))
<1> DEFINE Others == \A u \in Threads : u # w => todo'[u] = todo[u] /\ pc'[u] = pc[u]
<1>1. CASE Fire(w) \/ CancelSeen(w)
  <2>1. Others /\ pc'[w] = "exec" /\ UNCHANGED <<arg, task_queue>>
    BY <1>1 DEF Fire, CancelSeen, Obtain, Goto, TypeOK, Threads
  <2> QED
    BY <2>1 DEF InWaitNext, Inside, Timed
<1>2. CASE TakeInstead(w) \/ TakeRegular(w)
  <2>1. Others /\ pc'[w] = "exec" /\ UNCHANGED arg
        /\ task_queue # <<>> /\ task_queue' = Tail(task_queue)
    BY <1>2 DEF TakeInstead, TakeRegular, Obtain, Goto, LockParts, FirstWaits, TypeOK, Threads
  <2> QED
    BY <2>1 DEF InWaitNext, Inside, Timed
<1>3. CASE WaitNext(w) \/ RunReturns(w)
  BY <1>3 DEF WaitNext, RunReturns, Looping, Goto, queueVars, TypeOK, Threads
<1>4. CASE \/ Disabled(w) \/ Idle(w) \/ IdleWakes(w) \/ \E id \in DelayedIds : PopDelayed(w, id)
  BY <1>4 DEF Disabled, Idle, IdleWakes, PopDelayed, Goto, InWaitNext, Inside, Timed, TypeOK, Threads
<1>5. CASE \/ TestPredicate(w) \/ Block(w) \/ Notified(w) \/ TimesOut(w) \/ NotCancelled(w)
  BY <1>5 DEF TestPredicate, Block, Notified, TimesOut, NotCancelled, Goto, InWaitNext, Inside,
       Timed, queueVars, TypeOK, Threads
<1> QED
  BY <1>1, <1>2, <1>3, <1>4, <1>5 DEF Serve

\* Nor does a step of run().
LEMMA ServeInTime ==
    ASSUME TypeOK, LockParts, InTime, NEW w \in Workers, Serve(w)
    PROVE  InTime'
<1>1. WaitsEmptyHanded'
  BY ServeHanded DEF InTime, WaitsEmptyHanded, Threads
<1>2. OnlyWithdrawals'
  <2>1. CASE task_queue' = task_queue
    BY <2>1, ServeHanded DEF InTime, OnlyWithdrawals
  <2>2. CASE task_queue # <<>> /\ task_queue' = Tail(task_queue)
    <3>1. \A i \in DOMAIN task_queue' : i + 1 \in DOMAIN task_queue /\ task_queue'[i] = task_queue[i + 1]
      BY <2>2 DEF TypeOK
    <3> QED
      BY <3>1, ServeHanded DEF InTime, OnlyWithdrawals
  <2> QED
    BY <2>1, <2>2, ServeHanded
<1>3. ASSUME NEW u \in Workers, u # w, pc'[u] \in {"notified", "timedout", "fire"}, Early(u)'
      PROVE  /\ pc'[u] = "notified" => Predicate(u)'
             /\ pc'[u] = "fire" => ~enabled' \/ cur'[u] \notin in_process'
             /\ pc'[u] # "timedout"
  <2>1. pc[u] = pc'[u] /\ pc[u] \in Inside
    BY <1>3, ServeHanded DEF Inside, Timed, Threads
  <2>2. UNCHANGED <<enabled, task_queue, in_process, cur, now, expires>>
    BY <1>3, <2>1, ServesAlone DEF RunReturns, queueVars, activeVars, idVars
  <2> QED
    BY <1>3, <2>1, <2>2 DEF InTime, Reasons, Early, Predicate
<1>4. Reasons'
  BY <1>3, ServeReason DEF Reasons
<1> QED
  BY <1>1, <1>2, <1>4 DEF InTime

\* Nor does any step.
LEMMA NextInTime == Inductive /\ InTime /\ [Next]_vars => InTime'
<1> SUFFICES ASSUME Inductive, InTime, [Next]_vars PROVE InTime'
  OBVIOUS
<1>0. TypeOK /\ LockParts /\ Hands
  BY DEF Inductive, LockParts, Hands
<1>1. ASSUME NEW t \in Threads, Call(t) \/ Continue(t) PROVE InTime'
  BY <1>0, <1>1, AsideInTime
<1>2. ASSUME NEW w \in Workers, Serve(w) PROVE InTime'
  BY <1>0, <1>2, ServeInTime
<1> USE DEF InTime, WaitsEmptyHanded, OnlyWithdrawals, Reasons, Early, Predicate
<1>3. ASSUME NEW w \in Workers, Run(w) PROVE InTime'
  BY <1>0, <1>3 DEF Run, Goto, InWaitNext, Inside, Timed, Threads, TypeOK, queueVars, activeVars, idVars
<1>4. ASSUME NEW w \in Workers, SpuriousWake(w) PROVE InTime'
  BY <1>4 DEF SpuriousWake, activeVars, idVars, threadVars
<1>5. CASE Tick
  <2>1. /\ now' = now + 1 /\ UNCHANGED <<pc, todo, arg, cur, enabled, task_queue, in_process, expires>>
    BY <1>5 DEF Tick, queueVars, activeVars, idVars, threadVars
  <2>2. ASSUME NEW w \in Workers, Holds(w), Early(w)' PROVE Early(w)
    <3>1. cur[w] \in DelayedIds
      BY <1>0, <2>2, BoundsAssumption DEF Hands, FreshIds, DelayedIds, TypeOK
    <3> QED
      BY <1>0, <2>1, <2>2, <3>1 DEF TypeOK
  <2>3. Reasons'
    BY <2>1, <2>2 DEF Holds, HasTask, Timed
  <2> QED
    BY <2>1, <2>3
<1>6. CASE UNCHANGED vars
  BY <1>6 DEF vars, queueVars, activeVars, idVars, threadVars
<1> QED
  BY <1>1, <1>2, <1>3, <1>4, <1>5, <1>6 DEF Next

\* In every behaviour.
THEOREM InTimeHolds == Spec => []InTime
BY InitInTime, InductiveHolds, NextInTime, PTL DEF Spec

\* For any number of threads and tasks, a handler is called before its time, and
\* not as cancelled, only when the queue is disabled at the moment it is chosen
\* (wait_next, base.h:556-566).
THEOREM NeverEarly == Spec => EarlyOnlyWhenStopped
<1> DEFINE Chosen(w) == Holds(w) /\ todo'[w] = <<Delayed(cur[w], FALSE)>> /\ now < expires[cur[w]]
           InTimeStep == \A w \in Workers : Chosen(w) => ~enabled
<1>1. ASSUME Inductive, InTime, [Next]_vars PROVE [InTimeStep]_vars
  <2> SUFFICES ASSUME NEW w \in Workers, Next, Chosen(w) PROVE ~enabled
    BY <1>1
  <2>0. TypeOK /\ LockParts /\ Hands
    BY <1>1 DEF Inductive, LockParts, Hands
  <2>c. \A task : todo'[w] = <<task>> => task = Delayed(cur[w], FALSE)
    <3>1. \A a, b : <<a>> = <<b>> => a = b
      OBVIOUS
    <3> QED
      BY <3>1
  <2>1. todo[w] = <<>> /\ pc[w] \in InWaitNext
    BY <1>1 DEF InTime, WaitsEmptyHanded, Holds, HasTask, InWaitNext, Inside
  <2>2. todo'[w] # todo[w]
    BY <2>1
  <2>3. ASSUME NEW t \in Threads, Call(t) \/ Continue(t) PROVE FALSE
    BY <2>0, <2>1, <2>2, <2>3, AsideHands, CallAside, ContinueAside DEF Aside, Threads
  <2>4. CASE Tick \/ \E v \in Workers : Run(v) \/ SpuriousWake(v)
    BY <2>2, <2>4 DEF Tick, Run, SpuriousWake, threadVars
  <2>5. ASSUME NEW v \in Workers, Serve(v) PROVE ~enabled
    <3>1. v = w
      BY <2>0, <2>2, <2>5, ServeHanded DEF Threads
    <3>2. CASE Fire(w)
      <4>1. pc[w] = "fire" /\ todo'[w] = <<Delayed(cur[w], cur[w] \notin in_process)>>
        BY <2>0, <3>2 DEF Fire, Obtain, Cancelled, TypeOK, Threads
      <4>2. Delayed(cur[w], cur[w] \notin in_process) = Delayed(cur[w], FALSE)
        BY <2>c, <4>1
      <4>3. cur[w] \in in_process
        BY <4>2 DEF Delayed
      <4> QED
        BY <1>1, <4>1, <4>3 DEF InTime, Reasons, Early
    <3>3. CASE TakeInstead(w)
      <4>1. /\ task_queue # <<>>
            /\ todo'[w] = <<Head(task_queue)>>
        BY <2>0, <3>3 DEF TakeInstead, Obtain, LockParts, FirstWaits, TypeOK, Threads
      <4>2. Head(task_queue) = task_queue[1] /\ 1 \in DOMAIN task_queue
        BY <2>0, <4>1 DEF TypeOK
      <4>3. Delayed(cur[w], FALSE) = task_queue[1]
        BY <2>c, <4>1, <4>2
      <4> QED
        BY <1>1, <4>2, <4>3, WithdrawalKinds DEF InTime, OnlyWithdrawals
    <3>4. CASE CancelSeen(w)
      <4>1. todo'[w] = <<Delayed(cur[w], TRUE)>>
        BY <2>0, <3>4 DEF CancelSeen, Obtain, TypeOK, Threads
      <4>2. Delayed(cur[w], TRUE) = Delayed(cur[w], FALSE)
        BY <2>c, <4>1
      <4> QED
        BY <4>2, WithdrawalKinds
    <3>5. CASE TakeRegular(w)
      BY <3>5 DEF TakeRegular, Holds, HasTask, Timed
    <3>6. CASE ~(Fire(w) \/ TakeInstead(w) \/ CancelSeen(w) \/ TakeRegular(w))
      BY <2>2, <2>5, <3>1, <3>6
         DEF Serve, RunReturns, WaitNext, Disabled, Idle, IdleWakes, PopDelayed, TestPredicate,
             Block, Notified, TimesOut, NotCancelled
    <3> QED
      BY <3>2, <3>3, <3>4, <3>5, <3>6
  <2> QED
    BY <2>3, <2>4, <2>5 DEF Next
<1>2. Spec => []Inductive /\ []InTime /\ [][Next]_vars
  BY InductiveHolds, InTimeHolds DEF Spec
<1> QED
  BY <1>1, <1>2, PTL DEF EarlyOnlyWhenStopped

-----------------------------------------------------------------------------
(***************************************************************************)
(* No wakeup is lost, as long as nobody leaves run() because it has run    *)
(* its number of tasks: a worker may then only leave a queue that is       *)
(* disabled, in which nobody sleeps, and goes to sleep only in one that is *)
(* empty.                                                                  *)
(***************************************************************************)
Wakeful ==
    /\ \A w \in waiting : pc[w] \in {"idle", "sleep"}
    /\ ~enabled => waiting = {}
    /\ \A w \in Workers : pc[w] = "block" => enabled /\ task_queue = <<>>
    /\ NoLostWakeup

\* Threads aside of wait_next leave the sleepers asleep, or wake them.
LEMMA AsideWakeful ==
    ASSUME TypeOK, LockParts, Wakeful, NEW t \in Threads, Call(t) \/ Continue(t)
    PROVE  Wakeful'
<1>0. Aside(t) /\ waiting \subseteq Workers
  BY CallAside, ContinueAside DEF TypeOK
<1>1. \A w \in Workers : pc'[w] \in InWaitNext \/ pc[w] \in InWaitNext => pc'[w] = pc[w]
  BY <1>0 DEF Aside, Threads
<1>2. \A w \in Workers : pc'[w] = "block" => pc[w] = "block" /\ ~LockFree
  BY <1>1, ThreadsAssumption DEF LockParts, MutualExclusion, InWaitNext, Inside, Timed, LockFree, Threads
<1>3. \A w \in Workers : pc'[w] = "block" => enabled' /\ task_queue' = <<>>
  BY <1>2, AsideHands, QueueLocked DEF Wakeful
<1>4. \A w \in waiting : pc'[w] \in {"idle", "sleep"}
  BY <1>0, <1>1 DEF Wakeful, InWaitNext
<1>5. waiting' \subseteq waiting
  BY DEF Call, Continue, PostTask, PostDelayed, Reset, Destroy, PostStop, Stop, StopQueue,
       CancelWaiting, CancelInProcess, CheckActive, Push, CancelAll, Activate, ExecRegular,
       ExecDelayed, ExecRegister, ExecStop, Return, NotifyOne, NotifyAll, queueVars
<1>6. ~enabled' => waiting' = {}
  <2>1. enabled' = enabled \/ waiting' = {} \/ enabled'
    BY DEF Call, Continue, PostTask, PostDelayed, Reset, Destroy, PostStop, Stop, StopQueue,
       CancelWaiting, CancelInProcess, CheckActive, Push, CancelAll, Activate, ExecRegular,
       ExecDelayed, ExecRegister, ExecStop, Return, NotifyAll, queueVars
  <2> QED
    BY <1>5, <2>1 DEF Wakeful
<1>7. ASSUME task_queue' # <<>>, waiting' # {}
      PROVE  \E w \in Workers : pc'[w] # "done" /\ w \notin waiting'
  <2>1. CASE waiting' # waiting
    <3>1. PICK w \in waiting : w \notin waiting'
      BY <1>5, <2>1
    <3> QED
      BY <1>0, <1>4, <3>1
  <2>2. CASE waiting' = waiting /\ ~Push(t)
    <3>1. task_queue' = task_queue
      BY <1>7, <2>2 DEF Call, Continue, PostTask, PostDelayed, Reset, Destroy, PostStop, Stop, StopQueue,
       CancelWaiting, CancelInProcess, CheckActive, CancelAll, Activate, ExecRegular,
       ExecDelayed, ExecRegister, ExecStop, Return, NotifyAll, queueVars
    <3>2. PICK w \in Workers : pc[w] # "done" /\ w \notin waiting
      BY <1>7, <2>2, <3>1 DEF Wakeful, NoLostWakeup
    <3>3. pc'[w] # "done"
      <4>1. w # t => pc'[w] = pc[w]
        BY <1>0 DEF Aside, Threads
      <4>2. pc'[t] = pc[t] \/ pc'[t] \in {"post", "push", "exec", "delay", "cancel_all"}
        BY DEF Call, Continue, PostTask, PostDelayed, Reset, Destroy, PostStop, Stop, StopQueue,
       CancelWaiting, CancelInProcess, CheckActive, Push, CancelAll, Activate, ExecRegular,
       ExecDelayed, ExecRegister, ExecStop, Return, BeginPost, Goto, queueVars, threadVars, TypeOK
      <4> QED
        BY <3>2, <4>1, <4>2
    <3> QED
      BY <2>2, <3>2, <3>3
  <2>3. CASE waiting' = waiting /\ Push(t)
    BY <1>7, <2>3 DEF Push, NotifyOne
  <2> QED
    BY <2>1, <2>2, <2>3
<1> QED
  BY <1>3, <1>4, <1>5, <1>6, <1>7 DEF Wakeful, NoLostWakeup

\* Initially everybody is awake.
LEMMA InitWakeful == Init => Wakeful
BY ThreadsAssumption DEF Init, Wakeful, NoLostWakeup, Threads

\* A worker goes to sleep in an empty, enabled queue only, and leaves run() from
\* a disabled one only; any other step of wait_next leaves it awake.
LEMMA ServeWakeful ==
    ASSUME TypeOK, LockParts, Wakeful, Bounded = {}, NEW w \in Workers, Serve(w)
    PROVE  Wakeful'
<1>0. ~RunReturns(w)
  BY DEF RunReturns
<1>1. \A u \in Workers : u # w => pc'[u] = pc[u] /\ pc[u] # "block"
  BY <1>0, ServesAlone, ServeHanded DEF Inside, Timed, Threads
<1>2. enabled' = enabled /\ (task_queue = <<>> => task_queue' = <<>>)
  <2>1. enabled' = enabled
    BY DEF Serve, RunReturns, WaitNext, Disabled, Idle, IdleWakes, TakeRegular, PopDelayed,
         TestPredicate, Block, Notified, TimesOut, CancelSeen, NotCancelled, TakeInstead, Fire,
         queueVars
  <2> QED
    BY <2>1, ServeHanded
<1> DEFINE Sleeps == /\ pc'[w] \in {"idle", "sleep"} /\ waiting' = waiting \cup {w}
                     /\ enabled /\ task_queue = <<>>
           Leaves == pc'[w] = "done" /\ waiting' = waiting /\ ~enabled
           Looks  == /\ pc'[w] \notin {"done", "block"} /\ waiting' = waiting \ {w}
           Checks == pc'[w] = "block" /\ waiting' = waiting /\ w \notin waiting
                        /\ enabled /\ task_queue = <<>>
<1>3. Sleeps \/ Leaves \/ Looks \/ Checks
  <2> USE <1>0 DEF Goto, TypeOK, Threads, Wakeful
  <2>1. CASE WaitNext(w)
    BY <2>1 DEF WaitNext, Looping
  <2>2. CASE Disabled(w)
    BY <2>2 DEF Disabled
  <2>3. CASE Idle(w)
    BY <2>3 DEF Idle
  <2>4. CASE IdleWakes(w)
    BY <2>4 DEF IdleWakes
  <2>5. CASE TakeRegular(w)
    BY <2>5 DEF TakeRegular, Obtain
  <2>6. CASE \E id \in DelayedIds : PopDelayed(w, id)
    BY <2>6 DEF PopDelayed
  <2>7. CASE TestPredicate(w)
    BY <2>7 DEF TestPredicate, Predicate, queueVars
  <2>8. CASE Block(w)
    BY <2>8 DEF Block
  <2>9. CASE Notified(w)
    BY <2>9 DEF Notified
  <2>10. CASE TimesOut(w)
    BY <2>10 DEF TimesOut
  <2>11. CASE CancelSeen(w) \/ TakeInstead(w) \/ Fire(w)
    BY <2>11 DEF CancelSeen, TakeInstead, Fire, Obtain
  <2>12. CASE NotCancelled(w)
    BY <2>12 DEF NotCancelled, queueVars
  <2> QED
    BY <2>1, <2>2, <2>3, <2>4, <2>5, <2>6, <2>7, <2>8, <2>9, <2>10, <2>11, <2>12 DEF Serve
<1>4. waiting \subseteq Workers
  BY DEF TypeOK
<1>5. CASE Sleeps
  BY <1>1, <1>2, <1>4, <1>5 DEF Wakeful, NoLostWakeup
<1>6. CASE Leaves
  BY <1>1, <1>2, <1>4, <1>6 DEF Wakeful, NoLostWakeup
<1>7. CASE Looks
  BY <1>1, <1>2, <1>4, <1>7 DEF Wakeful, NoLostWakeup
<1>8. CASE Checks
  BY <1>1, <1>2, <1>4, <1>8 DEF Wakeful, NoLostWakeup
<1> QED
  BY <1>3, <1>5, <1>6, <1>7, <1>8

\* Every step.
LEMMA NextWakeful ==
    ASSUME Bounded = {}, Inductive, Wakeful, [Next]_vars
    PROVE  Wakeful'
<1>0. TypeOK /\ LockParts
  BY DEF Inductive, LockParts
<1>1. ASSUME NEW t \in Threads, Call(t) \/ Continue(t) PROVE Wakeful'
  BY <1>0, <1>1, AsideWakeful
<1>2. ASSUME NEW w \in Workers, Serve(w) PROVE Wakeful'
  BY <1>0, <1>2, ServeWakeful
<1>3. ASSUME NEW w \in Workers, Run(w) PROVE Wakeful'
  BY <1>0, <1>3 DEF Run, Goto, Wakeful, NoLostWakeup, TypeOK, Threads, queueVars
<1>4. ASSUME NEW w \in Workers, SpuriousWake(w) PROVE Wakeful'
  BY <1>0, <1>4 DEF SpuriousWake, Wakeful, NoLostWakeup, TypeOK, threadVars
<1>5. CASE Tick \/ UNCHANGED vars
  BY <1>5 DEF Tick, Wakeful, NoLostWakeup, vars, queueVars, threadVars
<1> QED
  BY <1>1, <1>2, <1>3, <1>4, <1>5 DEF Next

\* For any number of workers that call run() and any number of tasks: while a task
\* is in the queue and workers sleep, some thread inside run() is awake and will
\* look at the queue, whatever notify_one chose to wake.
THEOREM NoWakeupLost ==
    ASSUME Bounded = {}
    PROVE  Spec => []NoLostWakeup
<1>1. Init => Wakeful
  BY InitWakeful
<1>2. Inductive /\ Wakeful /\ [Next]_vars => Wakeful'
  BY NextWakeful
<1>3. Wakeful => NoLostWakeup
  BY DEF Wakeful
<1> QED
  BY <1>1, <1>2, <1>3, InductiveHolds, PTL DEF Spec

-----------------------------------------------------------------------------
(***************************************************************************)
(* One worker serves the delayed tasks in the order of their times, as     *)
(* long as no thread executes the queue's closures inside stop(): the heap *)
(* then grows only while the worker holds no task, and the time of a task  *)
(* in the heap is settled, since its id was entered in the map before.     *)
(***************************************************************************)
\* The ids post_delayed_task has drawn and entered in the map.
Entered == {id \in DelayedIds : /\ id < next_id
                                /\ \A u \in Threads : pc[u] = "delay" => arg[u].id # id}

\* Closures that register no id but those.
Registering(ids) == {task \in Task : task.kind = "register" => task.id \in ids}

\* What a client has to execute while stop() runs no task.
ClientTask == {task \in Task : task.kind \in {"body", "delayed"}}

\* The time of an id is settled before anything registers it in the heap.
Settled ==
    /\ delayed \subseteq Entered
    /\ task_queue \in Seq(Registering(Entered))
    /\ \A t \in Threads : /\ todo[t] \in Seq(Registering(Entered))
                          /\ pc[t] # "delay" => arg[t] \in Registering(Entered)

\* The thread inside stop() has only the calls of the map's handlers to make.
ClientsCall == \A c \in Clients : todo[c] \in Seq(ClientTask)

\* The task a worker holds is due before all of the heap.
HeldFirst == \A w \in Workers : Holds(w) => \A id \in delayed : expires[cur[w]] =< expires[id]

Punctual == Settled /\ ClientsCall /\ HeldFirst

\* What the constructors of closures put in their fields.
LEMMA ClosureKinds ==
    /\ NoTask.kind = "none" /\ Body.kind = "body"
    /\ \A n : Regular(n).kind = "regular" /\ Regular(n).id = n
    /\ \A id, flag : Delayed(id, flag).kind = "delayed" /\ Delayed(id, flag).id = id
                        /\ Delayed(id, flag).flag = flag
    /\ \A flag : StopTask(flag).kind = "stop" /\ StopTask(flag).flag = flag
BY DEF NoTask, Body, Regular, Delayed, StopTask

\* A sequence over a set is one over a larger set.
LEMMA SeqGrows == ASSUME NEW S, NEW T, S \subseteq T, NEW s \in Seq(S) PROVE s \in Seq(T)
<1>1. s \in [1 .. Len(s) -> S] /\ Len(s) \in Nat
  BY LenProperties, SeqDef
<1>2. s \in [1 .. Len(s) -> T]
  BY <1>1
<1> QED
  BY <1>1, <1>2, SeqDef

\* Every kind of closure but Register is harmless.
LEMMA RegisteringKinds ==
    ASSUME NEW ids
    PROVE  /\ NoTask \in Registering(ids) /\ Body \in Registering(ids)
           /\ \A n \in 1 .. MaxRegular : Regular(n) \in Registering(ids)
           /\ \A id \in DelayedIds : \A flag \in BOOLEAN : Delayed(id, flag) \in Registering(ids)
           /\ \A flag \in BOOLEAN : StopTask(flag) \in Registering(ids)
           /\ \A id \in DelayedIds : Register(id) \in Registering(ids) <=> id \in ids
BY ClosureKinds, RegisterKind, TaskTypes DEF Registering

\* The calls cancel_all_delayed_tasks makes are withdrawals, whatever else is
\* to be said of them.
LEMMA WithdrawnCalls ==
    ASSUME TypeOK, NEW t \in Threads, SwapInWait(t),
           NEW S, \A id \in DelayedIds : Delayed(id, TRUE) \in S, todo[t] \in Seq(S)
    PROVE  todo'[t] \in Seq(S)
<1>1. PICK s \in InOrder(in_wait) : CallEach(t, s, TRUE)
  BY DEF SwapInWait
<1>2. \A i \in DOMAIN s : s[i] \in DelayedIds
  BY DEF InOrder, TypeOK
<1> DEFINE c == [i \in DOMAIN s |-> Delayed(s[i], TRUE)]
<1>3. c \in Seq(Task)
  BY CancelCallsType DEF TypeOK
<1>4. DOMAIN c = 1 .. Len(c) /\ Len(c) \in Nat /\ DOMAIN c = DOMAIN s
  BY <1>3, LenProperties
<1>5. c \in [1 .. Len(c) -> S]
  <2>1. \A i \in DOMAIN s : c[i] \in S
    BY <1>2
  <2> QED
    BY <1>4, <2>1
<1>6. c \in Seq(S)
  BY <1>4, <1>5, SeqDef
<1>7. todo'[t] = c \o todo[t]
  BY <1>1 DEF CallEach, TypeOK
<1> HIDE DEF c
<1> QED
  BY <1>6, <1>7, ConcatProperties

\* What a thread has to execute after one of its steps: less, or a handler's
\* body, or withdrawals, or what it took from the queue inside stop().
LEMMA AsideTodo ==
    ASSUME TypeOK, NEW t \in Threads, Call(t) \/ Continue(t),
           NEW S, S \subseteq Task, Body \in S,
           \A id \in DelayedIds : Delayed(id, TRUE) \in S,
           todo[t] \in Seq(S),
           task_queue \in Seq(S) \/ (StopModes \subseteq {FALSE} /\ ~HasNext(t, "stop"))
    PROVE  todo'[t] \in Seq(S)
<1>1. CASE SwapInWait(t)
  BY <1>1, WithdrawnCalls
<1>2. CASE UNCHANGED todo
  BY <1>2
<1>3. ASSUME NEW waitRegular \in StopModes, NEW rest \in Seq(S), StopQueue(t, waitRegular, rest),
             task_queue \in Seq(S) \/ ~waitRegular
      PROVE  todo'[t] \in Seq(S)
  BY <1>3, ConcatProperties DEF StopQueue, TypeOK
<1>h. ASSUME todo[t] # <<>>
      PROVE  Tail(todo[t]) \in Seq(S) /\ Head(todo[t]) \in S
  BY <1>h, HeadTailTypes
<1>4. CASE ExecStop(t)
  <2>1. HasNext(t, "stop") /\ todo[t] # <<>>
    BY <1>4 DEF ExecStop, HasNext
  <2>2. task_queue \in Seq(S) /\ Tail(todo[t]) \in Seq(S)
    BY <1>h, <2>1
  <2>3. task_queue \o Tail(todo[t]) \in Seq(S)
    BY <2>2, ConcatProperties
  <2>4. todo'[t] = IF Head(todo[t]).flag THEN task_queue \o Tail(todo[t]) ELSE Tail(todo[t])
    BY <1>4 DEF ExecStop, StopQueue, TypeOK
  <2> QED
    BY <2>2, <2>3, <2>4
<1>5. CASE \E waitRegular \in StopModes : Stop(t, waitRegular)
  BY <1>3, <1>5 DEF Stop
<1>6. CASE ExecRegister(t) \/ Return(t)
  <2>1. todo[t] # <<>> /\ todo'[t] = Tail(todo[t])
    BY <1>6 DEF ExecRegister, Return, HasNext, InUser, TypeOK
  <2> QED
    BY <1>h, <2>1
<1>7. CASE ExecRegular(t) \/ ExecDelayed(t)
  <2>1. todo[t] # <<>> /\ EnterBody(t)
    BY <1>7 DEF ExecRegular, ExecDelayed, HasNext
  <2>2. todo'[t] = (IF t \in Callers THEN <<Body>> ELSE <<>>) \o Tail(todo[t])
    BY <2>1 DEF EnterBody, TypeOK
  <2>3. (IF t \in Callers THEN <<Body>> ELSE <<>>) \in Seq(S)
    BY EmptySeq
  <2>4. Tail(todo[t]) \in Seq(S)
    BY <1>h, <2>1
  <2> QED
    BY <2>2, <2>3, <2>4, ConcatProperties
<1>8. CASE \/ PostTask(t) \/ PostDelayed(t) \/ Reset(t)
           \/ \E waitRegular \in StopModes : PostStop(t, waitRegular)
           \/ \E id \in DelayedIds : CancelWaiting(t, id) \/ CancelInProcess(t, id)
           \/ CheckActive(t) \/ Push(t) \/ \E dur \in Durations : Activate(t, dur)
  BY <1>2, <1>8 DEF PostTask, PostDelayed, Reset, PostStop, CancelWaiting, CancelInProcess,
                    CheckActive, Push, Activate, threadVars
<1>9. CASE Destroy(t) \/ CancelAll(t)
  BY <1>1, <1>9 DEF Destroy, CancelAll
<1> QED
  BY <1>4, <1>5, <1>6, <1>7, <1>8, <1>9 DEF Call, Continue

\* An id that is entered stays so, and one is entered when its time is set.
LEMMA EnteredGrows ==
    ASSUME TypeOK, Hands, NEW t \in Threads, Call(t) \/ Continue(t)
    PROVE  /\ Entered \subseteq Entered'
           /\ pc[t] = "delay" => Register(arg[t].id) = arg[t] /\ arg'[t] = arg[t] /\ arg[t].id \in Entered'
<1>1. CASE PostDelayed(t)
  <2>1. /\ next_id' = next_id + 1 /\ pc[t] = "exec"
        /\ \A u \in Threads : u # t => pc'[u] = pc[u] /\ arg'[u] = arg[u]
        /\ pc'[t] = "delay" /\ arg'[t].id = next_id
    BY <1>1, RegisterKind DEF PostDelayed, MayCall, InUser, Goto, TypeOK
  <2>2. \A id \in Entered : id \in Nat /\ id < next_id /\ next_id \in Nat
    BY BoundsAssumption DEF Entered, DelayedIds, TypeOK
  <2>3. \A m, n \in Nat : m < n => m < n + 1 /\ m # n
    OBVIOUS
  <2>4. \A id \in Entered : id < next_id' /\ id # next_id
    BY <2>1, <2>2, <2>3
  <2> QED
    BY <2>1, <2>4 DEF Entered
<1>2. CASE \E dur \in Durations : Activate(t, dur)
  <2>1. /\ UNCHANGED <<next_id, arg>> /\ pc[t] = "delay" /\ pc'[t] = "post"
        /\ \A u \in Threads : u # t => pc'[u] = pc[u]
    BY <1>2 DEF Activate, Goto, TypeOK
  <2>2. arg[t].kind = "register" /\ arg[t] \in Task /\ arg[t].id < next_id
        /\ \A u \in Threads : pc[u] = "delay" /\ arg[u].id = arg[t].id => u = t
    BY <2>1 DEF Hands, FreshIds, TypeOK
  <2>3. arg[t].id \in DelayedIds /\ Register(arg[t].id) = arg[t]
    BY <2>2, TaskKinds, ClosureKinds, RegisterKind DEF Task
  <2> QED
    BY <2>1, <2>2, <2>3 DEF Entered
<1>3. CASE ~PostDelayed(t) /\ ~\E dur \in Durations : Activate(t, dur)
  <2>1. next_id' = next_id /\ pc'[t] # "delay" /\ pc[t] # "delay"
        /\ \A u \in Threads : u # t => pc'[u] = pc[u] /\ arg'[u] = arg[u]
    BY <1>3 DEF Call, Continue, PostTask, Reset, Destroy, PostStop, Stop, StopQueue,
       CancelWaiting, CancelInProcess, CheckActive, Push, CancelAll, ExecRegular, MayCall, InUser,
       ExecDelayed, ExecRegister, ExecStop, Return, BeginPost, Goto, HasNext,
       queueVars, idVars, threadVars, TypeOK
  <2> QED
    BY <2>1 DEF Entered
<1> QED
  BY <1>1, <1>2, <1>3

\* A step aside of wait_next leaves the ids in flight entered.
LEMMA AsideSettled ==
    ASSUME TypeOK, Hands, Settled, NEW t \in Threads, Call(t) \/ Continue(t)
    PROVE  Settled'
<1> DEFINE R == Registering(Entered)
           T == Registering(Entered')
<1>1. R \subseteq T /\ R \subseteq Task
  BY EnteredGrows DEF Registering
<1>2. todo[t] \in Seq(R) /\ task_queue \in Seq(R) /\ delayed \subseteq Entered
  BY DEF Settled
<1>3. Body \in R /\ NoTask \in R /\ \A id \in DelayedIds : Delayed(id, TRUE) \in R
  BY RegisteringKinds
<1>t. \A n \in 1 .. MaxRegular : Regular(n) \in R
  BY RegisteringKinds
<1>s. \A flag \in BOOLEAN : StopTask(flag) \in R
  BY RegisteringKinds
<1>r. \A task \in R : task.kind = "register" => task.id \in Entered
  BY DEF Registering
<1>q. pc[t] # "delay" => arg[t] \in R
  BY DEF Settled
<1>p. pc[t] = "delay" => arg'[t] \in T
  <2> SUFFICES ASSUME pc[t] = "delay" PROVE arg'[t] \in T
    OBVIOUS
  <2>1. arg'[t] \in Task /\ arg'[t].id \in Entered'
    BY EnteredGrows DEF TypeOK
  <2> QED
    BY <2>1 DEF Registering
<1> HIDE DEF R, T
<1>4. todo'[t] \in Seq(R)
  BY <1>1, <1>2, <1>3, AsideTodo
<1>5. \A u \in Threads : todo'[u] \in Seq(T)
  <2>1. \A u \in Threads : u # t => todo'[u] \in Seq(R)
    BY AsideHands DEF Settled, R
  <2> QED
    BY <1>1, <1>4, <2>1, SeqGrows
<1>6. task_queue' \in Seq(R)
  <2>1. CASE Push(t)
    <3>1. pc[t] = "push" /\ task_queue' = Append(task_queue, arg[t])
      BY <2>1 DEF Push, Enqueue
    <3> QED
      BY <1>2, <1>q, <3>1, AppendProperties
  <2>2. CASE ~Push(t)
    <3>1. task_queue' \in {task_queue, <<>>}
      BY <2>2 DEF Call, Continue, PostTask, PostDelayed, Reset, Destroy, PostStop, Stop, StopQueue,
         CancelWaiting, CancelInProcess, CheckActive, CancelAll, Activate, ExecRegular,
         ExecDelayed, ExecRegister, ExecStop, Return, queueVars
    <3> QED
      BY <1>2, <3>1, EmptySeq
  <2> QED
    BY <2>1, <2>2
<1>7. delayed' \subseteq Entered
  <2>1. CASE ExecRegister(t)
    <3>1. Head(todo[t]) \in R /\ Head(todo[t]).kind = "register"
      BY <2>1, <1>2, HeadTailTypes DEF ExecRegister, HasNext
    <3> QED
      BY <1>2, <1>r, <2>1, <3>1 DEF ExecRegister
  <2>2. CASE ~ExecRegister(t)
    <3>1. delayed' = delayed
      BY <2>2 DEF Call, Continue, PostTask, PostDelayed, Reset, Destroy, PostStop, Stop, StopQueue,
         CancelWaiting, CancelInProcess, CheckActive, Push, CancelAll, Activate, ExecRegular,
         ExecDelayed, ExecStop, Return, queueVars
    <3> QED
      BY <1>2, <3>1
  <2> QED
    BY <2>1, <2>2
<1>8. ASSUME NEW u \in Threads, pc'[u] # "delay" PROVE arg'[u] \in T
  <2>1. CASE u # t
    <3>1. pc'[u] = pc[u] /\ arg'[u] = arg[u]
      BY <2>1, CallAside, ContinueAside
         DEF Aside, Call, Continue, PostTask, PostDelayed, Reset, Destroy, PostStop, Stop, StopQueue,
         CancelWaiting, CancelInProcess, CheckActive, Push, CancelAll, Activate, ExecRegular,
         ExecDelayed, ExecRegister, ExecStop, Return, BeginPost, threadVars, TypeOK
    <3>2. arg[u] \in R
      BY <1>8, <3>1 DEF Settled, R
    <3> QED
      BY <1>1, <3>1, <3>2
  <2>2. CASE u = t /\ pc[t] = "delay"
    BY <1>p, <2>2
  <2>3. CASE u = t /\ pc[t] # "delay"
    <3>1. CASE PostDelayed(t)
      BY <1>8, <2>3, <3>1 DEF PostDelayed, Goto, TypeOK
    <3>2. CASE PostTask(t)
      <4>1. arg'[t] = Regular(posted + 1) /\ posted + 1 \in 1 .. MaxRegular
        BY <3>2, BoundsAssumption DEF PostTask, BeginPost, TypeOK
      <4> QED
        BY <1>1, <1>t, <2>3, <4>1
    <3>3. CASE \E id \in DelayedIds : CancelWaiting(t, id)
      BY <1>1, <1>3, <2>3, <3>3 DEF CancelWaiting, BeginPost, TypeOK
    <3>4. CASE \E waitRegular \in StopModes : PostStop(t, waitRegular)
      BY <1>1, <1>s, <2>3, <3>4, BoundsAssumption DEF PostStop, BeginPost, TypeOK
    <3>5. CASE ~(PostDelayed(t) \/ PostTask(t) \/ (\E id \in DelayedIds : CancelWaiting(t, id))
                 \/ \E waitRegular \in StopModes : PostStop(t, waitRegular))
      <4>1. arg'[t] \in {arg[t], NoTask}
        BY <3>5 DEF Call, Continue, Reset, Destroy, Stop,
         CancelInProcess, CheckActive, Push, CancelAll, Activate, ExecRegular,
         ExecDelayed, ExecRegister, ExecStop, Return, threadVars, TypeOK
      <4> QED
        BY <1>1, <1>3, <1>q, <2>3, <4>1
    <3> QED
      BY <3>1, <3>2, <3>3, <3>4, <3>5
  <2> QED
    BY <2>1, <2>2, <2>3
<1>9. task_queue' \in Seq(T) /\ delayed' \subseteq Entered'
  BY <1>1, <1>6, <1>7, EnteredGrows, SeqGrows
<1> QED
  BY <1>5, <1>8, <1>9 DEF Settled, T

\* What a worker takes out of wait_next is a task of the queue or the one it holds.
LEMMA ServeTakes ==
    ASSUME TypeOK, LockParts, Hands, NEW w \in Workers, Serve(w)
    PROVE  \/ UNCHANGED <<todo, task_queue>> /\ delayed' \subseteq delayed
           \/ /\ pc[w] \in InWaitNext /\ todo' = [todo EXCEPT ![w] = <<Head(task_queue)>>]
              /\ task_queue # <<>> /\ task_queue' = Tail(task_queue)
              /\ \/ delayed' = delayed
                 \/ delayed' = delayed \cup {cur[w]} /\ Holds(w)
           \/ /\ \E flag \in BOOLEAN : todo' = [todo EXCEPT ![w] = <<Delayed(cur[w], flag)>>]
              /\ Holds(w) /\ UNCHANGED <<task_queue, delayed>>
<1> USE DEF InWaitNext, Inside
<1>1. CASE TakeInstead(w)
  BY <1>1 DEF TakeInstead, PutBack, Obtain, LockParts, FirstWaits, Holds, HasTask, Timed
<1>2. CASE TakeRegular(w)
  BY <1>2 DEF TakeRegular, Obtain, Timed
<1>3. CASE Fire(w)
  BY <1>3 DEF Fire, Obtain, Holds, HasTask, Timed, Cancelled
<1>4. CASE CancelSeen(w)
  BY <1>4 DEF CancelSeen, Obtain, Holds, HasTask, Timed
<1>5. CASE \/ RunReturns(w) \/ WaitNext(w) \/ Disabled(w) \/ Idle(w) \/ IdleWakes(w)
           \/ \E id \in DelayedIds : PopDelayed(w, id)
           \/ TestPredicate(w) \/ Block(w) \/ Notified(w) \/ TimesOut(w) \/ NotCancelled(w)
  BY <1>5 DEF RunReturns, WaitNext, Disabled, Idle, IdleWakes, PopDelayed, TestPredicate, Block,
              Notified, TimesOut, NotCancelled, queueVars
<1> QED
  BY <1>1, <1>2, <1>3, <1>4, <1>5 DEF Serve

\* A worker serves the ids in flight without changing which are entered.
LEMMA ServeSettled ==
    ASSUME TypeOK, LockParts, Hands, Settled, NEW w \in Workers, Serve(w)
    PROVE  Settled'
<1> DEFINE R == Registering(Entered)
<1>1. UNCHANGED <<next_id, arg>> /\ \A u \in Threads : pc'[u] = "delay" <=> pc[u] = "delay"
  <2>1. next_id' = next_id /\ pc'[w] # "delay" /\ pc[w] # "delay"
    BY DEF Serve, RunReturns, WaitNext, Disabled, Idle, IdleWakes, TakeRegular, PopDelayed,
         TestPredicate, Block, Notified, TimesOut, CancelSeen, NotCancelled, TakeInstead, Fire,
         Obtain, Looping, idVars, Goto, TypeOK, Threads
  <2> QED
    BY <2>1, ServeHanded DEF Threads
<1>2. Entered' = Entered
  BY <1>1 DEF Entered
<1>3. (Registering(Entered))' = R
  BY <1>2 DEF Registering
<1>4. Holds(w) => cur[w] \in Entered
  <2> SUFFICES ASSUME Holds(w) PROVE cur[w] \in Entered
    OBVIOUS
  <2>1. cur[w] \in DelayedIds /\ cur[w] < next_id
    BY HeldIds, BoundsAssumption DEF Hands, FreshIds, TypeOK
  <2>2. \A u \in Threads : pc[u] = "delay" => arg[u].id # cur[w]
    BY DEF Hands, FreshIds
  <2> QED
    BY <2>1, <2>2 DEF Entered
<1>5. \A flag \in BOOLEAN : Holds(w) => Delayed(cur[w], flag) \in R
  BY HeldIds, RegisteringKinds DEF Hands
<1>6. task_queue \in Seq(R) /\ delayed \subseteq Entered /\ \A u \in Threads : todo[u] \in Seq(R)
  BY DEF Settled
<1> HIDE DEF R
<1>7. delayed' \subseteq Entered
  BY <1>4, <1>6, ServeTakes
<1>8. task_queue' \in Seq(R)
  BY <1>6, ServeHanded, HeadTailTypes
<1>9. \A u \in Threads : todo'[u] \in Seq(R)
  <2>1. task_queue # <<>> => Head(task_queue) \in R
    BY <1>6, HeadTailTypes
  <2>2. \A task \in R : <<task>> \in Seq(R)
    OBVIOUS
  <2>3. \A u \in Threads : u # w => todo'[u] = todo[u]
    BY ServeHanded
  <2>4. \A task : todo' = [todo EXCEPT ![w] = <<task>>] => todo'[w] = <<task>>
    BY DEF TypeOK, Threads
  <2>5. todo'[w] \in Seq(R)
    BY <1>5, <1>6, <2>1, <2>2, <2>4, ServeTakes DEF Threads
  <2> QED
    BY <1>6, <2>3, <2>5
<1> QED
  BY <1>1, <1>2, <1>3, <1>7, <1>8, <1>9 DEF Settled, R

\* Clients execute no closure of the queue but withdrawals.
LEMMA AsideClients ==
    ASSUME TypeOK, StopModes \subseteq {FALSE}, ClientsCall, NEW t \in Threads, Call(t) \/ Continue(t)
    PROVE  ClientsCall'
<1>1. ASSUME t \in Clients PROVE todo'[t] \in Seq(ClientTask)
  <2>1. Body \in ClientTask /\ \A id \in DelayedIds : Delayed(id, TRUE) \in ClientTask
    BY TaskTypes, ClosureKinds DEF ClientTask
  <2>2. todo[t] \in Seq(ClientTask)
    BY <1>1 DEF ClientsCall
  <2>3. ~HasNext(t, "stop")
    BY <2>2, HeadTailTypes DEF HasNext, ClientTask
  <2> QED
    BY <2>1, <2>2, <2>3, AsideTodo DEF ClientTask
<1>2. \A c \in Clients : c # t => todo'[c] = todo[c]
  BY AsideHands DEF Threads
<1> QED
  BY <1>1, <1>2 DEF ClientsCall

\* The heap's least time goes to the worker, and nothing comes before it.
LEMMA ServeHeldFirst ==
    ASSUME TypeOK, LockParts, Hands, HeldFirst, NEW w \in Workers, \A v \in Workers : v = w, Serve(w)
    PROVE  HeldFirst'
<1> SUFFICES ASSUME Holds(w)', NEW id \in delayed' PROVE expires'[cur'[w]] =< expires'[id]
  BY DEF HeldFirst
<1>0. expires' = expires
  BY DEF Serve, RunReturns, WaitNext, Disabled, Idle, IdleWakes, TakeRegular, PopDelayed,
         TestPredicate, Block, Notified, TimesOut, CancelSeen, NotCancelled, TakeInstead, Fire, idVars
<1>1. CASE \E i \in DelayedIds : PopDelayed(w, i)
  BY <1>0, <1>1 DEF PopDelayed, OnTop, TypeOK, Holds, HasTask, Timed
<1>2. CASE ~\E i \in DelayedIds : PopDelayed(w, i)
  <2>1. Holds(w) /\ cur'[w] = cur[w] /\ delayed' = delayed
    BY <1>2 DEF Serve, RunReturns, WaitNext, Disabled, Idle, IdleWakes, TakeRegular,
         TestPredicate, Block, Notified, TimesOut, CancelSeen, NotCancelled, TakeInstead, Fire,
         Obtain, Goto, Holds, HasTask, Timed, queueVars, threadVars, TypeOK, Threads
  <2> QED
    BY <1>0, <2>1 DEF HeldFirst
<1> QED
  BY <1>1, <1>2

\* The heap and the times in it stay as they are while the worker has a task.
LEMMA AsideHeldFirst ==
    ASSUME TypeOK, Hands, Settled, ClientsCall, HeldFirst,
           NEW t \in Threads, Call(t) \/ Continue(t),
           NEW w \in Workers, \A v \in Workers : v = w
    PROVE  HeldFirst'
<1> SUFFICES ASSUME Holds(w)', NEW id \in delayed' PROVE expires'[cur'[w]] =< expires'[id]
  BY DEF HeldFirst
<1>0. Aside(t)
  BY CallAside, ContinueAside
<1>1. Holds(w) /\ cur' = cur /\ t # w
  BY <1>0 DEF Aside, Holds, HasTask, InWaitNext, Inside, Threads
<1>2. t \in Clients
  BY <1>1 DEF Threads
<1>3. ~ExecRegister(t)
  <2>1. todo[t] \in Seq(ClientTask)
    BY <1>2 DEF ClientsCall
  <2> QED
    BY <2>1, HeadTailTypes DEF ExecRegister, HasNext, ClientTask
<1>4. delayed' = delayed
  BY <1>3 DEF Call, Continue, PostTask, PostDelayed, Reset, Destroy, PostStop, Stop, StopQueue,
         CancelWaiting, CancelInProcess, CheckActive, Push, CancelAll, Activate, ExecRegular,
         ExecDelayed, ExecStop, Return, queueVars
<1>5. expires'[id] = expires[id]
  <2>1. CASE \E dur \in Durations : Activate(t, dur)
    BY <1>4, <2>1 DEF Activate, Settled, Entered, TypeOK
  <2>2. CASE ~\E dur \in Durations : Activate(t, dur)
    BY <2>2 DEF Call, Continue, PostTask, PostDelayed, Reset, Destroy, PostStop, Stop, CancelWaiting,
       CancelInProcess, CheckActive, Push, CancelAll, ExecRegular, ExecDelayed, ExecRegister,
       ExecStop, Return, idVars
  <2> QED
    BY <2>1, <2>2
<1>6. expires'[cur[w]] = expires[cur[w]]
  BY <1>1, TimesKept
<1> QED
  BY <1>1, <1>4, <1>5, <1>6 DEF HeldFirst

\* A new queue is empty.
LEMMA InitPunctual == Init => Punctual
<1> SUFFICES ASSUME Init PROVE Punctual
  OBVIOUS
<1> DEFINE R == Registering(Entered)
<1>1. Body \in R /\ NoTask \in R /\ Body \in ClientTask
  BY RegisteringKinds, TaskTypes, ClosureKinds DEF ClientTask
<1> HIDE DEF R
<1>2. <<Body>> \in Seq(R) /\ <<>> \in Seq(R) /\ <<Body>> \in Seq(ClientTask)
  BY <1>1
<1>3. Settled
  BY <1>1, <1>2 DEF Init, Settled, R
<1>4. ClientsCall
  BY <1>2, ThreadsAssumption DEF Init, ClientsCall, Threads
<1>5. HeldFirst
  BY DEF Init, HeldFirst
<1> QED
  BY <1>3, <1>4, <1>5 DEF Punctual

\* Every step keeps to the order.
LEMMA NextPunctual ==
    ASSUME \A v, w \in Workers : v = w, StopModes \subseteq {FALSE},
           Inductive, Punctual, [Next]_vars
    PROVE  Punctual'
<1>0. TypeOK /\ LockParts /\ Hands /\ Settled /\ ClientsCall /\ HeldFirst
  BY DEF Inductive, LockParts, Hands, Punctual
<1>1. ASSUME NEW t \in Threads, Call(t) \/ Continue(t) PROVE Punctual'
  <2>1. Settled' /\ ClientsCall'
    BY <1>0, <1>1, AsideSettled, AsideClients
  <2>2. ASSUME NEW w \in Workers PROVE HeldFirst'
    BY <1>0, <1>1, AsideHeldFirst
  <2>3. Workers = {} => HeldFirst'
    BY DEF HeldFirst
  <2> QED
    BY <2>1, <2>2, <2>3 DEF Punctual
<1>2. ASSUME NEW w \in Workers, Serve(w) PROVE Punctual'
  <2>1. ClientsCall'
    BY <1>0, <1>2, ServeHanded, ThreadsAssumption DEF ClientsCall, Threads
  <2> QED
    BY <1>0, <1>2, <2>1, ServeSettled, ServeHeldFirst DEF Punctual
<1> USE DEF Punctual, Settled, Entered, ClientsCall, HeldFirst, Holds
<1>3. ASSUME NEW w \in Workers, Run(w) PROVE Punctual'
  <2>1. /\ UNCHANGED <<next_id, arg, todo, task_queue, delayed, expires, cur>>
        /\ pc' = [pc EXCEPT ![w] = "exec"] /\ pc[w] = "done"
    BY <1>3 DEF Run, Goto, queueVars, idVars
  <2>2. Entered' = Entered /\ \A u \in Threads : pc'[u] # "delay" => pc[u] # "delay"
    BY <1>0, <2>1 DEF TypeOK, Threads
  <2>3. Settled' /\ ClientsCall'
    BY <1>0, <2>1, <2>2 DEF Registering
  <2>4. HeldFirst'
    BY <1>0, <2>1 DEF TypeOK, Threads, HasTask, Timed
  <2> QED
    BY <2>3, <2>4
<1>4. CASE UNCHANGED <<next_id, arg, todo, task_queue, delayed, expires, cur, pc>>
  BY <1>0, <1>4 DEF Registering
<1>5. CASE (\E w \in Workers : SpuriousWake(w)) \/ Tick \/ UNCHANGED vars
  BY <1>4, <1>5 DEF SpuriousWake, Tick, vars, queueVars, idVars, threadVars
<1> QED
  BY <1>1, <1>2, <1>3, <1>5 DEF Next

\* For any number of clients and of tasks of any durations, and one worker: a
\* handler it chooses to run, not as cancelled, is due before every task still
\* in the heap, although tasks were registered and cancelled while it waited.
THEOREM RunInOrderOfTimes ==
    ASSUME \A v, w \in Workers : v = w, StopModes \subseteq {FALSE}
    PROVE  Spec => EarliestFirst
<1>1. Init => Punctual
  BY InitPunctual
<1>2. Inductive /\ Punctual /\ [Next]_vars => Punctual'
  BY NextPunctual
<1> DEFINE FirstStep == \A w \in Workers :
                Holds(w) /\ todo'[w] = <<Delayed(cur[w], FALSE)>>
                    => \A id \in delayed : expires[cur[w]] =< expires[id]
<1>3. Punctual /\ [Next]_vars => [FirstStep]_vars
  BY DEF Punctual, HeldFirst
<1> QED
  BY <1>1, <1>2, <1>3, InductiveHolds, PTL DEF Spec, EarliestFirst

-----------------------------------------------------------------------------
(***************************************************************************)
(* With one worker, one client, and no thread that executes the queue's    *)
(* closures inside stop(), every regular task is in at most one place on   *)
(* its way from the client through the queue to the worker, and tasks that *)
(* are further on were posted before.                                      *)
(***************************************************************************)
\* The numbers of the regular tasks posted but not queued, queued, taken by the
\* worker, and started.
Coming == {n \in 1 .. MaxRegular : \E c \in Clients : arg[c] = Regular(n)}
Queued == {n \in 1 .. MaxRegular : In(Regular(n), task_queue)}
Taken  == {n \in 1 .. MaxRegular : \E w \in Workers : In(Regular(n), todo[w])}
Started == {n \in 1 .. MaxRegular : In(n, started)}

Below(ms, ns) == \A m \in ms : \A n \in ns : m < n
QueueInOrder ==
    \A i, j \in DOMAIN task_queue : \A m, n \in 1 .. MaxRegular :
        i < j /\ task_queue[i] = Regular(m) /\ task_queue[j] = Regular(n) => m < n

\* Every task is before those that are less far on.
Lined ==
    /\ Fifo /\ QueueInOrder
    /\ Below(Started, Taken) /\ Below(Started, Queued) /\ Below(Started, Coming)
    /\ Below(Taken, Queued) /\ Below(Taken, Coming) /\ Below(Queued, Coming)
    /\ Started \cup Taken \cup Queued \cup Coming \subseteq 1 .. posted

\* A worker that calls no operation posts nothing, and has at most one regular
\* task to execute, which is the first.
Other == {task \in Task : task.kind # "regular"}
AtOnce == {task \in Task : task.kind = "stop" => task.flag = FALSE}

OneAtATime ==
    /\ task_queue \in Seq(AtOnce)
    /\ \A c \in Clients : arg[c] \in AtOnce
    /\ \A w \in Workers :
          /\ pc[w] \notin Posting
          /\ todo[w] \in Seq(AtOnce)
          /\ todo[w] # <<>> => Tail(todo[w]) \in Seq(Other)
          /\ pc[w] = "cancel_all" => todo[w] \in Seq(Other)

\* The tasks move on in one of these ways.
Fewer ==
    /\ started' = started /\ task_queue' \in {task_queue, <<>>}
    /\ Taken' \subseteq Taken /\ Coming' \subseteq Coming /\ posted' = posted
Posts ==
    /\ started' = started /\ task_queue' = task_queue /\ Taken' \subseteq Taken
    /\ Coming' \subseteq {posted + 1} /\ posted' = posted + 1
Queues(task) ==
    /\ started' = started /\ task_queue' = Append(task_queue, task)
    /\ \A n \in 1 .. MaxRegular : task = Regular(n) => n \in Coming
    /\ Taken' \subseteq Taken /\ Coming' = {} /\ posted' = posted
Takes ==
    /\ started' = started /\ task_queue # <<>> /\ task_queue' = Tail(task_queue)
    /\ Taken = {} /\ \A n \in Taken' : Head(task_queue) = Regular(n)
    /\ Coming' = Coming /\ posted' = posted
Starts(n) ==
    /\ started' = Append(started, n) /\ task_queue' = task_queue
    /\ n \in Taken /\ Taken' = {} /\ Coming' \subseteq Coming /\ posted' = posted

\* Tasks that are lost leave the others in order.
LEMMA FewerLined == ASSUME TypeOK, Lined, Fewer PROVE Lined'
<1>1. Queued' \subseteq Queued /\ QueueInOrder'
  BY DEF Fewer, Queued, In, Lined, QueueInOrder
<1>2. Fifo' /\ Started' = Started
  BY DEF Fewer, Fifo, Lined, Started
<1> QED
  BY <1>1, <1>2 DEF Fewer, Lined, Below

\* A posted task has the greatest number so far.
LEMMA PostsLined == ASSUME TypeOK, Lined, Posts PROVE Lined'
<1>1. Queued' = Queued /\ QueueInOrder' /\ Fifo' /\ Started' = Started
  BY DEF Posts, Queued, Lined, QueueInOrder, Started, Fifo
<1>2. posted \in Nat /\ \A n \in 1 .. posted : n < posted + 1 /\ n \in 1 .. posted + 1
  BY DEF TypeOK
<1>3. posted + 1 \in 1 .. posted + 1
  BY <1>2
<1> QED
  BY <1>1, <1>2, <1>3 DEF Posts, Lined, Below

\* The one task that was posted and not queued goes behind those in the queue.
LEMMA QueuesLined == ASSUME TypeOK, Lined, NEW task \in Task, Queues(task) PROVE Lined'
<1>1. /\ Len(task_queue) \in Nat /\ DOMAIN task_queue = 1 .. Len(task_queue)
      /\ DOMAIN task_queue' = 1 .. Len(task_queue) + 1
      /\ \A i \in DOMAIN task_queue' :
            task_queue'[i] = IF i = Len(task_queue) + 1 THEN task ELSE task_queue[i]
  BY AppendProperties, LenProperties DEF Queues, TypeOK
<1>2. Queued' \subseteq Queued \cup Coming
  BY <1>1 DEF Queued, In, Queues
<1>3. Fifo' /\ Started' = Started
  BY DEF Queues, Fifo, Lined, Started
<1>4. QueueInOrder'
  <2> SUFFICES ASSUME NEW i \in DOMAIN task_queue', NEW j \in DOMAIN task_queue',
                      NEW m \in 1 .. MaxRegular, NEW n \in 1 .. MaxRegular, i < j,
                      task_queue'[i] = Regular(m), task_queue'[j] = Regular(n)
               PROVE  m < n
    BY DEF QueueInOrder
  <2>1. i \in DOMAIN task_queue /\ task_queue[i] = Regular(m)
    BY <1>1
  <2>2. CASE j \in DOMAIN task_queue
    BY <1>1, <2>1, <2>2 DEF Lined, QueueInOrder
  <2>3. CASE j \notin DOMAIN task_queue
    <3>1. n \in Coming
      BY <1>1, <2>3 DEF Queues
    <3>2. m \in Queued
      BY <2>1 DEF Queued, In
    <3> QED
      BY <3>1, <3>2 DEF Lined, Below
  <2> QED
    BY <2>2, <2>3
<1> QED
  BY <1>2, <1>3, <1>4 DEF Queues, Lined, Below

\* The worker takes the first of the queue.
LEMMA TakesLined == ASSUME TypeOK, Lined, Takes PROVE Lined'
<1>1. /\ Len(task_queue) \in Nat /\ DOMAIN task_queue = 1 .. Len(task_queue) /\ Len(task_queue) > 0
      /\ DOMAIN task_queue' = 1 .. Len(task_queue) - 1
      /\ \A i \in DOMAIN task_queue' : task_queue'[i] = task_queue[i + 1]
      /\ Head(task_queue) = task_queue[1]
  BY HeadTailProperties, LenProperties DEF Takes, TypeOK
<1>2. \A i \in DOMAIN task_queue' : i + 1 \in DOMAIN task_queue /\ 1 < i + 1
  BY <1>1
<1>3. Queued' \subseteq Queued
  BY <1>1, <1>2 DEF Queued, In
<1>4. QueueInOrder'
  <2>1. \A i, j \in DOMAIN task_queue' : i < j => i + 1 < j + 1
    BY <1>1
  <2> QED
    BY <1>1, <1>2, <2>1 DEF Lined, QueueInOrder
<1>5. Taken' \subseteq Queued
  BY <1>1 DEF Takes, Taken, Queued, In
<1>6. Below(Taken', Queued')
  <2> SUFFICES ASSUME NEW m \in Taken', NEW n \in Queued' PROVE m < n
    BY DEF Below
  <2>1. PICK j \in DOMAIN task_queue' : task_queue'[j] = Regular(n)
    BY DEF Queued, In
  <2>2. task_queue[1] = Regular(m) /\ task_queue[j + 1] = Regular(n) /\ 1 \in DOMAIN task_queue
    BY <1>1, <2>1 DEF Takes
  <2> QED
    BY <1>2, <2>2 DEF Lined, QueueInOrder, Taken, Queued
<1>7. Fifo' /\ Started' = Started
  BY DEF Takes, Fifo, Lined, Started
<1> QED
  BY <1>3, <1>4, <1>5, <1>6, <1>7 DEF Takes, Lined, Below

\* The task the worker starts is the only one it has, and before the others.
LEMMA StartsLined == ASSUME TypeOK, Lined, NEW n \in Nat, Starts(n) PROVE Lined'
<1>0. started \in Seq(1 .. MaxRegular) /\ n \in 1 .. MaxRegular
  BY DEF TypeOK, Starts, Taken
<1>1. /\ Len(started) \in Nat /\ DOMAIN started = 1 .. Len(started)
      /\ DOMAIN started' = 1 .. Len(started) + 1
      /\ \A i \in DOMAIN started' :
            started'[i] = IF i = Len(started) + 1 THEN n ELSE started[i]
  BY <1>0, AppendProperties, LenProperties DEF Starts
<1>2. Started' \subseteq Started \cup {n}
  BY <1>1 DEF Started, In
<1>3. \A i \in DOMAIN started : started[i] \in Started
  BY <1>0, <1>1, ElementOfSeq DEF Started, In
<1>4. Fifo'
  <2> SUFFICES ASSUME NEW i \in DOMAIN started', NEW j \in DOMAIN started', i < j
               PROVE  started'[i] < started'[j]
    BY DEF Fifo
  <2>1. i \in DOMAIN started /\ started'[i] = started[i]
    BY <1>1
  <2>2. CASE j \in DOMAIN started
    BY <1>1, <2>1, <2>2 DEF Lined, Fifo
  <2>3. CASE j \notin DOMAIN started
    BY <1>1, <1>3, <2>1, <2>3 DEF Lined, Below, Starts
  <2> QED
    BY <2>2, <2>3
<1>5. QueueInOrder' /\ Queued' = Queued
  BY DEF Starts, Queued, Lined, QueueInOrder
<1> QED
  BY <1>2, <1>4, <1>5 DEF Starts, Lined, Below

\* What the client's steps do to the tasks on their way.
LEMMA ClientLined ==
    ASSUME TypeOK, Lined, ClientsCall, \A v, u \in Clients : v = u,
           NEW t \in Clients, Call(t) \/ Continue(t)
    PROVE  Lined'
<1>0. t \in Threads /\ t \notin Workers /\ Clients = {t}
  BY ThreadsAssumption DEF Threads
<1>1. Taken' = Taken
  BY <1>0, AsideHands DEF Taken, Threads
<1>2. started' = started
  <2>1. ~ExecRegular(t)
    <3>1. todo[t] \in Seq(ClientTask)
      BY DEF ClientsCall
    <3> QED
      BY <3>1, HeadTailTypes DEF ExecRegular, HasNext, ClientTask
  <2> QED
    BY <2>1 DEF Call, Continue, PostTask, PostDelayed, Reset, Destroy, PostStop, Stop,
         CancelWaiting, CancelInProcess, CheckActive, Push, CancelAll, Activate,
         ExecDelayed, ExecRegister, ExecStop, Return, historyVars
<1>3. \A n : Regular(n) # NoTask /\ (\A id : Regular(n) # Register(id))
             /\ (\A id : Regular(n) # Delayed(id, TRUE)) /\ (\A flag : Regular(n) # StopTask(flag))
  BY DEF Regular, NoTask, Register, Delayed, StopTask
<1>4. CASE PostTask(t)
  <2>1. arg'[t] = Regular(posted + 1) /\ posted' = posted + 1 /\ task_queue' = task_queue
    BY <1>0, <1>4 DEF PostTask, BeginPost, queueVars, TypeOK
  <2>2. Coming' \subseteq {posted + 1}
    BY <1>0, <2>1, ClosureKinds DEF Coming
  <2> QED
    BY <1>1, <1>2, <2>1, <2>2, PostsLined DEF Posts
<1>5. CASE Push(t)
  <2>1. task_queue' = Append(task_queue, arg[t]) /\ arg'[t] = NoTask /\ posted' = posted /\ arg[t] \in Task
    BY <1>0, <1>5 DEF Push, Enqueue, historyVars, TypeOK
  <2>2. Coming' = {}
    BY <1>0, <1>3, <2>1 DEF Coming
  <2> QED
    BY <1>0, <1>1, <1>2, <2>1, <2>2, QueuesLined DEF Queues, Coming
<1>6. CASE ~PostTask(t) /\ ~Push(t)
  <2>1. /\ arg'[t] \in {arg[t], NoTask} \/ (\E id : arg'[t] \in {Register(id), Delayed(id, TRUE)})
           \/ \E flag : arg'[t] = StopTask(flag)
        /\ posted' = posted /\ task_queue' \in {task_queue, <<>>}
    BY <1>0, <1>6 DEF Call, Continue, PostDelayed, Reset, Destroy, PostStop, Stop, StopQueue,
         CancelWaiting, CancelInProcess, CheckActive, CancelAll, Activate, ExecRegular, BeginPost,
         ExecDelayed, ExecRegister, ExecStop, Return, queueVars, threadVars, historyVars, TypeOK
  <2>2. Coming' \subseteq Coming
    BY <1>0, <1>3, <2>1 DEF Coming
  <2> QED
    BY <1>1, <1>2, <2>1, <2>2, FewerLined DEF Fewer
<1> QED
  BY <1>4, <1>5, <1>6

\* A sequence of other tasks holds no regular one.
LEMMA NoneTaken ==
    ASSUME NEW s \in Seq(Other)
    PROVE  \A n : ~In(Regular(n), s)
<1>1. \A i \in DOMAIN s : s[i] \in Other
  BY ElementOfSeq, LenProperties
<1> QED
  BY <1>1, ClosureKinds DEF In, Other

\* The worker executes the regular task it has taken, and nothing it has to
\* execute after one of its steps aside of wait_next is another.
LEMMA WorkerLined ==
    ASSUME TypeOK, Lined, OneAtATime, Callers \subseteq Clients, \A v, u \in Workers : v = u,
           NEW t \in Workers, Call(t) \/ Continue(t)
    PROVE  /\ Lined' /\ (todo'[t] \in Seq(Other) \/ todo'[t] = todo[t])
           /\ ~Push(t) /\ ~CheckActive(t) /\ ~(\E dur \in Durations : Activate(t, dur)) /\ ~Call(t)
           /\ ExecStop(t) => todo'[t] \in Seq(Other)
<1>0. t \in Threads /\ t \notin Callers /\ Workers = {t}
  BY ThreadsAssumption DEF Threads
<1>1. ~Call(t)
  BY <1>0, ThreadsAssumption
     DEF Call, PostTask, PostDelayed, Reset, Destroy, PostStop, Stop, CancelWaiting, CancelInProcess,
         MayCall
<1>2. ~Push(t) /\ ~CheckActive(t) /\ ~\E dur \in Durations : Activate(t, dur)
  BY DEF OneAtATime, Push, CheckActive, Activate, Posting
<1> DEFINE Goal == Lined' /\ (todo'[t] \in Seq(Other) \/ todo'[t] = todo[t])
<1>h. ASSUME todo[t] # <<>>
      PROVE  /\ Tail(todo[t]) \in Seq(Other) /\ Head(todo[t]) \in AtOnce
             /\ Head(todo[t]) = todo[t][1] /\ 1 \in DOMAIN todo[t]
             /\ Head(todo[t]) \in Task
  <2>1. todo[t] \in Seq(Task) /\ todo[t] \in Seq(AtOnce)
    BY <1>0, <1>h DEF OneAtATime, TypeOK
  <2> QED
    BY <1>h, <2>1, HeadTailTypes DEF OneAtATime
<1>b. ASSUME EnterBody(t), todo[t] # <<>> PROVE todo'[t] = Tail(todo[t])
  <2>1. Tail(todo[t]) \in Seq(Other)
    BY <1>b, <1>h
  <2>2. todo'[t] = <<>> \o Tail(todo[t])
    BY <1>0, <1>b DEF EnterBody, TypeOK
  <2> QED
    BY <2>1, <2>2, ConcatProperties, EmptySeq
<1>3. ASSUME ExecRegular(t) PROVE Goal
  <2> DEFINE n == Head(todo[t]).id
  <2>1. started' = Append(started, n) /\ todo'[t] = Tail(todo[t])
        /\ UNCHANGED <<task_queue, arg, posted>>
    BY <1>3, <1>b DEF ExecRegular, HasNext, queueVars
  <2>2. Head(todo[t]).kind = "regular" /\ n \in 1 .. MaxRegular /\ todo'[t] \in Seq(Other)
    BY <1>3, <1>h, <2>1, TaskKinds DEF ExecRegular, HasNext
  <2>3. Head(todo[t]) = Regular(n)
    BY <1>3, <1>h, <2>2, ClosureKinds, RegisterKind DEF Task, ExecRegular, HasNext
  <2>4. n \in Taken
    BY <1>0, <1>3, <1>h, <2>2, <2>3 DEF Taken, In, ExecRegular, HasNext
  <2>5. Taken' = {}
    BY <1>0, <2>2, NoneTaken DEF Taken
  <2>6. Coming' = Coming
    BY <2>1 DEF Coming
  <2> HIDE DEF n
  <2> QED
    BY <1>1, <1>2, <2>1, <2>2, <2>4, <2>5, <2>6, StartsLined DEF Starts
<1>4. ASSUME todo'[t] \in Seq(Other) \/ todo'[t] = todo[t],
             UNCHANGED <<started, arg, posted>>, task_queue' \in {task_queue, <<>>}
      PROVE  Goal
  <2>1. Taken' \subseteq Taken
    BY <1>0, <1>4, NoneTaken DEF Taken
  <2>2. Coming' = Coming
    BY <1>4 DEF Coming
  <2> QED
    BY <1>4, <2>1, <2>2, FewerLined DEF Fewer
<1>5. ASSUME ExecDelayed(t) PROVE Goal
  BY <1>4, <1>5, <1>b, <1>h DEF ExecDelayed, HasNext, queueVars
<1>6. ASSUME ExecRegister(t) PROVE Goal
  BY <1>0, <1>4, <1>6, <1>h DEF ExecRegister, HasNext, TypeOK, historyVars
<1>s. ASSUME ExecStop(t)
      PROVE  /\ todo'[t] = Tail(todo[t]) /\ task_queue' = <<>> /\ todo'[t] \in Seq(Other)
             /\ UNCHANGED <<started, arg, posted>>
  <2>1. todo[t] # <<>> /\ Head(todo[t]).kind = "stop"
    BY <1>s DEF ExecStop, HasNext
  <2>2. Head(todo[t]).flag = FALSE /\ Tail(todo[t]) \in Seq(Other)
    BY <1>h, <2>1 DEF AtOnce
  <2> QED
    BY <1>0, <1>s, <2>2 DEF ExecStop, StopQueue, TypeOK, historyVars
<1>7. ASSUME ExecStop(t) PROVE Goal
  BY <1>4, <1>7, <1>s
<1>8. ASSUME Return(t) PROVE Goal
  BY <1>0, <1>4, <1>8, <1>h DEF Return, InUser, TypeOK, queueVars, historyVars
<1>9. ASSUME CancelAll(t) PROVE Goal
  <2>1. todo[t] \in Seq(Other)
    BY <1>9 DEF CancelAll, OneAtATime
  <2>2. todo'[t] \in Seq(Other)
    <3>1. \A id \in DelayedIds : Delayed(id, TRUE) \in Other
      BY TaskTypes, ClosureKinds DEF Other
    <3> QED
      BY <1>0, <1>9, <2>1, <3>1, WithdrawnCalls DEF CancelAll
  <2> QED
    BY <1>4, <1>9, <2>2 DEF CancelAll, queueVars, historyVars
<1> QED
  BY <1>1, <1>2, <1>3, <1>5, <1>6, <1>7, <1>8, <1>9, <1>s DEF Continue

\* A worker inside wait_next takes the first task of the queue, or none.
LEMMA ServeLined ==
    ASSUME TypeOK, LockParts, Hands, WaitsEmptyHanded, Lined, \A v, u \in Workers : v = u,
           NEW w \in Workers, Serve(w)
    PROVE  Lined'
<1>0. Workers = {w} /\ w \in Threads
  BY DEF Threads
<1>1. UNCHANGED <<started, posted, arg>> /\ Coming' = Coming
  BY DEF Serve, RunReturns, WaitNext, Disabled, Idle, IdleWakes, TakeRegular, PopDelayed, TestPredicate,
         Block, Notified, TimesOut, CancelSeen, NotCancelled, TakeInstead, Fire, historyVars, Coming
<1>a. \A task, other : In(other, <<task>>) => task = other
  BY DEF In
<1>2. CASE UNCHANGED <<todo, task_queue>>
  BY <1>1, <1>2, FewerLined DEF Fewer, Taken
<1>3. CASE /\ pc[w] \in InWaitNext /\ todo' = [todo EXCEPT ![w] = <<Head(task_queue)>>]
           /\ task_queue # <<>> /\ task_queue' = Tail(task_queue)
  <2>1. todo[w] = <<>>
    BY <1>3 DEF WaitsEmptyHanded
  <2>2. Taken = {}
    BY <1>0, <2>1 DEF Taken, In
  <2>3. todo'[w] = <<Head(task_queue)>>
    BY <1>0, <1>3 DEF TypeOK
  <2>4. \A n \in Taken' : Head(task_queue) = Regular(n)
    BY <1>0, <1>a, <2>3 DEF Taken
  <2> QED
    BY <1>1, <1>3, <2>2, <2>4, TakesLined DEF Takes
<1>4. ASSUME NEW flag \in BOOLEAN, todo' = [todo EXCEPT ![w] = <<Delayed(cur[w], flag)>>],
             task_queue' = task_queue
      PROVE  Lined'
  <2>1. todo'[w] = <<Delayed(cur[w], flag)>>
    BY <1>0, <1>4 DEF TypeOK
  <2>2. \A n : Delayed(cur[w], flag) # Regular(n)
    BY DEF Delayed, Regular
  <2>3. Taken' = {}
    BY <1>0, <1>a, <2>1, <2>2 DEF Taken
  <2> QED
    BY <1>1, <1>4, <2>3, FewerLined DEF Fewer
<1> QED
  BY <1>2, <1>3, <1>4, ServeTakes

\* The worker goes on with one regular task at a time.
LEMMA WorkerOne ==
    ASSUME TypeOK, Lined, OneAtATime, Callers \subseteq Clients, \A v, u \in Workers : v = u,
           NEW t \in Workers, Call(t) \/ Continue(t)
    PROVE  OneAtATime'
<1>0. t \in Threads /\ Workers = {t} /\ t \notin Clients
  BY ThreadsAssumption DEF Threads
<1>1. \A id \in DelayedIds : Delayed(id, TRUE) \in AtOnce
  BY TaskTypes, ClosureKinds DEF AtOnce
<1>2. Body \in AtOnce /\ AtOnce \subseteq Task
  BY TaskTypes, ClosureKinds DEF AtOnce
<1>3. todo'[t] \in Seq(AtOnce)
  BY <1>0, <1>1, <1>2, AsideTodo DEF OneAtATime
<1>4. todo'[t] \in Seq(Other) \/ todo'[t] = todo[t]
  BY WorkerLined
<1>5. todo'[t] # <<>> => Tail(todo'[t]) \in Seq(Other)
  BY <1>4, HeadTailTypes DEF OneAtATime
<1>6. Continue(t) /\ ~Push(t) /\ ~CheckActive(t) /\ ~\E dur \in Durations : Activate(t, dur)
  BY WorkerLined
<1>7. pc'[t] \notin Posting /\ (pc'[t] = "cancel_all" => ExecStop(t) \/ (pc[t] = "cancel_all" /\ todo'[t] = todo[t]))
  BY <1>0, <1>6 DEF OneAtATime, Continue, CancelAll, ExecRegular, ExecDelayed, ExecRegister, ExecStop,
       StopQueue, Return, InUser, HasNext, Goto, Posting, TypeOK
<1>8. pc'[t] = "cancel_all" => todo'[t] \in Seq(Other)
  BY <1>7, WorkerLined DEF OneAtATime
<1>9. task_queue' \in {task_queue, <<>>} /\ arg' = arg
  BY <1>6 DEF Continue, CancelAll, ExecRegular, ExecDelayed, ExecRegister, ExecStop,
       StopQueue, Return, queueVars
<1>10. task_queue' \in Seq(AtOnce)
  BY <1>9, EmptySeq DEF OneAtATime
<1> QED
  BY <1>0, <1>3, <1>5, <1>7, <1>8, <1>9, <1>10 DEF OneAtATime

\* The client posts nothing that runs the tasks of the queue inside stop().
LEMMA ClientOne ==
    ASSUME TypeOK, FreshIds, OneAtATime, StopModes \subseteq {FALSE}, \A v, u \in Clients : v = u,
           NEW t \in Clients, Call(t) \/ Continue(t)
    PROVE  OneAtATime'
<1>0. t \in Threads /\ t \notin Workers /\ Clients = {t}
  BY ThreadsAssumption DEF Threads
<1>1. \A w \in Workers : todo'[w] = todo[w] /\ pc'[w] = pc[w]
  BY <1>0, AsideHands, CallAside, ContinueAside DEF Aside, Threads
<1>2. task_queue' \in {task_queue, <<>>} \/ task_queue' = Append(task_queue, arg[t])
  BY DEF Call, Continue, PostTask, PostDelayed, Reset, Destroy, PostStop, Stop, StopQueue,
         CancelWaiting, CancelInProcess, CheckActive, Push, Enqueue, CancelAll, Activate, ExecRegular,
         ExecDelayed, ExecRegister, ExecStop, Return, queueVars
<1>3. task_queue' \in Seq(AtOnce)
  <2>1. task_queue \in Seq(AtOnce) /\ arg[t] \in AtOnce
    BY <1>0 DEF OneAtATime
  <2>2. Append(task_queue, arg[t]) \in Seq(AtOnce) /\ <<>> \in Seq(AtOnce)
    BY <2>1, AppendProperties, EmptySeq
  <2> QED
    BY <1>2, <2>1, <2>2
<1>4. arg'[t].kind = "stop" => arg'[t].flag = FALSE
  <2> SUFFICES ASSUME arg'[t].kind = "stop" PROVE arg'[t].flag = FALSE
    OBVIOUS
  <2>1. \/ arg'[t] = arg[t] \/ arg'[t] = NoTask
        \/ \E id : arg'[t] = Register(id) \/ arg'[t] = Regular(id) \/ arg'[t] = Delayed(id, TRUE)
        \/ \E flag \in StopModes : arg'[t] = StopTask(flag)
    BY <1>0 DEF Call, Continue, PostTask, Push, PostDelayed, Reset, Destroy, PostStop, Stop, StopQueue,
         CancelWaiting, CancelInProcess, CheckActive, CancelAll, Activate, ExecRegular, BeginPost,
         ExecDelayed, ExecRegister, ExecStop, Return, queueVars, threadVars, historyVars, TypeOK
  <2>2. CASE arg'[t] = arg[t]
    BY <1>0, <2>2 DEF OneAtATime, AtOnce
  <2>3. CASE arg'[t] = NoTask
    BY <2>3, ClosureKinds
  <2>4. CASE \E id : arg'[t] = Register(id) \/ arg'[t] = Regular(id) \/ arg'[t] = Delayed(id, TRUE)
    <3>1. \A id : /\ Register(id).kind # "stop" /\ Regular(id).kind # "stop"
                  /\ Delayed(id, TRUE).kind # "stop"
      BY ClosureKinds, RegisterKind
    <3> QED
      BY <2>4, <3>1
  <2>5. CASE \E flag \in StopModes : arg'[t] = StopTask(flag)
    <3>1. \A flag \in StopModes : StopTask(flag).flag = FALSE
      BY ClosureKinds
    <3> QED
      BY <2>5, <3>1
  <2> QED
    BY <2>1, <2>2, <2>3, <2>4, <2>5
<1>5. arg'[t] \in Task
  BY <1>0, CallTypes, ContinueTypes DEF TypeOK
<1> QED
  BY <1>0, <1>1, <1>3, <1>4, <1>5 DEF OneAtATime, AtOnce

\* A worker inside wait_next comes out of it with one task.
LEMMA ServeOne ==
    ASSUME TypeOK, LockParts, Hands, OneAtATime, \A v, u \in Workers : v = u,
           NEW w \in Workers, Serve(w)
    PROVE  OneAtATime'
<1>0. w \in Threads /\ Workers = {w}
  BY DEF Threads
<1>1. arg' = arg /\ pc'[w] \notin Posting /\ pc'[w] # "cancel_all"
  BY <1>0 DEF Serve, RunReturns, WaitNext, Disabled, Idle, IdleWakes, TakeRegular, PopDelayed,
         TestPredicate, Block, Notified, TimesOut, CancelSeen, NotCancelled, TakeInstead, Fire, Looping,
         Obtain, Goto, Posting, OneAtATime, TypeOK
<1>2. task_queue \in Seq(AtOnce) /\ todo[w] \in Seq(AtOnce)
  BY DEF OneAtATime
<1>3. task_queue' \in Seq(AtOnce)
  BY <1>2, ServeHanded, HeadTailTypes
<1>t. \A task : Tail(<<task>>) = <<>>
  OBVIOUS
<1>4. ASSUME NEW task \in AtOnce, todo' = [todo EXCEPT ![w] = <<task>>]
      PROVE  todo'[w] \in Seq(AtOnce) /\ Tail(todo'[w]) \in Seq(Other)
  <2>1. todo'[w] = <<task>>
    BY <1>0, <1>4 DEF TypeOK
  <2> QED
    BY <1>t, <2>1, EmptySeq
<1>5. todo'[w] \in Seq(AtOnce) /\ (todo'[w] # <<>> => Tail(todo'[w]) \in Seq(Other))
  <2>1. CASE UNCHANGED todo
    BY <2>1 DEF OneAtATime
  <2>2. CASE task_queue # <<>> /\ todo' = [todo EXCEPT ![w] = <<Head(task_queue)>>]
    BY <1>2, <1>4, <2>2, HeadTailTypes
  <2>3. CASE Holds(w) /\ \E flag \in BOOLEAN : todo' = [todo EXCEPT ![w] = <<Delayed(cur[w], flag)>>]
    <3>1. \A flag \in BOOLEAN : Delayed(cur[w], flag) \in AtOnce
      BY <2>3, HeldIds, TaskTypes, ClosureKinds DEF Hands, AtOnce
    <3> QED
      BY <1>4, <2>3, <3>1
  <2> QED
    BY <2>1, <2>2, <2>3, ServeTakes
<1> QED
  BY <1>0, <1>1, <1>3, <1>5 DEF OneAtATime

InLine == Lined /\ OneAtATime /\ ClientsCall

\* Nothing is on its way in a new queue.
LEMMA InitInLine == Init => InLine
<1> SUFFICES ASSUME Init PROVE InLine
  OBVIOUS
<1>1. \A n : Regular(n) # NoTask
  BY DEF Regular, NoTask
<1>2. \A n : /\ ~In(Regular(n), task_queue) /\ ~In(n, started)
             /\ \A w \in Workers : ~In(Regular(n), todo[w])
  BY ThreadsAssumption DEF Init, In, Threads
<1>3. Coming = {} /\ Queued = {} /\ Taken = {} /\ Started = {}
  BY <1>1, <1>2 DEF Coming, Queued, Taken, Started, Init, Threads
<1>4. Lined
  BY <1>3 DEF Lined, Below, Fifo, QueueInOrder, Init
<1>5. Body \in ClientTask /\ NoTask \in AtOnce
  BY TaskTypes, ClosureKinds DEF ClientTask, AtOnce
<1>6. <<Body>> \in Seq(ClientTask)
  BY <1>5
<1>7. ClientsCall
  BY <1>6 DEF Init, ClientsCall, Threads
<1>8. OneAtATime
  BY <1>5, ThreadsAssumption, EmptySeq DEF Init, OneAtATime, Threads, Posting
<1> QED
  BY <1>4, <1>7, <1>8 DEF InLine

\* Every step keeps the tasks in line.
LEMMA NextInLine ==
    ASSUME \A v, w \in Workers : v = w, \A c, d \in Clients : c = d,
           Callers \subseteq Clients, StopModes \subseteq {FALSE},
           Inductive, InTime, InLine, [Next]_vars
    PROVE  InLine'
<1>0. /\ TypeOK /\ LockParts /\ Hands /\ FreshIds /\ WaitsEmptyHanded
      /\ Lined /\ OneAtATime /\ ClientsCall
  BY DEF Inductive, LockParts, Hands, InTime, InLine
<1>1. ASSUME NEW t \in Threads, Call(t) \/ Continue(t) PROVE InLine'
  <2>1. ClientsCall'
    BY <1>0, <1>1, AsideClients
  <2>2. CASE t \in Clients
    BY <1>0, <1>1, <2>1, <2>2, ClientLined, ClientOne DEF InLine
  <2>3. CASE t \in Workers
    BY <1>0, <1>1, <2>1, <2>3, WorkerLined, WorkerOne DEF InLine
  <2> QED
    BY <2>2, <2>3 DEF Threads
<1>2. ASSUME NEW w \in Workers, Serve(w) PROVE InLine'
  <2>1. ClientsCall'
    BY <1>0, <1>2, ServeHanded, ThreadsAssumption DEF ClientsCall, Threads
  <2> QED
    BY <1>0, <1>2, <2>1, ServeLined, ServeOne DEF InLine
<1>3. ASSUME UNCHANGED <<started, task_queue, todo, arg, posted>> PROVE Lined' /\ ClientsCall'
  BY <1>0, <1>3, FewerLined DEF Fewer, Taken, Coming, ClientsCall
<1>4. ASSUME NEW w \in Workers, Run(w) PROVE InLine'
  <2>1. UNCHANGED <<started, task_queue, todo, arg, posted>> /\ pc' = [pc EXCEPT ![w] = "exec"]
    BY <1>4 DEF Run, Goto, queueVars, historyVars
  <2>2. OneAtATime'
    BY <1>0, <2>1 DEF OneAtATime, Posting, TypeOK, Threads
  <2> QED
    BY <1>3, <2>1, <2>2 DEF InLine
<1>5. CASE (\E w \in Workers : SpuriousWake(w)) \/ Tick \/ UNCHANGED vars
  <2>1. UNCHANGED <<started, task_queue, todo, arg, posted>> /\ pc' = pc
    BY <1>5 DEF SpuriousWake, Tick, vars, queueVars, threadVars, historyVars
  <2>2. OneAtATime'
    BY <1>0, <2>1 DEF OneAtATime
  <2> QED
    BY <1>3, <2>1, <2>2 DEF InLine
<1> QED
  BY <1>1, <1>2, <1>4, <1>5 DEF Next

\* For one worker and one client that posts any number of tasks of either kind:
\* regular tasks start in the order they were posted in, however often the worker
\* puts a delayed task back and turns to them.
THEOREM RegularInOrder ==
    ASSUME \A v, w \in Workers : v = w, \A c, d \in Clients : c = d,
           Callers \subseteq Clients, StopModes \subseteq {FALSE}
    PROVE  Spec => []Fifo
<1>1. Init => InLine
  BY InitInLine
<1>2. Inductive /\ InTime /\ InLine /\ [Next]_vars => InLine'
  BY NextInLine
<1>3. InLine => Fifo
  BY DEF InLine, Lined
<1> QED
  BY <1>1, <1>2, <1>3, InductiveHolds, InTimeHolds, PTL DEF Spec

-----------------------------------------------------------------------------
(***************************************************************************)
(* DelayedQueue implements DelayedTimers. The handler of an id is in at    *)
(* most one place at a time: in the map, in the hands of a worker, in one  *)
(* closure of the queue or of one thread, or called; every step of the     *)
(* queue moves handlers between these places, or drops some, as one step   *)
(* of DelayedTimers allows.                                                *)
(***************************************************************************)

(***************************************************************************)
(* The ids whose call a sequence of closures holds.                        *)
(***************************************************************************)
Bears(s, flag) == {id \in DelayedIds : In(Delayed(id, flag), s)}
Borne(s) == Bears(s, TRUE) \cup Bears(s, FALSE)

\* No id is called by two closures of s.
Once(s) ==
    \A i, j \in DOMAIN s :
        s[i].kind = "delayed" /\ s[j].kind = "delayed" /\ s[i].id = s[j].id => i = j

\* A closure of kind delayed is one that calls a handler.
LEMMA DelayedClosures ==
    ASSUME NEW task \in Task
    PROVE  /\ task.kind = "delayed" <=> \E id \in DelayedIds, flag \in BOOLEAN : task = Delayed(id, flag)
           /\ task.kind = "delayed" => task.id \in DelayedIds /\ task.flag \in BOOLEAN
                                         /\ task = Delayed(task.id, task.flag)
<1>1. \A id, flag : /\ Delayed(id, flag).kind = "delayed" /\ Delayed(id, flag).id = id
                    /\ Delayed(id, flag).flag = flag
  BY ClosureKinds
<1>2. task.kind = "delayed" => \E id \in DelayedIds, flag \in BOOLEAN : task = Delayed(id, flag)
  BY ClosureKinds, RegisterKind DEF Task
<1> QED
  BY <1>1, <1>2

\* Two calls are the same only if they call the same handler in the same way.
LEMMA DelayedInjective ==
    \A id, other, flag, mode : Delayed(id, flag) = Delayed(other, mode) => id = other /\ flag = mode
BY DEF Delayed

\* The same for calls of the same kind, and of the two kinds.
LEMMA WithdrawalsDiffer ==
    /\ \A id, other : Delayed(id, TRUE) = Delayed(other, TRUE) => id = other
    /\ \A id, other : Delayed(id, FALSE) = Delayed(other, FALSE) => id = other
    /\ \A id, other : Delayed(id, TRUE) # Delayed(other, FALSE)
BY DEF Delayed

\* What a sequence calls is what its closures call.
LEMMA BorneAll ==
    ASSUME NEW s \in Seq(Task), NEW i \in DOMAIN s, s[i].kind = "delayed"
    PROVE  s[i].id \in Borne(s) /\ s[i].id \in DelayedIds
<1>1. s[i] \in Task
  BY ElementOfSeq, LenProperties
<1>2. s[i].id \in DelayedIds /\ s[i].flag \in BOOLEAN /\ s[i] = Delayed(s[i].id, s[i].flag)
  BY <1>1, DelayedClosures
<1>3. s[i].id \in Bears(s, s[i].flag)
  BY <1>2 DEF Bears, In
<1> QED
  BY <1>2, <1>3 DEF Borne

\* What one closure calls, and none.
LEMMA BearsOne ==
    ASSUME NEW task
    PROVE  /\ Once(<<task>>) /\ Once(<<>>)
           /\ Bears(<<>>, TRUE) = {} /\ Bears(<<>>, FALSE) = {}
           /\ Bears(<<task>>, TRUE) = {id \in DelayedIds : task = Delayed(id, TRUE)}
           /\ Bears(<<task>>, FALSE) = {id \in DelayedIds : task = Delayed(id, FALSE)}
<1>1. Once(<<task>>) /\ Once(<<>>)
  BY DEF Once
<1>2. ASSUME NEW flag
      PROVE  /\ Bears(<<>>, flag) = {}
             /\ Bears(<<task>>, flag) = {id \in DelayedIds : task = Delayed(id, flag)}
  BY DEF Bears, In
<1> QED
  BY <1>1, <1>2

\* What a sequence without its first closure calls.
LEMMA BearsTail ==
    ASSUME NEW s \in Seq(Task), s # <<>>, Once(s)
    PROVE  /\ Once(Tail(s))
           /\ Bears(Tail(s), TRUE) = Bears(s, TRUE) \ Borne(<<Head(s)>>)
           /\ Bears(Tail(s), FALSE) = Bears(s, FALSE) \ Borne(<<Head(s)>>)
           /\ Bears(<<Head(s)>>, TRUE) \subseteq Bears(s, TRUE)
           /\ Bears(<<Head(s)>>, FALSE) \subseteq Bears(s, FALSE)
<1>1. /\ Len(s) \in Nat /\ DOMAIN s = 1 .. Len(s) /\ Len(s) > 0
      /\ DOMAIN Tail(s) = 1 .. Len(s) - 1
      /\ \A i \in DOMAIN Tail(s) : Tail(s)[i] = s[i + 1]
      /\ Head(s) = s[1]
  BY HeadTailProperties, LenProperties
<1>2. \A i \in DOMAIN Tail(s) : i + 1 \in DOMAIN s /\ i + 1 # 1 /\ i \in Nat
  BY <1>1
<1>3. Once(Tail(s))
  <2> SUFFICES ASSUME NEW i \in DOMAIN Tail(s), NEW j \in DOMAIN Tail(s),
                      Tail(s)[i].kind = "delayed", Tail(s)[j].kind = "delayed",
                      Tail(s)[i].id = Tail(s)[j].id
               PROVE  i = j
    BY DEF Once
  <2>1. i + 1 = j + 1
    BY <1>1, <1>2 DEF Once
  <2> QED
    BY <1>2, <2>1
<1>4. ASSUME NEW flag, NEW id \in DelayedIds
      PROVE  id \in Bears(Tail(s), flag) <=>
                id \in Bears(s, flag) /\ ~(Head(s).kind = "delayed" /\ Head(s).id = id)
  <2>1. ASSUME NEW i \in DOMAIN Tail(s), Tail(s)[i] = Delayed(id, flag)
        PROVE  In(Delayed(id, flag), s) /\ ~(Head(s).kind = "delayed" /\ Head(s).id = id)
    <3>1. i + 1 \in DOMAIN s /\ s[i + 1] = Delayed(id, flag) /\ i + 1 # 1 /\ 1 \in DOMAIN s
      BY <1>1, <1>2, <2>1
    <3>2. s[i + 1].kind = "delayed" /\ s[i + 1].id = id
      BY <3>1, ClosureKinds
    <3> QED
      BY <1>1, <3>1, <3>2 DEF In, Once
  <2>2. ASSUME NEW i \in DOMAIN s, s[i] = Delayed(id, flag), ~(Head(s).kind = "delayed" /\ Head(s).id = id)
        PROVE  In(Delayed(id, flag), Tail(s))
    <3>1. i # 1
      BY <1>1, <2>2, ClosureKinds
    <3>2. i - 1 \in DOMAIN Tail(s) /\ Tail(s)[i - 1] = s[i]
      <4>1. i - 1 \in DOMAIN Tail(s) /\ (i - 1) + 1 = i
        BY <1>1, <3>1
      <4> QED
        BY <1>1, <4>1
    <3> QED
      BY <2>2, <3>2 DEF In
  <2> QED
    BY <2>1, <2>2 DEF Bears, In
<1>5. Head(s) \in Task
  BY HeadTailTypes
<1>6. \A id \in DelayedIds : id \in Borne(<<Head(s)>>) <=> Head(s).kind = "delayed" /\ Head(s).id = id
  <2>1. \A id \in DelayedIds : id \in Borne(<<Head(s)>>) <=>
           Head(s) = Delayed(id, TRUE) \/ Head(s) = Delayed(id, FALSE)
    BY BearsOne DEF Borne
  <2>2. \A id : /\ Delayed(id, TRUE).kind = "delayed" /\ Delayed(id, TRUE).id = id
               /\ Delayed(id, FALSE).kind = "delayed" /\ Delayed(id, FALSE).id = id
    BY DEF Delayed
  <2>3. Head(s).kind = "delayed" =>
           Head(s) = Delayed(Head(s).id, TRUE) \/ Head(s) = Delayed(Head(s).id, FALSE)
    <3>1. Head(s).kind = "delayed" => Head(s).flag \in BOOLEAN /\ Head(s) = Delayed(Head(s).id, Head(s).flag)
      BY <1>5, DelayedClosures
    <3>2. CASE Head(s).flag = TRUE
      BY <3>1, <3>2
    <3>3. CASE Head(s).flag = FALSE
      BY <3>1, <3>3
    <3> QED
      BY <3>1, <3>2, <3>3
  <2> QED
    BY <2>1, <2>2, <2>3
<1>7. \A id \in DelayedIds :
         /\ id \in Bears(Tail(s), TRUE) <=> id \in Bears(s, TRUE) /\ id \notin Borne(<<Head(s)>>)
         /\ id \in Bears(Tail(s), FALSE) <=> id \in Bears(s, FALSE) /\ id \notin Borne(<<Head(s)>>)
  BY <1>4, <1>6
<1>8. \A id \in DelayedIds : /\ id \in Bears(<<Head(s)>>, TRUE) => id \in Bears(s, TRUE)
                             /\ id \in Bears(<<Head(s)>>, FALSE) => id \in Bears(s, FALSE)
  <2>1. 1 \in DOMAIN s /\ s[1] = Head(s)
    BY <1>1
  <2>2. ASSUME NEW id \in DelayedIds, NEW flag, Head(s) = Delayed(id, flag) PROVE id \in Bears(s, flag)
    BY <2>1, <2>2 DEF Bears, In
  <2> QED
    BY <2>2, BearsOne
<1>9. \A u, flag : Bears(u, flag) \subseteq DelayedIds
  BY DEF Bears
<1> QED
  BY <1>3, <1>7, <1>8, <1>9

\* What two sequences call together.
LEMMA BearsConcat ==
    ASSUME NEW s \in Seq(Task), NEW u \in Seq(Task)
    PROVE  /\ Bears(s \o u, TRUE) = Bears(s, TRUE) \cup Bears(u, TRUE)
           /\ Bears(s \o u, FALSE) = Bears(s, FALSE) \cup Bears(u, FALSE)
           /\ Once(s) /\ Once(u) /\ Borne(s) \cap Borne(u) = {} => Once(s \o u)
<1>1. /\ Len(s) \in Nat /\ Len(u) \in Nat /\ DOMAIN s = 1 .. Len(s) /\ DOMAIN u = 1 .. Len(u)
      /\ DOMAIN (s \o u) = 1 .. Len(s) + Len(u)
      /\ \A i \in 1 .. Len(s) + Len(u) : (s \o u)[i] = IF i <= Len(s) THEN s[i] ELSE u[i - Len(s)]
  BY ConcatProperties, LenProperties
<1> DEFINE m == Len(s)
           n == Len(u)
           c == s \o u
<1>2. /\ m \in Nat /\ n \in Nat /\ DOMAIN s = 1 .. m /\ DOMAIN u = 1 .. n /\ DOMAIN c = 1 .. m + n
      /\ \A i \in DOMAIN c : (i <= m => c[i] = s[i]) /\ (~(i <= m) => c[i] = u[i - m])
  BY <1>1
<1> HIDE DEF m, n, c
<1>3. \A i \in DOMAIN s : i \in DOMAIN c /\ c[i] = s[i]
  BY <1>2
<1>4. \A i \in DOMAIN u : i + m \in DOMAIN c /\ c[i + m] = u[i]
  <2> SUFFICES ASSUME NEW i \in DOMAIN u PROVE i + m \in DOMAIN c /\ c[i + m] = u[i]
    OBVIOUS
  <2>1. i + m \in DOMAIN c /\ ~(i + m <= m) /\ (i + m) - m = i
    BY <1>2
  <2> QED
    BY <1>2, <2>1
<1>5. \A i \in DOMAIN c : \/ i \in DOMAIN s /\ c[i] = s[i]
                          \/ i - m \in DOMAIN u /\ c[i] = u[i - m]
  BY <1>2
<1>6. /\ Bears(c, TRUE) = Bears(s, TRUE) \cup Bears(u, TRUE)
      /\ Bears(c, FALSE) = Bears(s, FALSE) \cup Bears(u, FALSE)
  <2>1. ASSUME NEW flag PROVE Bears(c, flag) = Bears(s, flag) \cup Bears(u, flag)
    BY <1>3, <1>4, <1>5 DEF Bears, In
  <2> QED
    BY <2>1
<1>7. ASSUME Once(s), Once(u), Borne(s) \cap Borne(u) = {} PROVE Once(c)
  <2>1. \A i \in DOMAIN s : s[i].kind = "delayed" => s[i].id \in Borne(s)
    BY BorneAll
  <2>2. \A i \in DOMAIN u : u[i].kind = "delayed" => u[i].id \in Borne(u)
    BY BorneAll
  <2> SUFFICES ASSUME NEW i \in DOMAIN c, NEW j \in DOMAIN c, c[i].kind = "delayed", c[j].kind = "delayed",
                      c[i].id = c[j].id
               PROVE  i = j
    BY DEF Once
  <2>3. CASE i \in DOMAIN s /\ j \in DOMAIN s
    BY <1>3, <1>7, <2>3 DEF Once
  <2>4. CASE i \notin DOMAIN s /\ j \notin DOMAIN s
    <3>1. i - m = j - m
      BY <1>5, <1>7, <2>4 DEF Once
    <3> QED
      BY <1>2, <3>1
  <2>5. CASE (i \in DOMAIN s) # (j \in DOMAIN s)
    BY <1>3, <1>5, <1>7, <2>1, <2>2, <2>5
  <2> QED
    BY <2>3, <2>4, <2>5
<1> QED
  BY <1>6, <1>7 DEF c

\* What the call of a handler calls.
LEMMA BearsCall ==
    ASSUME NEW id \in DelayedIds, NEW task
    PROVE  /\ task = Delayed(id, TRUE) => Bears(<<task>>, TRUE) = {id} /\ Bears(<<task>>, FALSE) = {}
           /\ task = Delayed(id, FALSE) => Bears(<<task>>, FALSE) = {id} /\ Bears(<<task>>, TRUE) = {}
<1>1. /\ Bears(<<task>>, TRUE) = {other \in DelayedIds : task = Delayed(other, TRUE)}
      /\ Bears(<<task>>, FALSE) = {other \in DelayedIds : task = Delayed(other, FALSE)}
  BY BearsOne
<1> QED
  BY <1>1, WithdrawalsDiffer

\* What is called for the identifiers in s if each of them is cancelled.
CancelCalls(s) == [i \in DOMAIN s |-> Delayed(s[i], TRUE)]

\* cancel_all_delayed_tasks calls every handler of the map, once.
LEMMA BearsCalls ==
    ASSUME NEW ids \in SUBSET DelayedIds, NEW s \in InOrder(ids)
    PROVE  /\ CancelCalls(s) \in Seq(Task) /\ Once(CancelCalls(s))
           /\ Bears(CancelCalls(s), TRUE) = ids /\ Bears(CancelCalls(s), FALSE) = {}
<1> DEFINE calling == CancelCalls(s)
           n == Cardinality(ids)
<1>1. IsFiniteSet(ids) /\ n \in Nat
  <2>1. IsFiniteSet(1 .. MaxDelayed)
    BY FS_Interval, BoundsAssumption
  <2> QED
    BY <2>1, FS_Subset, FS_CardinalityType DEF DelayedIds
<1>2. s \in [1 .. n -> ids] /\ DOMAIN s = 1 .. n /\ \A i, j \in 1 .. n : i < j => s[i] < s[j]
  BY DEF InOrder
<1> HIDE DEF n
<1>3. \A i \in 1 .. n : s[i] \in Nat /\ s[i] \in ids /\ s[i] \in DelayedIds
  <2>1. \A i \in 1 .. n : s[i] \in ids
    BY <1>2
  <2>2. \A id \in DelayedIds : id \in Nat
    BY BoundsAssumption DEF DelayedIds
  <2> QED
    BY <2>1, <2>2
<1>4. \A i, j \in 1 .. n : s[i] = s[j] => i = j
  <2> SUFFICES ASSUME NEW i \in 1 .. n, NEW j \in 1 .. n, s[i] = s[j] PROVE i = j
    OBVIOUS
  <2>1. \A a, b \in Nat : a < b => a # b
    OBVIOUS
  <2>2. ~(i < j) /\ ~(j < i)
    BY <1>2, <1>3, <2>1
  <2>3. i \in Nat /\ j \in Nat
    BY <1>1
  <2> QED
    BY <2>2, <2>3
<1>5. s \in Surjection(1 .. n, ids)
  <2>1. s \in Injection(1 .. n, ids)
    BY <1>2, <1>4 DEF Injection, IsInjective
  <2>2. Cardinality(1 .. n) = n
    <3>1. 1 <= n \/ n = 0
      BY <1>1
    <3>2. \A a, b \in Int : Cardinality(a .. b) = IF a > b THEN 0 ELSE b - a + 1
      BY FS_Interval
    <3> QED
      BY <1>1, <3>1, <3>2
  <2> QED
    BY <1>1, <2>1, <2>2, FS_Injection DEF n
<1>6. \A id \in ids : \E i \in 1 .. n : s[i] = id
  BY <1>5 DEF Surjection
<1>7. calling \in Seq(Task)
  BY CancelCallsType DEF CancelCalls
<1>8. DOMAIN calling = 1 .. n /\ \A i \in 1 .. n : calling[i] = Delayed(s[i], TRUE)
  BY <1>2 DEF CancelCalls
<1> HIDE DEF calling
<1>9. Once(calling)
  <2>0. \A id : Delayed(id, TRUE).id = id
    BY ClosureKinds
  <2>1. \A i \in 1 .. n : calling[i].id = s[i]
    BY <1>8, <2>0
  <2> QED
    BY <1>4, <1>8, <2>1 DEF Once
<1>10. Bears(calling, TRUE) = ids /\ Bears(calling, FALSE) = {}
  <2>1. \A id \in ids : In(Delayed(id, TRUE), calling)
    BY <1>6, <1>8 DEF In
  <2>2. ASSUME NEW id, NEW flag, In(Delayed(id, flag), calling) PROVE id \in ids /\ flag = TRUE
    <3>1. PICK i \in 1 .. n : Delayed(s[i], TRUE) = Delayed(id, flag)
      BY <1>8, <2>2 DEF In
    <3>2. s[i] = id /\ flag = TRUE
      BY <3>1, DelayedInjective
    <3> QED
      BY <1>3, <3>2
  <2> QED
    BY <2>1, <2>2 DEF Bears
<1> QED
  BY <1>7, <1>9, <1>10 DEF calling

-----------------------------------------------------------------------------
\* The places of a handler.
Hand == {id \in DelayedIds : \E w \in Workers : Holds(w) /\ cur[w] = id}
InQueue == Bears(task_queue, TRUE)
InArg == {id \in DelayedIds : \E t \in Threads : arg[t] = Delayed(id, TRUE)}
ToCancel == {id \in DelayedIds : \E t \in Threads : In(Delayed(id, TRUE), todo[t])}
ToRun == {id \in DelayedIds : \E t \in Threads : In(Delayed(id, FALSE), todo[t])}
Called == {id \in DelayedIds : calls[id] # <<>>}
Unborn == {id \in DelayedIds : id >= next_id \/ \E t \in Threads : pc[t] = "delay" /\ arg[t] = Register(id)}

\* No two of them meet.
Apart(A, B, C, D, E, F, G, H) ==
    /\ A \cap B = {} /\ (A \cup B) \cap C = {} /\ (A \cup B \cup C) \cap D = {}
    /\ (A \cup B \cup C \cup D) \cap E = {}
    /\ (A \cup B \cup C \cup D \cup E) \cap F = {}
    /\ (A \cup B \cup C \cup D \cup E \cup F) \cap G = {}
    /\ (A \cup B \cup C \cup D \cup E \cup F \cup G) \cap H = {}

\* A handler is in one place, and there once.
Single ==
    /\ Once(task_queue)
    /\ \A t \in Threads : Once(todo[t])
    /\ \A t, u \in Threads : t # u => Borne(todo[t]) \cap Borne(todo[u]) = {}
    /\ \A id \in DelayedIds : \A t, u \in Threads :
          arg[t] = Delayed(id, TRUE) /\ arg[u] = Delayed(id, TRUE) => t = u
    /\ \A id \in DelayedIds : Len(calls[id]) =< 1
    /\ Apart(in_wait, Hand, InQueue, InArg, ToCancel, ToRun, Called, Unborn)

\* The queue is disabled, and handlers are withdrawn, only by a stop.
NoStop == {task \in Task : task.kind # "stop"}
Stopped ==
    /\ ~enabled => stops > 0
    /\ \A t \in Threads : pc[t] = "cancel_all" => stops > 0
    /\ stops = 0 => /\ task_queue \in Seq(NoStop)
                    /\ \A t \in Threads : arg[t] \in NoStop /\ todo[t] \in Seq(NoStop)

\* A worker that finds its task cancelled, and one that runs it, has a reason.
Marked == \A w \in Workers : Holds(w) /\ cur[w] \notin in_process => cur[w] \in asked
DueCalls == stops = 0 => \A id \in ToRun : expires[id] =< now

\* Only a thread that posts a closure has one to post.
Posted == \A t \in Threads : pc[t] \notin Posting => arg[t] = NoTask

\* What every step keeps.
Kept == Single /\ Stopped /\ Marked /\ DueCalls /\ Posted

-----------------------------------------------------------------------------
(***************************************************************************)
(* What became of the handlers, seen from the places they are in.          *)
(***************************************************************************)
\* What the queue substitutes for life in DelayedTimers, and the same seen from
\* the places.
LifeOf == [id \in DelayedIds |-> IF Len(calls[id]) > 1 THEN "twice" ELSE Life(id)]

Withdrawn == InQueue \cup InArg \cup ToCancel
Pending == in_wait \cup Hand \cup ToRun

Fates == [id \in DelayedIds |->
            IF id \in Called THEN IF calls[id][1] THEN "aborted" ELSE "ran"
            ELSE IF id \in Unborn THEN "new"
            ELSE IF id \in Withdrawn THEN "withdrawn"
            ELSE IF id \in Pending THEN "pending" ELSE "dropped"]

\* The refinement mapping is that view.
LEMMA LifeIsFate == TypeOK /\ Single /\ OnlyWithdrawals => LifeOf = Fates
<1> SUFFICES ASSUME TypeOK, Single, OnlyWithdrawals, NEW id \in DelayedIds
             PROVE  LifeOf[id] = Fates[id]
  BY DEF LifeOf, Fates
<1>1. ~(Len(calls[id]) > 1)
  BY DEF Single, TypeOK
<1>2. InFlight(Delayed(id, TRUE)) <=> id \in Withdrawn
  BY DEF InFlight, Withdrawn, InQueue, InArg, ToCancel, Bears
<1>3. InFlight(Delayed(id, FALSE)) <=> id \in ToRun
  <2>1. ~Withdrawal(Delayed(id, FALSE))
    BY WithdrawalKinds
  <2>2. ~In(Delayed(id, FALSE), task_queue) /\ \A t \in Threads : arg[t] # Delayed(id, FALSE)
    BY <2>1 DEF OnlyWithdrawals, In
  <2> QED
    BY <2>2 DEF InFlight, ToRun
<1>4. (id >= next_id \/ \E t \in Threads : pc[t] = "delay" /\ arg[t] = Register(id)) <=> id \in Unborn
  BY DEF Unborn
<1>5. (id \in in_wait \/ InFlight(Delayed(id, FALSE)) \/ \E w \in Workers : Holds(w) /\ cur[w] = id)
        <=> id \in Pending
  BY <1>3 DEF Pending, Hand
<1>6. calls[id] # <<>> <=> id \in Called
  BY DEF Called
<1>7. LifeOf[id] = Life(id)
  BY <1>1 DEF LifeOf
<1> QED
  BY <1>2, <1>4, <1>5, <1>6, <1>7 DEF Life, Fates

\* The closures of a thread are replaced: what they call goes, and what the new
\* ones call comes.
LEMMA TodoMoves ==
    ASSUME TypeOK, Single, NEW t \in Threads, NEW s \in Seq(Task),
           todo' = [todo EXCEPT ![t] = s], Once(s),
           \A id \in Borne(s) : id \in Borne(todo[t]) \/ id \notin ToCancel \cup ToRun
    PROVE  /\ ToCancel' = (ToCancel \ Bears(todo[t], TRUE)) \cup Bears(s, TRUE)
           /\ ToRun' = (ToRun \ Bears(todo[t], FALSE)) \cup Bears(s, FALSE)
           /\ \A u \in Threads : Once(todo'[u])
           /\ \A u, v \in Threads : u # v => Borne(todo'[u]) \cap Borne(todo'[v]) = {}
<1>1. todo'[t] = s /\ \A u \in Threads : u # t => todo'[u] = todo[u]
  BY DEF TypeOK
<1>2. \A u \in Threads : Borne(todo[u]) \subseteq ToCancel \cup ToRun
  BY DEF Borne, Bears, ToCancel, ToRun
<1>3. \A u, v \in Threads : u # v => Borne(todo[u]) \cap Borne(todo[v]) = {}
  BY DEF Single
<1>4. \A u \in Threads : u # t => Borne(todo[u]) \cap Borne(s) = {}
  BY <1>2, <1>3
<1>5. \A u, v \in Threads : u # v => Borne(todo'[u]) \cap Borne(todo'[v]) = {}
  BY <1>1, <1>3, <1>4
<1>6. \A u \in Threads : Once(todo'[u])
  BY <1>1 DEF Single
<1>7. ASSUME NEW id \in DelayedIds, NEW flag \in BOOLEAN
      PROVE  (\E u \in Threads : In(Delayed(id, flag), todo'[u])) <=>
               \/ id \in Bears(s, flag)
               \/ id \notin Bears(todo[t], flag) /\ \E u \in Threads : In(Delayed(id, flag), todo[u])
  <2>1. \A u \in Threads : In(Delayed(id, flag), todo[u]) => id \in Borne(todo[u])
    BY DEF Borne, Bears
  <2>2. id \in Bears(s, flag) <=> In(Delayed(id, flag), s)
    BY DEF Bears
  <2>3. id \in Bears(todo[t], flag) <=> In(Delayed(id, flag), todo[t])
    BY DEF Bears
  <2> QED
    BY <1>1, <1>3, <2>1, <2>2, <2>3
<1> QED
  BY <1>5, <1>6, <1>7 DEF ToCancel, ToRun, Bears

\* A thread posts another closure than before, or none.
LEMMA ArgMoves ==
    ASSUME TypeOK, Single, NEW t \in Threads, NEW task, arg' = [arg EXCEPT ![t] = task],
           \A id \in InArg : task # Delayed(id, TRUE)
    PROVE  /\ InArg' = (InArg \ {id \in DelayedIds : arg[t] = Delayed(id, TRUE)})
                          \cup {id \in DelayedIds : task = Delayed(id, TRUE)}
           /\ \A id \in DelayedIds : \A u, v \in Threads :
                 arg'[u] = Delayed(id, TRUE) /\ arg'[v] = Delayed(id, TRUE) => u = v
<1>1. arg'[t] = task /\ \A u \in Threads : u # t => arg'[u] = arg[u]
  BY DEF TypeOK
<1>2. \A id \in DelayedIds : \A u, v \in Threads :
         arg[u] = Delayed(id, TRUE) /\ arg[v] = Delayed(id, TRUE) => u = v
  BY DEF Single
<1> QED
  BY <1>1, <1>2 DEF InArg

\* The parts of Single by the variables they are about.
ArgsOnce == \A id \in DelayedIds : \A u, v \in Threads :
                arg[u] = Delayed(id, TRUE) /\ arg[v] = Delayed(id, TRUE) => u = v
TodosOnce == /\ \A t \in Threads : Once(todo[t])
             /\ \A t, u \in Threads : t # u => Borne(todo[t]) \cap Borne(todo[u]) = {}
CallsOnce == \A id \in DelayedIds : Len(calls[id]) =< 1
Spread == Apart(in_wait, Hand, InQueue, InArg, ToCancel, ToRun, Called, Unborn)

\* The parts of Single.
LEMMA SingleParts == Single <=> Once(task_queue) /\ TodosOnce /\ ArgsOnce /\ CallsOnce /\ Spread
BY DEF Single, TodosOnce, ArgsOnce, CallsOnce, Spread

\* A step that only posts a closure that calls no handler, or changes no closure.
LEMMA NothingMoves ==
    ASSUME Single, UNCHANGED <<in_wait, task_queue, todo, calls>>,
           Hand' = Hand, Unborn' = Unborn, InArg' = InArg, ArgsOnce'
    PROVE  Single' /\ Fates' = Fates
<1>1. UNCHANGED <<InQueue, ToCancel, ToRun, Called>>
  BY DEF InQueue, ToCancel, ToRun, Called
<1>2. Spread'
  BY <1>1, SingleParts DEF Spread, Apart
<1>3. Once(task_queue)' /\ TodosOnce' /\ CallsOnce'
  BY SingleParts DEF TodosOnce, CallsOnce
<1>4. Single'
  BY <1>2, <1>3 DEF Single, TodosOnce, ArgsOnce, CallsOnce, Spread
<1>5. Withdrawn' = Withdrawn /\ Pending' = Pending
  BY <1>1 DEF Withdrawn, Pending
<1> QED
  BY <1>1, <1>4, <1>5 DEF Fates

\* A worker holds the same task after a step of another thread.
LEMMA AsideHand ==
    ASSUME TypeOK, NEW t \in Threads, Call(t) \/ Continue(t)
    PROVE  Hand' = Hand
<1>1. Aside(t)
  BY CallAside, ContinueAside
<1>2. \A w \in Workers : (Holds(w))' = Holds(w) /\ cur'[w] = cur[w]
  BY <1>1 DEF Aside, Holds, HasTask, InWaitNext, Inside, Threads
<1> QED
  BY <1>2 DEF Hand

\* An id is born when its handler enters the map.
LEMMA AsideUnborn ==
    ASSUME TypeOK, FreshIds, NEW t \in Threads, Call(t) \/ Continue(t)
    PROVE  /\ pc[t] # "delay" => Unborn' = Unborn
           /\ pc[t] = "delay" => /\ arg[t].id \in Unborn /\ Unborn' = Unborn \ {arg[t].id}
                                 /\ arg[t] = Register(arg[t].id) /\ arg'[t] = arg[t]
<1>1. CASE PostDelayed(t)
  <2>1. /\ next_id' = next_id + 1 /\ pc[t] = "exec"
        /\ \A u \in Threads : u # t => pc'[u] = pc[u] /\ arg'[u] = arg[u]
        /\ pc'[t] = "delay" /\ arg'[t] = Register(next_id)
    BY <1>1 DEF PostDelayed, MayCall, InUser, Goto, TypeOK
  <2>2. \A id \in DelayedIds : id \in Nat /\ next_id \in Nat
    BY BoundsAssumption DEF DelayedIds, TypeOK
  <2>3. \A m, n \in Nat : m >= n <=> m >= n + 1 \/ m = n
    OBVIOUS
  <2>4. \A id \in DelayedIds : id >= next_id <=> id >= next_id' \/ id = next_id
    BY <2>1, <2>2, <2>3
  <2>5. \A id, other : Register(id) = Register(other) => id = other
    BY DEF Register
  <2>6. ASSUME NEW id \in DelayedIds PROVE id \in Unborn' <=> id \in Unborn
    <3>1. (\E u \in Threads : pc'[u] = "delay" /\ arg'[u] = Register(id)) <=>
            id = next_id \/ \E u \in Threads : pc[u] = "delay" /\ arg[u] = Register(id)
      BY <2>1, <2>5
    <3> QED
      BY <2>4, <3>1 DEF Unborn
  <2> QED
    BY <2>1, <2>6 DEF Unborn
<1>2. CASE \E dur \in Durations : Activate(t, dur)
  <2>1. /\ UNCHANGED <<next_id, arg>> /\ pc[t] = "delay" /\ pc'[t] = "post"
        /\ \A u \in Threads : u # t => pc'[u] = pc[u]
    BY <1>2 DEF Activate, Goto, TypeOK
  <2>2. arg[t].kind = "register" /\ arg[t] \in Task /\ arg[t].id < next_id
        /\ \A u \in Threads : pc[u] = "delay" /\ arg[u].id = arg[t].id => u = t
    BY <2>1 DEF FreshIds, TypeOK
  <2>3. arg[t].id \in DelayedIds /\ Register(arg[t].id) = arg[t]
    BY <2>2, TaskKinds, ClosureKinds, RegisterKind DEF Task
  <2>4. ~(arg[t].id >= next_id)
    <3>1. \A m, n \in Nat : m < n => ~(m >= n)
      OBVIOUS
    <3> QED
      BY <2>2, <2>3, <3>1, BoundsAssumption DEF DelayedIds, TypeOK
  <2>5. \A id : Register(id).id = id
    BY RegisterKind
  <2>6. arg[t].id \in Unborn
    BY <2>1, <2>3 DEF Unborn
  <2>7. ASSUME NEW id \in DelayedIds PROVE id \in Unborn' <=> id \in Unborn /\ id # arg[t].id
    BY <2>1, <2>2, <2>3, <2>4, <2>5 DEF Unborn
  <2> QED
    BY <2>1, <2>3, <2>6, <2>7 DEF Unborn
<1>3. CASE ~PostDelayed(t) /\ ~\E dur \in Durations : Activate(t, dur)
  <2>1. next_id' = next_id /\ pc'[t] # "delay" /\ pc[t] # "delay"
        /\ \A u \in Threads : u # t => pc'[u] = pc[u] /\ arg'[u] = arg[u]
    BY <1>3 DEF Call, Continue, PostTask, Reset, Destroy, PostStop, Stop, StopQueue,
       CancelWaiting, CancelInProcess, CheckActive, Push, CancelAll, ExecRegular, MayCall, InUser,
       ExecDelayed, ExecRegister, ExecStop, Return, BeginPost, Goto, HasNext,
       queueVars, idVars, threadVars, TypeOK
  <2> QED
    BY <2>1 DEF Unborn
<1> QED
  BY <1>1, <1>2, <1>3

\* Posting a task or a stop, drawing an id, resetting the queue, and asking for the
\* cancellation of a task a worker holds, move no handler.
LEMMA CallsMoveNothing ==
    ASSUME TypeOK, FreshIds, Single, Posted, NEW t \in Threads,
           \/ PostTask(t) \/ PostDelayed(t) \/ Reset(t)
           \/ \E waitRegular \in StopModes : PostStop(t, waitRegular)
           \/ \E id \in DelayedIds : CancelInProcess(t, id)
    PROVE  Single' /\ Fates' = Fates
<1>0. Call(t)
  BY DEF Call
<1>1. Hand' = Hand /\ Unborn' = Unborn
  BY <1>0, AsideHand, AsideUnborn DEF PostTask, PostDelayed, Reset, PostStop, CancelInProcess, MayCall, InUser
<1>2. UNCHANGED <<in_wait, task_queue, todo, calls>>
  BY DEF PostTask, PostDelayed, Reset, PostStop, CancelInProcess, queueVars, activeVars, threadVars, historyVars
<1>3. \A n, id : Regular(n) # Delayed(id, TRUE) /\ Register(n) # Delayed(id, TRUE)
                /\ StopTask(n) # Delayed(id, TRUE) /\ NoTask # Delayed(id, TRUE)
  BY DEF Regular, Register, StopTask, NoTask, Delayed
<1>4. CASE arg' = arg
  BY <1>1, <1>2, <1>4, SingleParts, NothingMoves DEF InArg, ArgsOnce
<1>5. CASE arg' # arg
  <2>1. PICK n : arg' = [arg EXCEPT ![t] = Regular(n)] \/ arg' = [arg EXCEPT ![t] = Register(n)]
                 \/ arg' = [arg EXCEPT ![t] = StopTask(n)]
    BY <1>5 DEF PostTask, PostDelayed, Reset, PostStop, CancelInProcess, BeginPost, threadVars
  <2>2. arg[t] = NoTask
    BY <1>5 DEF PostTask, PostDelayed, Reset, PostStop, CancelInProcess, BeginPost, threadVars,
         MayCall, InUser, Posted, Posting
  <2>3. ASSUME NEW task, arg' = [arg EXCEPT ![t] = task], \A id : task # Delayed(id, TRUE)
        PROVE  InArg' = InArg /\ ArgsOnce'
    <3>1. \A id \in InArg : task # Delayed(id, TRUE)
      BY <2>3
    <3>2. InArg' = (InArg \ {id \in DelayedIds : arg[t] = Delayed(id, TRUE)})
                     \cup {id \in DelayedIds : task = Delayed(id, TRUE)}
          /\ ArgsOnce'
      BY <2>3, <3>1, ArgMoves DEF ArgsOnce
    <3> QED
      BY <1>3, <2>2, <2>3, <3>2
  <2>4. InArg' = InArg /\ ArgsOnce'
    BY <1>3, <2>1, <2>3
  <2> QED
    BY <1>1, <1>2, <2>4, NothingMoves
<1> QED
  BY <1>4, <1>5

-----------------------------------------------------------------------------
(***************************************************************************)
(* Every step of the queue is a step of DelayedTimers, or none.            *)
(***************************************************************************)
\* A step of DelayedTimers, under the refinement mapping.
Halted == stops > 0 \/ ~alive
Step == [Timers!Next]_(Timers!tvars)

\* What the places say of a handler's fate.
LEMMA FateOf ==
    ASSUME Single
    PROVE  /\ \A id \in Unborn : Fates[id] = "new"
           /\ \A id \in Withdrawn : Fates[id] = "withdrawn"
           /\ \A id \in Pending \cap DelayedIds : Fates[id] = "pending"
           /\ \A id \in DelayedIds : Fates[id] = "new" => id \in Unborn
<1>1. Spread
  BY SingleParts
<1>2. Unborn \cap Called = {} /\ Withdrawn \cap (Called \cup Unborn) = {}
      /\ Pending \cap (Called \cup Unborn \cup Withdrawn) = {}
  BY <1>1 DEF Spread, Apart, Withdrawn, Pending
<1>3. Unborn \subseteq DelayedIds /\ Withdrawn \subseteq DelayedIds
  BY DEF Unborn, Withdrawn, InQueue, InArg, ToCancel, Bears
<1> QED
  BY <1>2, <1>3 DEF Fates

\* What a step that leaves a part of the state alone leaves where it is.
LEMMA Unmoved ==
    ASSUME Single
    PROVE  /\ UNCHANGED task_queue => InQueue' = InQueue /\ Once(task_queue)'
           /\ UNCHANGED todo => ToCancel' = ToCancel /\ ToRun' = ToRun /\ TodosOnce'
           /\ UNCHANGED arg => InArg' = InArg /\ ArgsOnce'
           /\ UNCHANGED calls => Called' = Called /\ CallsOnce'
BY SingleParts DEF InQueue, ToCancel, ToRun, TodosOnce, InArg, ArgsOnce, Called, CallsOnce

\* The view of the handlers is their life in DelayedTimers, whose steps are these.
LEMMA TimerSteps ==
    ASSUME LifeOf = Fates, LifeOf' = Fates'
    PROVE  /\ \A id \in DelayedIds : \A dur \in Durations :
                 /\ Fates[id] = "new" /\ Fates' = [Fates EXCEPT ![id] = "pending"]
                 /\ expires' = [expires EXCEPT ![id] = now + dur]
                 /\ UNCHANGED <<now, asked, Halted>>
                 => Step
           /\ \A id \in DelayedIds :
                 /\ Fates[id] # "new" /\ asked' = asked \cup {id}
                 /\ \/ Fates' = Fates
                    \/ Fates[id] = "pending" /\ Fates' = [Fates EXCEPT ![id] = "withdrawn"]
                 /\ UNCHANGED <<expires, now, Halted>>
                 => Step
           /\ \A id \in DelayedIds :
                 /\ \/ Fates[id] = "pending" /\ id \in asked /\ Fates' = [Fates EXCEPT ![id] = "withdrawn"]
                    \/ /\ Fates[id] = "pending"
                       /\ expires[id] =< now \/ Halted
                       /\ Fates' = [Fates EXCEPT ![id] = "ran"]
                    \/ Fates[id] = "withdrawn" /\ Fates' = [Fates EXCEPT ![id] = "aborted"]
                 /\ UNCHANGED <<expires, now, asked, Halted>>
                 => Step
           /\ \A some, lost \in SUBSET DelayedIds :
                 /\ Halted'
                 /\ \A id \in some : Fates[id] = "pending"
                 /\ \A id \in lost : Fates[id] = "withdrawn"
                 /\ Fates' = [id \in DelayedIds |-> IF id \in some THEN "withdrawn"
                                                    ELSE IF id \in lost THEN "dropped" ELSE Fates[id]]
                 /\ UNCHANGED <<expires, now, asked>>
                 => Step
           /\ now' = now + 1 /\ UNCHANGED <<Fates, expires, asked, Halted>> => Step
           /\ UNCHANGED <<Fates, expires, now, asked, Halted>> => Step
<1>1. ASSUME NEW id \in DelayedIds, NEW dur \in Durations,
             Fates[id] = "new", Fates' = [Fates EXCEPT ![id] = "pending"],
             expires' = [expires EXCEPT ![id] = now + dur],
             UNCHANGED <<now, asked, Halted>>
      PROVE  Step
  <2>1. Timers!Post(id, dur)
    BY <1>1 DEF Timers!Post, Timers!Become, LifeOf, Halted
  <2> QED
    BY <2>1 DEF Step, Timers!Next
<1>2. ASSUME NEW id \in DelayedIds, Fates[id] # "new", asked' = asked \cup {id},
             \/ Fates' = Fates
             \/ Fates[id] = "pending" /\ Fates' = [Fates EXCEPT ![id] = "withdrawn"],
             UNCHANGED <<expires, now, Halted>>
      PROVE  Step
  <2>1. Timers!Cancel(id)
    BY <1>2 DEF Timers!Cancel, Timers!Become, LifeOf, Halted
  <2> QED
    BY <2>1 DEF Step, Timers!Next
<1>3. ASSUME NEW id \in DelayedIds, UNCHANGED <<expires, now, asked, Halted>>,
             \/ Fates[id] = "pending" /\ id \in asked /\ Fates' = [Fates EXCEPT ![id] = "withdrawn"]
             \/ /\ Fates[id] = "pending"
                /\ expires[id] =< now \/ Halted
                /\ Fates' = [Fates EXCEPT ![id] = "ran"]
             \/ Fates[id] = "withdrawn" /\ Fates' = [Fates EXCEPT ![id] = "aborted"]
      PROVE  Step
  <2>1. Timers!Withdraw(id) \/ Timers!RunHandler(id) \/ Timers!Abort(id)
    BY <1>3 DEF Timers!Withdraw, Timers!RunHandler, Timers!Abort, Timers!Become, LifeOf, Halted
  <2> QED
    BY <2>1 DEF Step, Timers!Next
<1>4. ASSUME NEW some \in SUBSET DelayedIds, NEW lost \in SUBSET DelayedIds, Halted',
             \A id \in some : Fates[id] = "pending", \A id \in lost : Fates[id] = "withdrawn",
             Fates' = [id \in DelayedIds |-> IF id \in some THEN "withdrawn"
                                             ELSE IF id \in lost THEN "dropped" ELSE Fates[id]],
             UNCHANGED <<expires, now, asked>>
      PROVE  Step
  <2>1. Timers!Halt(some, lost)
    BY <1>4 DEF Timers!Halt, LifeOf, Halted
  <2>2. some \in SUBSET Timers!InState("pending") /\ lost \in SUBSET Timers!InState("withdrawn")
    BY <1>4 DEF Timers!InState, LifeOf
  <2> QED
    BY <2>1, <2>2 DEF Step, Timers!Next
<1>5. now' = now + 1 /\ UNCHANGED <<Fates, expires, asked, Halted>> => Step
  <2>1. now' = now + 1 /\ UNCHANGED <<Fates, expires, asked, Halted>> => Timers!Tick
    BY DEF Timers!Tick, LifeOf, Halted
  <2> QED
    BY <2>1 DEF Step, Timers!Next
<1>6. UNCHANGED <<Fates, expires, now, asked, Halted>> => Step
  BY DEF Step, Timers!tvars, LifeOf, Halted
<1> QED
  BY <1>1, <1>2, <1>3, <1>4, <1>5, <1>6

\* What is shown of every action.
Refines == Single' /\ (LifeOf = Fates /\ LifeOf' = Fates' => Step)

\* post_delayed_task enters a handler in the map.
LEMMA ActivateRefines ==
    ASSUME TypeOK, FreshIds, Single, NEW t \in Threads, NEW dur \in Durations, Activate(t, dur)
    PROVE  Refines
<1> DEFINE id == arg[t].id
<1>0. Continue(t) /\ pc[t] = "delay"
  BY DEF Continue, Activate
<1>1. Hand' = Hand /\ Unborn' = Unborn \ {id} /\ id \in Unborn /\ id \in DelayedIds
  BY <1>0, AsideHand, AsideUnborn DEF Unborn
<1>2. in_wait' = in_wait \cup {id} /\ expires' = [expires EXCEPT ![id] = now + dur]
  BY DEF Activate, ToWaitMap
<1>3. UNCHANGED <<task_queue, todo, arg, calls, now, asked, stops, alive>>
  BY DEF Activate, queueVars, historyVars
<1> HIDE DEF id
<1>4. /\ InQueue' = InQueue /\ ToCancel' = ToCancel /\ ToRun' = ToRun /\ InArg' = InArg
      /\ Called' = Called /\ Once(task_queue)' /\ TodosOnce' /\ ArgsOnce' /\ CallsOnce'
  BY <1>3, Unmoved
<1>5. Spread
  BY SingleParts
<1>6. Spread'
  BY <1>1, <1>2, <1>4, <1>5 DEF Spread, Apart
<1>7. Single'
  BY <1>4, <1>6 DEF Single, TodosOnce, ArgsOnce, CallsOnce, Spread
<1>8. Withdrawn' = Withdrawn /\ Pending' = Pending \cup {id}
  BY <1>1, <1>2, <1>4 DEF Withdrawn, Pending
<1>9. id \notin Called /\ id \notin Withdrawn
  BY <1>1, <1>5 DEF Spread, Apart, Withdrawn
<1>10. Fates' = [Fates EXCEPT ![id] = "pending"]
  BY <1>1, <1>3, <1>4, <1>8, <1>9 DEF Fates
<1>11. Fates[id] = "new"
  BY <1>1, FateOf
<1>12. Halted' = Halted
  BY <1>3 DEF Halted
<1>13. LifeOf = Fates /\ LifeOf' = Fates' => Step
  BY <1>1, <1>2, <1>3, <1>10, <1>11, <1>12, TimerSteps
<1> QED
  BY <1>7, <1>13 DEF Refines

\* cancel_delayed_task takes a handler out of the map and posts its call.
LEMMA CancelWaitingRefines ==
    ASSUME TypeOK, FreshIds, Single, Posted, NEW t \in Threads, NEW id \in DelayedIds,
           CancelWaiting(t, id)
    PROVE  Refines
<1>0. Call(t) /\ pc[t] = "exec"
  BY DEF Call, CancelWaiting, MayCall, InUser
<1>1. Hand' = Hand /\ Unborn' = Unborn
  BY <1>0, AsideHand, AsideUnborn
<1>2. /\ in_wait' = in_wait \ {id} /\ asked' = asked \cup {id} /\ id \in in_wait
      /\ arg' = [arg EXCEPT ![t] = Delayed(id, TRUE)]
  BY DEF CancelWaiting, BeginPost
<1>3. UNCHANGED <<task_queue, todo, calls, expires, now, stops, alive>>
  BY DEF CancelWaiting, queueVars, idVars
<1>4. /\ InQueue' = InQueue /\ ToCancel' = ToCancel /\ ToRun' = ToRun
      /\ Called' = Called /\ Once(task_queue)' /\ TodosOnce' /\ CallsOnce'
  BY <1>3, Unmoved
<1>5. Spread
  BY SingleParts
<1>6. InArg' = InArg \cup {id} /\ ArgsOnce'
  <2>1. arg[t] = NoTask
    BY <1>0 DEF Posted, Posting
  <2>2. \A other : NoTask # Delayed(other, TRUE)
    BY DEF NoTask, Delayed
  <2>3. \A other \in InArg : Delayed(id, TRUE) # Delayed(other, TRUE)
    BY <1>2, <1>5, WithdrawalsDiffer DEF Spread, Apart
  <2>4. /\ InArg' = (InArg \ {other \in DelayedIds : arg[t] = Delayed(other, TRUE)})
                     \cup {other \in DelayedIds : Delayed(id, TRUE) = Delayed(other, TRUE)}
        /\ ArgsOnce'
    BY <1>2, <2>3, ArgMoves DEF ArgsOnce
  <2> QED
    BY <2>1, <2>2, <2>4, WithdrawalsDiffer
<1>7. Spread'
  BY <1>1, <1>2, <1>4, <1>5, <1>6 DEF Spread, Apart
<1>8. Single'
  BY <1>4, <1>6, <1>7 DEF Single, TodosOnce, ArgsOnce, CallsOnce, Spread
<1>9. Withdrawn' = Withdrawn \cup {id} /\ Pending' = Pending \ {id} /\ id \in Pending
      /\ id \notin Called \cup Unborn
  BY <1>1, <1>2, <1>4, <1>5, <1>6 DEF Withdrawn, Pending, Spread, Apart
<1>10. Fates' = [Fates EXCEPT ![id] = "withdrawn"]
  BY <1>1, <1>3, <1>4, <1>9 DEF Fates
<1>11. Fates[id] = "pending"
  BY <1>9, FateOf
<1>12. Halted' = Halted
  BY <1>3 DEF Halted
<1>13. LifeOf = Fates /\ LifeOf' = Fates' => Step
  BY <1>2, <1>3, <1>10, <1>11, <1>12, TimerSteps
<1> QED
  BY <1>8, <1>13 DEF Refines

\* What a stop may do to the timers.
LEMMA HaltSteps ==
    ASSUME LifeOf = Fates, LifeOf' = Fates', Halted', UNCHANGED <<expires, now, asked>>
    PROVE  /\ Fates' = Fates => Step
           /\ \A lost \in SUBSET DelayedIds :
                 /\ \A id \in lost : Fates[id] = "withdrawn"
                 /\ \A id \in DelayedIds : Fates'[id] = IF id \in lost THEN "dropped" ELSE Fates[id]
                 => Step
           /\ \A some \in SUBSET DelayedIds :
                 /\ \A id \in some : Fates[id] = "pending"
                 /\ \A id \in DelayedIds : Fates'[id] = IF id \in some THEN "withdrawn" ELSE Fates[id]
                 => Step
<1>1. ASSUME NEW some \in SUBSET DelayedIds, NEW lost \in SUBSET DelayedIds,
             \A id \in some : Fates[id] = "pending", \A id \in lost : Fates[id] = "withdrawn",
             \A id \in DelayedIds : Fates'[id] = IF id \in some THEN "withdrawn"
                                                 ELSE IF id \in lost THEN "dropped" ELSE Fates[id]
      PROVE  Step
  <2> DEFINE f == [id \in DelayedIds |-> IF id \in some THEN "withdrawn"
                                         ELSE IF id \in lost THEN "dropped" ELSE Fates[id]]
  <2>1. Fates' = [id \in DelayedIds |-> Fates'[id]]
    BY DEF Fates
  <2>2. Fates' = f
    BY <1>1, <2>1
  <2> QED
    BY <1>1, <2>2, TimerSteps
<1>2. ASSUME Fates' = Fates PROVE Step
  <2> DEFINE none == {}
  <2>1. none \in SUBSET DelayedIds /\ \A id : id \notin none
    OBVIOUS
  <2> HIDE DEF none
  <2>2. \A id \in DelayedIds : Fates'[id] = IF id \in none THEN "withdrawn"
                                          ELSE IF id \in none THEN "dropped" ELSE Fates[id]
    BY <1>2, <2>1
  <2> QED
    BY <1>1, <2>1, <2>2
<1>3. ASSUME NEW lost \in SUBSET DelayedIds, \A id \in lost : Fates[id] = "withdrawn",
             \A id \in DelayedIds : Fates'[id] = IF id \in lost THEN "dropped" ELSE Fates[id]
      PROVE  Step
  <2> DEFINE none == {}
  <2>1. none \in SUBSET DelayedIds /\ \A id : id \notin none
    OBVIOUS
  <2> HIDE DEF none
  <2>2. \A id \in DelayedIds : Fates'[id] = IF id \in none THEN "withdrawn"
                                          ELSE IF id \in lost THEN "dropped" ELSE Fates[id]
    BY <1>3, <2>1
  <2> QED
    BY <1>1, <1>3, <2>1, <2>2
<1>4. ASSUME NEW some \in SUBSET DelayedIds, \A id \in some : Fates[id] = "pending",
             \A id \in DelayedIds : Fates'[id] = IF id \in some THEN "withdrawn" ELSE Fates[id]
      PROVE  Step
  <2> DEFINE none == {}
  <2>1. none \in SUBSET DelayedIds /\ \A id : id \notin none
    OBVIOUS
  <2> HIDE DEF none
  <2>2. \A id \in DelayedIds : Fates'[id] = IF id \in some THEN "withdrawn"
                                          ELSE IF id \in none THEN "dropped" ELSE Fates[id]
    BY <1>4, <2>1
  <2> QED
    BY <1>1, <1>4, <2>1, <2>2
<1> QED
  BY <1>2, <1>3, <1>4

\* Posting and resetting change nothing, a stop that is posted will halt the timers,
\* and a cancel of a task a worker holds leaves a mark.
LEMMA CallsRefine ==
    ASSUME TypeOK, FreshIds, Single, Posted, NEW t \in Threads,
           \/ PostTask(t) \/ PostDelayed(t) \/ Reset(t)
           \/ \E waitRegular \in StopModes : PostStop(t, waitRegular)
           \/ \E id \in DelayedIds : CancelInProcess(t, id)
    PROVE  Refines
<1>1. Single' /\ Fates' = Fates
  BY CallsMoveNothing
<1>2. ASSUME LifeOf = Fates, LifeOf' = Fates' PROVE Step
  <2>1. CASE PostTask(t) \/ PostDelayed(t) \/ Reset(t)
    <3>1. UNCHANGED <<now, asked, stops, alive>> /\ expires' = expires
      BY <2>1 DEF PostTask, PostDelayed, Reset, idVars, historyVars
    <3>2. Halted' = Halted
      BY <3>1 DEF Halted
    <3> QED
      BY <1>1, <1>2, <3>1, <3>2, TimerSteps
  <2>2. CASE \E waitRegular \in StopModes : PostStop(t, waitRegular)
    <3>1. UNCHANGED <<now, asked, expires>> /\ stops' = stops + 1
      BY <2>2 DEF PostStop, idVars
    <3>2. Halted'
      BY <3>1 DEF Halted, TypeOK
    <3> QED
      BY <1>1, <1>2, <3>1, <3>2, HaltSteps
  <2>3. ASSUME NEW id \in DelayedIds, CancelInProcess(t, id) PROVE Step
    <3>1. UNCHANGED <<now, expires, stops, alive>> /\ asked' = asked \cup {id} /\ Issued(id)
      BY <2>3 DEF CancelInProcess, idVars
    <3>2. id \notin Unborn
      <4>1. \A m, n \in Nat : m < n => ~(m >= n)
        OBVIOUS
      <4> QED
        BY <3>1, <4>1, BoundsAssumption DEF Issued, Unborn, DelayedIds, TypeOK
    <3>3. Fates[id] # "new"
      BY <3>2, FateOf
    <3>4. Halted' = Halted
      BY <3>1 DEF Halted
    <3> QED
      BY <1>1, <1>2, <3>1, <3>3, <3>4, TimerSteps
  <2> QED
    BY <2>1, <2>2, <2>3
<1> QED
  BY <1>1, <1>2 DEF Refines

\* A closure that finds the queue disabled is dropped, and a call with it.
LEMMA CheckActiveRefines ==
    ASSUME TypeOK, FreshIds, Single, Stopped, NEW t \in Threads, CheckActive(t)
    PROVE  Refines
<1> DEFINE lost == {id \in DelayedIds : arg[t] = Delayed(id, TRUE)}
<1>0. Continue(t) /\ pc[t] = "post"
  BY DEF Continue, CheckActive
<1>1. Hand' = Hand /\ Unborn' = Unborn
  BY <1>0, AsideHand, AsideUnborn
<1>2. UNCHANGED <<in_wait, task_queue, todo, calls, expires, now, asked, stops, alive>>
  BY DEF CheckActive, queueVars, activeVars, idVars, historyVars
<1>3. Halted' = Halted
  BY <1>2 DEF Halted
<1>4. CASE enabled
  <2>1. arg' = arg
    BY <1>4 DEF CheckActive
  <2>2. InArg' = InArg /\ ArgsOnce'
    BY <2>1, Unmoved
  <2>3. Single' /\ Fates' = Fates
    BY <1>1, <1>2, <2>2, NothingMoves
  <2> QED
    BY <1>2, <1>3, <2>3, TimerSteps DEF Refines
<1>5. CASE ~enabled
  <2>1. arg' = [arg EXCEPT ![t] = NoTask] /\ stops > 0
    BY <1>5 DEF CheckActive, Stopped
  <2>2. InArg' = InArg \ lost /\ ArgsOnce' /\ lost \subseteq InArg
    <3>1. \A other : NoTask # Delayed(other, TRUE)
      BY DEF NoTask, Delayed
    <3>2. InArg' = (InArg \ lost) \cup {other \in DelayedIds : NoTask = Delayed(other, TRUE)} /\ ArgsOnce'
      BY <2>1, <3>1, ArgMoves DEF ArgsOnce
    <3> QED
      BY <3>1, <3>2 DEF InArg
  <2> HIDE DEF lost
  <2>3. /\ InQueue' = InQueue /\ ToCancel' = ToCancel /\ ToRun' = ToRun
        /\ Called' = Called /\ Once(task_queue)' /\ TodosOnce' /\ CallsOnce'
    BY <1>2, Unmoved
  <2>4. Spread
    BY SingleParts
  <2>5. Spread'
    BY <1>1, <1>2, <2>2, <2>3, <2>4 DEF Spread, Apart
  <2>6. Single'
    BY <2>2, <2>3, <2>5 DEF Single, TodosOnce, ArgsOnce, CallsOnce, Spread
  <2>7. Withdrawn' = Withdrawn \ lost /\ Pending' = Pending /\ lost \subseteq Withdrawn
        /\ lost \cap (Called \cup Unborn \cup Pending) = {}
    BY <1>1, <1>2, <2>2, <2>3, <2>4 DEF Withdrawn, Pending, Spread, Apart
  <2>8. \A id \in DelayedIds : Fates'[id] = IF id \in lost THEN "dropped" ELSE Fates[id]
    BY <1>1, <1>2, <2>3, <2>7 DEF Fates
  <2>9. \A id \in lost : Fates[id] = "withdrawn"
    BY <2>7, FateOf
  <2>10. Halted' /\ lost \subseteq DelayedIds
    BY <1>3, <2>1 DEF Halted, lost
  <2> QED
    BY <1>2, <2>6, <2>8, <2>9, <2>10, HaltSteps DEF Refines
<1> QED
  BY <1>4, <1>5

\* A closure that is posted takes its call into the queue.
LEMMA PushRefines ==
    ASSUME TypeOK, FreshIds, Single, OnlyWithdrawals, NEW t \in Threads, Push(t)
    PROVE  Refines
<1> DEFINE moved == {id \in DelayedIds : arg[t] = Delayed(id, TRUE)}
<1>0. Continue(t) /\ pc[t] = "push"
  BY DEF Continue, Push
<1>1. Hand' = Hand /\ Unborn' = Unborn
  BY <1>0, AsideHand, AsideUnborn
<1>2. UNCHANGED <<in_wait, todo, calls, expires, now, asked, stops, alive>>
      /\ arg' = [arg EXCEPT ![t] = NoTask] /\ task_queue' = Append(task_queue, arg[t])
  BY DEF Push, Enqueue, activeVars, idVars, historyVars
<1>3. Halted' = Halted
  BY <1>2 DEF Halted
<1>4. InArg' = InArg \ moved /\ ArgsOnce' /\ moved \subseteq InArg
  <2>1. \A other : NoTask # Delayed(other, TRUE)
    BY DEF NoTask, Delayed
  <2>2. InArg' = (InArg \ moved) \cup {other \in DelayedIds : NoTask = Delayed(other, TRUE)} /\ ArgsOnce'
    BY <1>2, <2>1, ArgMoves DEF ArgsOnce
  <2> QED
    BY <2>1, <2>2 DEF InArg
<1>5. Spread
  BY SingleParts
<1>6. InQueue' = InQueue \cup moved /\ Once(task_queue)'
  <2>1. task_queue \in Seq(Task) /\ arg[t] \in Task /\ <<arg[t]>> \in Seq(Task)
    BY DEF TypeOK
  <2>2. task_queue' = task_queue \o <<arg[t]>>
    BY <1>2, <2>1, AppendIsConcat
  <2>3. Bears(<<arg[t]>>, TRUE) = moved /\ Once(<<arg[t]>>)
    BY BearsOne
  <2>4. Bears(<<arg[t]>>, FALSE) = {} /\ Bears(task_queue, FALSE) = {}
    <3>1. \A id : ~Withdrawal(Delayed(id, FALSE))
      BY WithdrawalKinds
    <3>2. \A id : arg[t] # Delayed(id, FALSE)
      BY <3>1 DEF OnlyWithdrawals
    <3>3. Bears(<<arg[t]>>, FALSE) = {id \in DelayedIds : arg[t] = Delayed(id, FALSE)}
      BY BearsOne
    <3> QED
      BY <3>1, <3>2, <3>3 DEF OnlyWithdrawals, Bears, In
  <2>5. Bears(task_queue, TRUE) \cap moved = {}
    BY <1>4, <1>5 DEF Spread, Apart, InQueue
  <2>6. Borne(task_queue) \cap Borne(<<arg[t]>>) = {}
    BY <2>3, <2>4, <2>5 DEF Borne
  <2>7. Bears(task_queue \o <<arg[t]>>, TRUE) = Bears(task_queue, TRUE) \cup Bears(<<arg[t]>>, TRUE)
        /\ Once(task_queue \o <<arg[t]>>)
    BY <2>1, <2>3, <2>6, BearsConcat DEF Single
  <2> QED
    BY <2>2, <2>3, <2>7 DEF InQueue
<1> HIDE DEF moved
<1>7. /\ ToCancel' = ToCancel /\ ToRun' = ToRun
      /\ Called' = Called /\ TodosOnce' /\ CallsOnce'
  BY <1>2, Unmoved
<1>8. Spread'
  BY <1>1, <1>2, <1>4, <1>5, <1>6, <1>7 DEF Spread, Apart
<1>9. Single'
  BY <1>4, <1>6, <1>7, <1>8 DEF Single, TodosOnce, ArgsOnce, CallsOnce, Spread
<1>10. Withdrawn' = Withdrawn /\ Pending' = Pending
  BY <1>1, <1>2, <1>4, <1>6, <1>7 DEF Withdrawn, Pending
<1>11. Fates' = Fates
  BY <1>1, <1>2, <1>7, <1>10 DEF Fates
<1> QED
  BY <1>2, <1>3, <1>9, <1>11, TimerSteps DEF Refines

\* A sequence of closures whose first calls no handler.
LEMMA TailBears ==
    ASSUME NEW s \in Seq(Task), s # <<>>, Once(s), Head(s).kind # "delayed"
    PROVE  /\ Tail(s) \in Seq(Task) /\ Once(Tail(s))
           /\ Bears(Tail(s), TRUE) = Bears(s, TRUE) /\ Bears(Tail(s), FALSE) = Bears(s, FALSE)
<1>1. Tail(s) \in Seq(Task)
  BY HeadTailTypes
<1>2. \A id : Delayed(id, TRUE).kind = "delayed" /\ Delayed(id, FALSE).kind = "delayed"
  BY DEF Delayed
<1>3. Borne(<<Head(s)>>) = {}
  BY <1>2, BearsOne DEF Borne
<1>4. /\ Once(Tail(s))
      /\ Bears(Tail(s), TRUE) = Bears(s, TRUE) \ Borne(<<Head(s)>>)
      /\ Bears(Tail(s), FALSE) = Bears(s, FALSE) \ Borne(<<Head(s)>>)
  BY BearsTail
<1> QED
  BY <1>1, <1>3, <1>4

\* The queue holds withdrawals only, each once, and nobody else has them.
LEMMA QueueBears ==
    ASSUME TypeOK, Single, OnlyWithdrawals
    PROVE  /\ Bears(task_queue, FALSE) = {} /\ Borne(task_queue) = InQueue
           /\ \A t \in Threads : /\ Borne(todo[t]) \subseteq ToCancel \cup ToRun
                                 /\ Borne(task_queue) \cap Borne(todo[t]) = {}
<1>1. Bears(task_queue, FALSE) = {}
  <2>1. \A id : ~Withdrawal(Delayed(id, FALSE))
    BY WithdrawalKinds
  <2> QED
    BY <2>1 DEF OnlyWithdrawals, Bears, In
<1>2. Borne(task_queue) = InQueue
  BY <1>1 DEF Borne, InQueue
<1>3. \A t \in Threads : Borne(todo[t]) \subseteq ToCancel \cup ToRun
  BY DEF Borne, Bears, ToCancel, ToRun
<1>4. InQueue \cap (ToCancel \cup ToRun) = {}
  <2>1. Spread
    BY SingleParts
  <2> QED
    BY <2>1 DEF Spread, Apart
<1> QED
  BY <1>1, <1>2, <1>3, <1>4

\* stop() takes the closures of the queue to itself, or loses them.
LEMMA StopQueueMoves ==
    ASSUME TypeOK, Single, OnlyWithdrawals, NEW t \in Threads, NEW waitRegular \in BOOLEAN,
           NEW rest \in Seq(Task), Once(rest), StopQueue(t, waitRegular, rest),
           Bears(rest, TRUE) = Bears(todo[t], TRUE), Bears(rest, FALSE) = Bears(todo[t], FALSE)
    PROVE  /\ InQueue' = {} /\ Once(task_queue)' /\ TodosOnce' /\ ToRun' = ToRun
           /\ ToCancel' = IF waitRegular THEN ToCancel \cup InQueue ELSE ToCancel
<1> DEFINE s == IF waitRegular THEN task_queue \o rest ELSE rest
<1>1. task_queue' = <<>> /\ todo' = [todo EXCEPT ![t] = s]
  BY DEF StopQueue
<1>2. InQueue' = {} /\ Once(task_queue)'
  <2>1. Bears(<<>>, TRUE) = {} /\ Once(<<>>)
    BY BearsOne
  <2> QED
    BY <1>1, <2>1 DEF InQueue
<1>3. task_queue \in Seq(Task) /\ Once(task_queue)
  BY DEF TypeOK, Single
<1>4. Borne(rest) = Borne(todo[t])
  BY DEF Borne
<1>5. Borne(task_queue) \cap Borne(rest) = {} /\ Borne(task_queue) = InQueue
      /\ Bears(task_queue, FALSE) = {}
  BY <1>4, QueueBears
<1>6. /\ Bears(task_queue \o rest, TRUE) = InQueue \cup Bears(todo[t], TRUE)
      /\ Bears(task_queue \o rest, FALSE) = Bears(todo[t], FALSE)
      /\ Once(task_queue \o rest) /\ task_queue \o rest \in Seq(Task)
  <2>1. task_queue \o rest \in Seq(Task)
    BY <1>3, ConcatProperties
  <2>2. /\ Bears(task_queue \o rest, TRUE) = Bears(task_queue, TRUE) \cup Bears(rest, TRUE)
        /\ Bears(task_queue \o rest, FALSE) = Bears(task_queue, FALSE) \cup Bears(rest, FALSE)
        /\ Once(task_queue \o rest)
    BY <1>3, <1>5, BearsConcat
  <2> QED
    BY <1>5, <2>1, <2>2 DEF InQueue
<1>7. /\ s \in Seq(Task) /\ Once(s) /\ Bears(s, FALSE) = Bears(todo[t], FALSE)
      /\ Bears(s, TRUE) = IF waitRegular THEN InQueue \cup Bears(todo[t], TRUE) ELSE Bears(todo[t], TRUE)
  BY <1>6
<1> HIDE DEF s
<1>8. InQueue \cap (ToCancel \cup ToRun) = {}
  <2>1. Spread
    BY SingleParts
  <2> QED
    BY <2>1 DEF Spread, Apart
<1>9. \A id \in Borne(s) : id \in Borne(todo[t]) \/ id \notin ToCancel \cup ToRun
  BY <1>7, <1>8 DEF Borne
<1>10. /\ ToCancel' = (ToCancel \ Bears(todo[t], TRUE)) \cup Bears(s, TRUE)
       /\ ToRun' = (ToRun \ Bears(todo[t], FALSE)) \cup Bears(s, FALSE)
       /\ TodosOnce'
  BY <1>1, <1>7, <1>9, TodoMoves DEF TodosOnce
<1>11. Bears(todo[t], TRUE) \subseteq ToCancel /\ Bears(todo[t], FALSE) \subseteq ToRun
  BY DEF Bears, ToCancel, ToRun
<1> QED
  BY <1>2, <1>7, <1>10, <1>11

\* A stop that is executed has been asked for.
LEMMA StopsCount ==
    ASSUME TypeOK, Stopped, NEW t \in Threads,
           ExecStop(t) \/ \E waitRegular \in StopModes : Stop(t, waitRegular)
    PROVE  stops' > 0
<1>1. CASE ExecStop(t)
  <2>1. todo[t] \in Seq(Task) /\ todo[t] # <<>> /\ Head(todo[t]).kind = "stop"
    BY <1>1 DEF ExecStop, HasNext, TypeOK
  <2>2. ASSUME stops = 0 PROVE FALSE
    <3>1. todo[t] \in Seq(NoStop)
      BY <2>2 DEF Stopped
    <3>2. Head(todo[t]) \in NoStop
      BY <2>1, <3>1, HeadTailTypes
    <3> QED
      BY <2>1, <3>2 DEF NoStop
  <2>3. stops' = stops /\ stops \in Nat
    BY <1>1 DEF ExecStop, historyVars, TypeOK
  <2> QED
    BY <2>2, <2>3
<1>2. CASE \E waitRegular \in StopModes : Stop(t, waitRegular)
  BY <1>2 DEF Stop, TypeOK
<1> QED
  BY <1>1, <1>2

\* A stop withdraws nothing by itself, and loses the calls of the queue unless it
\* runs them.
LEMMA StopRefines ==
    ASSUME TypeOK, FreshIds, Single, Stopped, OnlyWithdrawals, NEW t \in Threads,
           ExecStop(t) \/ \E waitRegular \in StopModes : Stop(t, waitRegular)
    PROVE  Refines
<1>1. PICK waitRegular \in BOOLEAN, rest \in Seq(Task) :
         /\ StopQueue(t, waitRegular, rest) /\ Once(rest)
         /\ Bears(rest, TRUE) = Bears(todo[t], TRUE) /\ Bears(rest, FALSE) = Bears(todo[t], FALSE)
  <2>1. CASE ExecStop(t)
    <3>1. /\ todo[t] \in Seq(Task) /\ todo[t] # <<>> /\ Head(todo[t]).kind = "stop" /\ Once(todo[t])
          /\ StopQueue(t, Head(todo[t]).flag, Tail(todo[t]))
      BY <2>1 DEF ExecStop, HasNext, Single, TypeOK
    <3>2. Head(todo[t]).flag \in BOOLEAN
      BY <3>1, HeadTailTypes, TaskKinds
    <3> QED
      BY <3>1, <3>2, TailBears
  <2>2. CASE \E waitRegular \in StopModes : Stop(t, waitRegular)
    <3>1. todo[t] \in Seq(Task) /\ Once(todo[t])
      BY DEF Single, TypeOK
    <3> QED
      BY <2>2, <3>1, BoundsAssumption DEF Stop
  <2> QED
    BY <2>1, <2>2
<1>2. stops' > 0 /\ pc[t] # "delay"
  BY StopsCount DEF ExecStop, Stop, HasNext, MayCall, InUser
<1>3. Call(t) \/ Continue(t)
  BY DEF Call, Continue
<1>4. Hand' = Hand /\ Unborn' = Unborn
  BY <1>2, <1>3, AsideHand, AsideUnborn
<1>5. UNCHANGED <<in_wait, arg, calls, expires, now, asked>>
  BY DEF ExecStop, Stop, activeVars, idVars, historyVars
<1>6. /\ InQueue' = {} /\ Once(task_queue)' /\ TodosOnce' /\ ToRun' = ToRun
      /\ ToCancel' = IF waitRegular THEN ToCancel \cup InQueue ELSE ToCancel
  BY <1>1, StopQueueMoves
<1>7. InArg' = InArg /\ ArgsOnce' /\ Called' = Called /\ CallsOnce'
  BY <1>5, Unmoved
<1>8. Spread
  BY SingleParts
<1>9. Spread'
  BY <1>4, <1>5, <1>6, <1>7, <1>8 DEF Spread, Apart
<1>10. Single'
  BY <1>6, <1>7, <1>9 DEF Single, TodosOnce, ArgsOnce, CallsOnce, Spread
<1>11. Pending' = Pending
  BY <1>4, <1>5, <1>6 DEF Pending
<1>12. Halted'
  BY <1>2 DEF Halted
<1>13. CASE waitRegular
  <2>1. Withdrawn' = Withdrawn
    BY <1>6, <1>7, <1>13 DEF Withdrawn
  <2>2. Fates' = Fates
    BY <1>4, <1>5, <1>7, <1>11, <2>1 DEF Fates
  <2> QED
    BY <1>5, <1>10, <1>12, <2>2, HaltSteps DEF Refines
<1>14. CASE ~waitRegular
  <2>1. Withdrawn' = Withdrawn \ InQueue /\ InQueue \subseteq Withdrawn
        /\ InQueue \cap (Called \cup Unborn \cup Pending) = {}
    BY <1>6, <1>7, <1>8, <1>14 DEF Withdrawn, Spread, Apart, Pending
  <2>2. \A id \in DelayedIds : Fates'[id] = IF id \in InQueue THEN "dropped" ELSE Fates[id]
    BY <1>4, <1>5, <1>7, <1>11, <2>1 DEF Fates
  <2>3. \A id \in InQueue : Fates[id] = "withdrawn"
    BY <2>1, FateOf
  <2>4. InQueue \subseteq DelayedIds
    BY DEF InQueue, Bears
  <2> QED
    BY <1>5, <1>10, <1>12, <2>2, <2>3, <2>4, HaltSteps DEF Refines
<1> QED
  BY <1>13, <1>14

\* cancel_all_delayed_tasks withdraws every handler of the map.
LEMMA SwapRefines ==
    ASSUME TypeOK, FreshIds, Single, Stopped, NEW t \in Threads, CancelAll(t) \/ Destroy(t)
    PROVE  Refines
<1>1. PICK s \in InOrder(in_wait) : CallEach(t, s, TRUE) /\ in_wait' = {}
  BY DEF CancelAll, Destroy, SwapInWait
<1> DEFINE calling == CancelCalls(s)
           u == calling \o todo[t]
<1>2. calling \in Seq(Task) /\ Once(calling) /\ Bears(calling, TRUE) = in_wait /\ Bears(calling, FALSE) = {}
  <2>1. in_wait \in SUBSET DelayedIds
    BY DEF TypeOK
  <2> QED
    BY <2>1, BearsCalls
<1>3. todo' = [todo EXCEPT ![t] = u]
  BY <1>1 DEF CallEach, CancelCalls
<1>4. Spread
  BY SingleParts
<1>5. Borne(todo[t]) \subseteq ToCancel \cup ToRun /\ in_wait \cap (ToCancel \cup ToRun) = {}
  <2>1. Borne(todo[t]) \subseteq ToCancel \cup ToRun
    BY DEF Borne, Bears, ToCancel, ToRun
  <2> QED
    BY <1>4, <2>1 DEF Spread, Apart
<1> HIDE DEF calling
<1>6. /\ Bears(u, TRUE) = in_wait \cup Bears(todo[t], TRUE) /\ Bears(u, FALSE) = Bears(todo[t], FALSE)
      /\ Once(u) /\ u \in Seq(Task)
  <2>1. Borne(calling) = in_wait
    BY <1>2 DEF Borne
  <2>2. Borne(calling) \cap Borne(todo[t]) = {} /\ todo[t] \in Seq(Task) /\ Once(todo[t])
    BY <1>5, <2>1 DEF Single, TypeOK
  <2>3. u \in Seq(Task)
    BY <1>2, <2>2, ConcatProperties
  <2>4. /\ Bears(u, TRUE) = Bears(calling, TRUE) \cup Bears(todo[t], TRUE)
        /\ Bears(u, FALSE) = Bears(calling, FALSE) \cup Bears(todo[t], FALSE)
        /\ Once(u)
    BY <1>2, <2>2, BearsConcat
  <2> QED
    BY <1>2, <2>3, <2>4
<1> HIDE DEF u
<1>7. \A id \in Borne(u) : id \in Borne(todo[t]) \/ id \notin ToCancel \cup ToRun
  BY <1>5, <1>6 DEF Borne
<1>8. /\ ToCancel' = (ToCancel \ Bears(todo[t], TRUE)) \cup Bears(u, TRUE)
      /\ ToRun' = (ToRun \ Bears(todo[t], FALSE)) \cup Bears(u, FALSE)
      /\ TodosOnce'
  BY <1>3, <1>6, <1>7, TodoMoves DEF TodosOnce
<1>9. Bears(todo[t], TRUE) \subseteq ToCancel /\ Bears(todo[t], FALSE) \subseteq ToRun
  BY DEF Bears, ToCancel, ToRun
<1>10. ToCancel' = ToCancel \cup in_wait /\ ToRun' = ToRun
  BY <1>6, <1>8, <1>9
<1>11. Hand' = Hand /\ Unborn' = Unborn
  <2>1. (Call(t) \/ Continue(t)) /\ pc[t] # "delay"
    BY DEF Call, Continue, CancelAll, Destroy, MayCall, InUser
  <2> QED
    BY <2>1, AsideHand, AsideUnborn
<1>12. UNCHANGED <<task_queue, arg, calls, expires, now, asked>>
  BY DEF CancelAll, Destroy, queueVars, idVars, historyVars
<1>13. /\ InQueue' = InQueue /\ Once(task_queue)' /\ InArg' = InArg /\ ArgsOnce'
       /\ Called' = Called /\ CallsOnce'
  BY <1>12, Unmoved
<1>14. Spread'
  BY <1>1, <1>4, <1>10, <1>11, <1>13 DEF Spread, Apart
<1>15. Single'
  BY <1>8, <1>13, <1>14 DEF Single, TodosOnce, ArgsOnce, CallsOnce, Spread
<1>16. Withdrawn' = Withdrawn \cup in_wait /\ Pending' = Pending \ in_wait /\ in_wait \subseteq Pending
       /\ in_wait \cap (Called \cup Unborn) = {}
  BY <1>1, <1>4, <1>10, <1>11, <1>13 DEF Withdrawn, Pending, Spread, Apart
<1>17. \A id \in DelayedIds : Fates'[id] = IF id \in in_wait THEN "withdrawn" ELSE Fates[id]
  BY <1>11, <1>12, <1>13, <1>16 DEF Fates
<1>18. in_wait \subseteq DelayedIds /\ \A id \in in_wait : Fates[id] = "pending"
  BY <1>16, FateOf DEF TypeOK
<1>19. Halted'
  BY DEF CancelAll, Destroy, Stopped, Halted, historyVars
<1> QED
  BY <1>12, <1>15, <1>17, <1>18, <1>19, HaltSteps DEF Refines

\* A handler's body calls no other by itself.
LEMMA BodyBears ==
    ASSUME NEW s \in Seq(Task), Once(s), NEW front \in {<<Body>>, <<>>}
    PROVE  /\ front \o s \in Seq(Task) /\ Once(front \o s)
           /\ Bears(front \o s, TRUE) = Bears(s, TRUE) /\ Bears(front \o s, FALSE) = Bears(s, FALSE)
<1>1. front \in Seq(Task)
  <2>1. CASE front = <<Body>>
    <3>1. Body \in Task
      BY DEF Task
    <3> QED
      BY <2>1, <3>1
  <2>2. CASE front = <<>>
    BY <2>2
  <2> QED
    BY <2>1, <2>2
<1>2. \A id : Body # Delayed(id, TRUE) /\ Body # Delayed(id, FALSE)
  BY DEF Body, Delayed
<1>3. Once(front) /\ Bears(front, TRUE) = {} /\ Bears(front, FALSE) = {}
  <2>1. CASE front = <<Body>>
    BY <1>2, <2>1, BearsOne
  <2>2. CASE front = <<>>
    BY <2>2, BearsOne
  <2> QED
    BY <2>1, <2>2
<1>4. Borne(front) \cap Borne(s) = {}
  BY <1>3 DEF Borne
<1>5. front \o s \in Seq(Task)
  BY <1>1, ConcatProperties
<1>6. /\ Bears(front \o s, TRUE) = Bears(front, TRUE) \cup Bears(s, TRUE)
      /\ Bears(front \o s, FALSE) = Bears(front, FALSE) \cup Bears(s, FALSE)
      /\ Once(front \o s)
  BY <1>1, <1>3, <1>4, BearsConcat
<1> QED
  BY <1>3, <1>5, <1>6

\* What t has to execute after the closure at hand, with the body of the handler
\* it has called.
LEMMA EnterBodyMoves ==
    ASSUME TypeOK, Single, NEW t \in Threads, todo[t] # <<>>,
           EnterBody(t) \/ todo' = [todo EXCEPT ![t] = Tail(@)]
    PROVE  /\ ToCancel' = ToCancel \ Borne(<<Head(todo[t])>>)
           /\ ToRun' = ToRun \ Borne(<<Head(todo[t])>>)
           /\ Bears(<<Head(todo[t])>>, TRUE) \subseteq ToCancel
           /\ Bears(<<Head(todo[t])>>, FALSE) \subseteq ToRun
           /\ TodosOnce'
<1> DEFINE head == <<Head(todo[t])>>
<1>1. todo[t] \in Seq(Task) /\ Once(todo[t])
  BY DEF Single, TypeOK
<1>2. /\ Once(Tail(todo[t])) /\ Tail(todo[t]) \in Seq(Task)
      /\ Bears(Tail(todo[t]), TRUE) = Bears(todo[t], TRUE) \ Borne(head)
      /\ Bears(Tail(todo[t]), FALSE) = Bears(todo[t], FALSE) \ Borne(head)
      /\ Bears(head, TRUE) \subseteq Bears(todo[t], TRUE)
      /\ Bears(head, FALSE) \subseteq Bears(todo[t], FALSE)
  BY <1>1, BearsTail, HeadTailTypes
<1>3. PICK s \in Seq(Task) :
        /\ todo' = [todo EXCEPT ![t] = s] /\ Once(s)
        /\ Bears(s, TRUE) = Bears(Tail(todo[t]), TRUE) /\ Bears(s, FALSE) = Bears(Tail(todo[t]), FALSE)
  <2>1. CASE todo' = [todo EXCEPT ![t] = Tail(@)]
    BY <1>2, <2>1
  <2>2. CASE EnterBody(t)
    <3> DEFINE front == IF t \in Callers THEN <<Body>> ELSE <<>>
    <3>1. todo' = [todo EXCEPT ![t] = front \o Tail(todo[t])] /\ front \in {<<Body>>, <<>>}
      BY <2>2 DEF EnterBody
    <3> HIDE DEF front
    <3> QED
      BY <1>2, <3>1, BodyBears
  <2> QED
    BY <2>1, <2>2
<1> HIDE DEF head
<1>4. \A id \in Borne(s) : id \in Borne(todo[t]) \/ id \notin ToCancel \cup ToRun
  BY <1>2, <1>3 DEF Borne
<1>5. /\ ToCancel' = (ToCancel \ Bears(todo[t], TRUE)) \cup Bears(s, TRUE)
      /\ ToRun' = (ToRun \ Bears(todo[t], FALSE)) \cup Bears(s, FALSE)
      /\ TodosOnce'
  BY <1>3, <1>4, TodoMoves DEF TodosOnce
<1>6. Bears(todo[t], TRUE) \subseteq ToCancel /\ Bears(todo[t], FALSE) \subseteq ToRun
  BY DEF Bears, ToCancel, ToRun
<1>7. ToCancel \cap ToRun = {}
  <2>1. Spread
    BY SingleParts
  <2> QED
    BY <2>1 DEF Spread, Apart
<1>8. Borne(head) = Bears(head, TRUE) \cup Bears(head, FALSE)
  BY DEF Borne
<1> QED
  BY <1>2, <1>3, <1>5, <1>6, <1>7, <1>8 DEF head

\* A regular task, a registration and the return of a handler move no handler.
LEMMA ExecRefines ==
    ASSUME TypeOK, FreshIds, Single, NEW t \in Threads,
           ExecRegular(t) \/ ExecRegister(t) \/ Return(t)
    PROVE  Refines
<1>1. /\ todo[t] # <<>> /\ Head(todo[t]).kind # "delayed" /\ pc[t] # "delay"
      /\ EnterBody(t) \/ todo' = [todo EXCEPT ![t] = Tail(@)]
  <2>1. Body.kind # "delayed"
    BY DEF Body
  <2> QED
    BY <2>1 DEF ExecRegular, ExecRegister, Return, HasNext, InUser
<1>2. UNCHANGED <<in_wait, task_queue, arg, calls, expires, now, asked, stops, alive>>
  BY DEF ExecRegular, ExecRegister, Return, queueVars, activeVars, idVars, historyVars
<1>3. Borne(<<Head(todo[t])>>) = {}
  <2>1. \A id : Delayed(id, TRUE).kind = "delayed" /\ Delayed(id, FALSE).kind = "delayed"
    BY DEF Delayed
  <2> QED
    BY <1>1, <2>1, BearsOne DEF Borne
<1>4. ToCancel' = ToCancel /\ ToRun' = ToRun /\ TodosOnce'
  BY <1>1, <1>3, EnterBodyMoves
<1>5. Hand' = Hand /\ Unborn' = Unborn
  BY <1>1, AsideHand, AsideUnborn DEF Continue
<1>6. /\ InQueue' = InQueue /\ Once(task_queue)' /\ InArg' = InArg /\ ArgsOnce'
      /\ Called' = Called /\ CallsOnce'
  BY <1>2, Unmoved
<1>7. Spread'
  BY <1>2, <1>4, <1>5, <1>6, SingleParts DEF Spread, Apart
<1>8. Single'
  BY <1>4, <1>6, <1>7 DEF Single, TodosOnce, ArgsOnce, CallsOnce, Spread
<1>9. Withdrawn' = Withdrawn /\ Pending' = Pending
  BY <1>2, <1>4, <1>5, <1>6 DEF Withdrawn, Pending
<1>10. Fates' = Fates
  BY <1>2, <1>5, <1>6, <1>9 DEF Fates
<1>11. Halted' = Halted
  BY <1>2 DEF Halted
<1> QED
  BY <1>2, <1>8, <1>10, <1>11, TimerSteps DEF Refines

\* The call of a handler: as withdrawn, or in time.
LEMMA ExecDelayedRefines ==
    ASSUME TypeOK, FreshIds, Single, DueCalls, NEW t \in Threads, ExecDelayed(t)
    PROVE  Refines
<1> DEFINE id == Head(todo[t]).id
           flag == Head(todo[t]).flag
<1>1. todo[t] # <<>> /\ Head(todo[t]).kind = "delayed" /\ pc[t] # "delay" /\ EnterBody(t)
  BY DEF ExecDelayed, HasNext
<1>2. id \in DelayedIds /\ flag \in BOOLEAN /\ Head(todo[t]) = Delayed(id, flag)
  BY <1>1, HeadTailTypes, DelayedClosures DEF TypeOK
<1>3. UNCHANGED <<in_wait, task_queue, arg, expires, now, asked, stops, alive>>
      /\ calls' = [calls EXCEPT ![id] = Append(@, flag)]
  BY DEF ExecDelayed, queueVars, activeVars, idVars
<1>4. /\ ToCancel' = ToCancel \ Borne(<<Head(todo[t])>>)
      /\ ToRun' = ToRun \ Borne(<<Head(todo[t])>>)
      /\ Bears(<<Head(todo[t])>>, TRUE) \subseteq ToCancel
      /\ Bears(<<Head(todo[t])>>, FALSE) \subseteq ToRun
      /\ TodosOnce'
  BY <1>1, EnterBodyMoves
<1>5. Hand' = Hand /\ Unborn' = Unborn
  BY <1>1, AsideHand, AsideUnborn DEF Continue
<1> HIDE DEF id, flag
<1>6. /\ InQueue' = InQueue /\ Once(task_queue)' /\ InArg' = InArg /\ ArgsOnce'
  BY <1>3, Unmoved
<1>7. Borne(<<Head(todo[t])>>) = {id}
      /\ (flag = TRUE => id \in ToCancel) /\ (flag = FALSE => id \in ToRun)
  <2>1. Head(todo[t]) = Delayed(id, TRUE) \/ Head(todo[t]) = Delayed(id, FALSE)
    BY <1>2
  <2>2. Borne(<<Head(todo[t])>>) = {id}
    BY <1>2, <2>1, BearsCall DEF Borne
  <2>3. ASSUME flag = TRUE PROVE id \in ToCancel
    <3>1. Head(todo[t]) = Delayed(id, TRUE)
      BY <1>2, <2>3
    <3>2. Bears(<<Head(todo[t])>>, TRUE) = {id}
      BY <1>2, <3>1, BearsCall
    <3> QED
      BY <1>4, <3>2
  <2>4. ASSUME flag = FALSE PROVE id \in ToRun
    <3>1. Head(todo[t]) = Delayed(id, FALSE)
      BY <1>2, <2>4
    <3>2. Bears(<<Head(todo[t])>>, FALSE) = {id}
      BY <1>2, <3>1, BearsCall
    <3> QED
      BY <1>4, <3>2
  <2> QED
    BY <2>2, <2>3, <2>4
<1>8. Spread
  BY SingleParts
<1>9. id \notin Called
  BY <1>2, <1>7, <1>8 DEF Spread, Apart
<1>10. calls[id] = <<>> /\ calls'[id] = <<flag>> /\ \A other \in DelayedIds \ {id} : calls'[other] = calls[other]
  <2>1. calls[id] = <<>> /\ calls \in [DelayedIds -> Seq(BOOLEAN)]
    BY <1>2, <1>9 DEF Called, TypeOK
  <2>2. calls'[id] = Append(<<>>, flag) /\ \A other \in DelayedIds \ {id} : calls'[other] = calls[other]
    BY <1>2, <1>3, <2>1
  <2> QED
    BY <2>1, <2>2
<1>11. Called' = Called \cup {id}
  BY <1>2, <1>10 DEF Called
<1>12. CallsOnce'
  <2>1. Len(<<flag>>) =< 1
    OBVIOUS
  <2>2. \A other \in DelayedIds : Len(calls'[other]) =< 1
    BY <1>10, <2>1, SingleParts DEF CallsOnce
  <2> QED
    BY <2>2 DEF CallsOnce
<1>13. Spread'
  BY <1>3, <1>4, <1>5, <1>6, <1>7, <1>8, <1>11 DEF Spread, Apart
<1>14. Single'
  BY <1>4, <1>6, <1>12, <1>13 DEF Single, TodosOnce, ArgsOnce, CallsOnce, Spread
<1>15. \A other \in DelayedIds \ {id} : /\ other \in Withdrawn' <=> other \in Withdrawn
                                        /\ other \in Pending' <=> other \in Pending
                                        /\ other \in Called' <=> other \in Called
  BY <1>3, <1>4, <1>5, <1>6, <1>7, <1>11 DEF Withdrawn, Pending
<1>16. Fates' = [Fates EXCEPT ![id] = IF flag THEN "aborted" ELSE "ran"]
  <2>1. Fates'[id] = IF flag THEN "aborted" ELSE "ran"
    <3>1. <<flag>>[1] = flag
      OBVIOUS
    <3>2. calls'[id][1] = flag /\ id \in Called'
      BY <1>10, <1>11, <3>1
    <3> QED
      BY <1>2, <3>2 DEF Fates
  <2>2. \A other \in DelayedIds \ {id} : Fates'[other] = Fates[other]
    BY <1>5, <1>10, <1>15 DEF Fates
  <2>3. /\ Fates = [other \in DelayedIds |-> Fates[other]]
        /\ Fates' = [other \in DelayedIds |-> Fates'[other]]
    BY DEF Fates
  <2> QED
    BY <1>2, <2>1, <2>2, <2>3
<1>17. Halted' = Halted
  BY <1>3 DEF Halted
<1>18. CASE flag = TRUE
  <2>1. Fates[id] = "withdrawn"
    BY <1>7, <1>18, FateOf DEF Withdrawn
  <2> QED
    BY <1>2, <1>3, <1>14, <1>16, <1>17, <1>18, <2>1, TimerSteps DEF Refines
<1>19. CASE flag = FALSE
  <2>1. Fates[id] = "pending"
    BY <1>2, <1>7, <1>19, FateOf DEF Pending
  <2>2. expires[id] =< now \/ Halted
    BY <1>7, <1>19 DEF DueCalls, Halted, TypeOK
  <2> QED
    BY <1>2, <1>3, <1>14, <1>16, <1>17, <1>19, <2>1, <2>2, TimerSteps DEF Refines
<1> QED
  BY <1>2, <1>18, <1>19

\* A step of run() and what it does to the handler its worker holds.
LEMMA ServeHand ==
    ASSUME TypeOK, LockParts, Hands, NEW w \in Workers, Serve(w)
    PROVE  /\ Unborn' = Unborn /\ UNCHANGED <<arg, calls, expires, now, asked, stops, alive>>
           /\ UNCHANGED cur /\ (Holds(w)' <=> Holds(w)) => Hand' = Hand
           /\ Holds(w) => cur[w] \in Hand
           /\ Holds(w) /\ ~Holds(w)' /\ (\A v \in Workers : v # w => cur'[v] = cur[v])
                => Hand' = Hand \ {cur[w]}
           /\ \A id \in DelayedIds :
                 ~Holds(w) /\ Holds(w)' /\ cur' = [cur EXCEPT ![w] = id] => Hand' = Hand \cup {id}
<1>1. UNCHANGED <<next_id, arg>> /\ \A u \in Threads : pc'[u] = "delay" <=> pc[u] = "delay"
  <2>1. next_id' = next_id /\ pc'[w] # "delay" /\ pc[w] # "delay"
    BY DEF Serve, RunReturns, WaitNext, Disabled, Idle, IdleWakes, TakeRegular, PopDelayed,
         TestPredicate, Block, Notified, TimesOut, CancelSeen, NotCancelled, TakeInstead, Fire,
         Obtain, Looping, idVars, Goto, TypeOK, Threads
  <2> QED
    BY <2>1, ServeHanded DEF Threads
<1>2. Unborn' = Unborn
  BY <1>1 DEF Unborn
<1>3. UNCHANGED <<calls, expires, now, asked, stops, alive>>
  BY DEF Serve, RunReturns, WaitNext, Disabled, Idle, IdleWakes, TakeRegular, PopDelayed,
         TestPredicate, Block, Notified, TimesOut, CancelSeen, NotCancelled, TakeInstead, Fire,
         idVars, historyVars
<1>4. \A v \in Workers : v # w => (Holds(v)' <=> Holds(v))
  BY ServeHanded DEF Holds, Threads
<1>5. \A v \in Workers : Holds(v) => cur[v] \in DelayedIds
  BY HeldIds DEF Hands
<1>6. \A v \in Workers : v # w /\ Holds(v) /\ Holds(w) => cur[v] # cur[w]
  BY DEF Hands, Custody
<1>7. UNCHANGED cur /\ (Holds(w)' <=> Holds(w)) => Hand' = Hand
  BY <1>4 DEF Hand
<1>8. Holds(w) => cur[w] \in Hand
  BY <1>5 DEF Hand
<1>9. ASSUME Holds(w), ~Holds(w)', \A v \in Workers : v # w => cur'[v] = cur[v]
      PROVE  Hand' = Hand \ {cur[w]}
  BY <1>4, <1>6, <1>9 DEF Hand
<1>10. ASSUME NEW id \in DelayedIds, ~Holds(w), Holds(w)', cur' = [cur EXCEPT ![w] = id]
       PROVE  Hand' = Hand \cup {id}
  <2>1. cur'[w] = id /\ \A v \in Workers : v # w => cur'[v] = cur[v]
    BY <1>10 DEF TypeOK
  <2> QED
    BY <1>4, <1>10, <2>1 DEF Hand
<1> QED
  BY <1>1, <1>2, <1>3, <1>7, <1>8, <1>9, <1>10

\* Waiting, waking, testing and leaving run() move no handler.
LEMMA WaitRefines ==
    ASSUME TypeOK, LockParts, Hands, Single, NEW w \in Workers, Serve(w),
           \/ RunReturns(w) \/ WaitNext(w) \/ Disabled(w) \/ Idle(w) \/ IdleWakes(w)
           \/ \E id \in DelayedIds : PopDelayed(w, id) /\ id \notin in_wait
           \/ TestPredicate(w) \/ Block(w) \/ Notified(w) \/ TimesOut(w) \/ NotCancelled(w)
    PROVE  Refines
<1>1. UNCHANGED <<in_wait, task_queue, todo, cur>> /\ (Holds(w)' <=> Holds(w))
  BY DEF RunReturns, WaitNext, Disabled, Idle, IdleWakes, PopDelayed, TestPredicate, Block, Looping,
         Notified, TimesOut, NotCancelled, queueVars, activeVars, Goto, Holds, HasTask, Timed, TypeOK, Threads
<1>2. Hand' = Hand /\ Unborn' = Unborn /\ UNCHANGED <<arg, calls, expires, now, asked, stops, alive>>
  BY <1>1, ServeHand
<1>3. InArg' = InArg /\ ArgsOnce'
  BY <1>2, Unmoved
<1>4. Single' /\ Fates' = Fates
  BY <1>1, <1>2, <1>3, NothingMoves
<1>5. Halted' = Halted
  BY <1>2 DEF Halted
<1> QED
  BY <1>2, <1>4, <1>5, TimerSteps DEF Refines

\* A worker takes a handler out of the map to wait its time.
LEMMA PopRefines ==
    ASSUME TypeOK, LockParts, Hands, Single, NEW w \in Workers,
           NEW id \in DelayedIds, PopDelayed(w, id), id \in in_wait
    PROVE  Refines
<1>0. Serve(w)
  BY DEF Serve
<1>1. /\ in_wait' = in_wait \ {id} /\ UNCHANGED <<task_queue, todo>> /\ cur' = [cur EXCEPT ![w] = id]
      /\ ~Holds(w) /\ Holds(w)'
  BY DEF PopDelayed, Goto, Holds, HasTask, Timed, TypeOK, Threads
<1>2. Hand' = Hand \cup {id} /\ Unborn' = Unborn /\ UNCHANGED <<arg, calls, expires, now, asked, stops, alive>>
  BY <1>0, <1>1, ServeHand
<1>3. /\ InQueue' = InQueue /\ Once(task_queue)' /\ InArg' = InArg /\ ArgsOnce'
      /\ ToCancel' = ToCancel /\ ToRun' = ToRun /\ TodosOnce' /\ Called' = Called /\ CallsOnce'
  BY <1>1, <1>2, Unmoved
<1>4. Spread'
  BY <1>1, <1>2, <1>3, SingleParts DEF Spread, Apart
<1>5. Single'
  BY <1>3, <1>4 DEF Single, TodosOnce, ArgsOnce, CallsOnce, Spread
<1>6. Withdrawn' = Withdrawn /\ Pending' = Pending
  BY <1>1, <1>2, <1>3 DEF Withdrawn, Pending
<1>7. Fates' = Fates
  BY <1>2, <1>3, <1>6 DEF Fates
<1>8. Halted' = Halted
  BY <1>2 DEF Halted
<1> QED
  BY <1>2, <1>5, <1>7, <1>8, TimerSteps DEF Refines

\* A worker with nothing to execute is given one closure.
LEMMA GivenMoves ==
    ASSUME TypeOK, Single, NEW w \in Threads, NEW task \in Task, todo[w] = <<>>,
           todo' = [todo EXCEPT ![w] = <<task>>],
           \A id \in ToCancel \cup ToRun : id \notin Borne(<<task>>)
    PROVE  /\ ToCancel' = ToCancel \cup Bears(<<task>>, TRUE)
           /\ ToRun' = ToRun \cup Bears(<<task>>, FALSE)
           /\ TodosOnce'
<1>1. <<task>> \in Seq(Task)
  OBVIOUS
<1>2. Once(<<task>>) /\ Bears(todo[w], TRUE) = {} /\ Bears(todo[w], FALSE) = {}
  BY BearsOne
<1>3. \A id \in Borne(<<task>>) : id \in Borne(todo[w]) \/ id \notin ToCancel \cup ToRun
  OBVIOUS
<1> DEFINE s == <<task>>
<1> HIDE DEF s
<1>4. /\ ToCancel' = (ToCancel \ Bears(todo[w], TRUE)) \cup Bears(s, TRUE)
      /\ ToRun' = (ToRun \ Bears(todo[w], FALSE)) \cup Bears(s, FALSE)
      /\ TodosOnce'
  BY <1>1, <1>2, <1>3, TodoMoves DEF TodosOnce, s
<1> QED
  BY <1>2, <1>4 DEF s

\* A worker takes the first closure of the queue, and with it the call it may be.
LEMMA TakeMoves ==
    ASSUME TypeOK, Single, OnlyWithdrawals, NEW w \in Threads, todo[w] = <<>>,
           task_queue # <<>>, task_queue' = Tail(task_queue),
           todo' = [todo EXCEPT ![w] = <<Head(task_queue)>>]
    PROVE  \E moved \in SUBSET InQueue :
             /\ InQueue' = InQueue \ moved /\ Once(task_queue)'
             /\ ToCancel' = ToCancel \cup moved /\ ToRun' = ToRun /\ TodosOnce'
<1> DEFINE head == <<Head(task_queue)>>
           moved == Bears(head, TRUE)
<1>1. task_queue \in Seq(Task) /\ Once(task_queue) /\ Head(task_queue) \in Task
  BY HeadTailTypes DEF TypeOK, Single
<1>2. /\ Once(Tail(task_queue))
      /\ Bears(Tail(task_queue), TRUE) = Bears(task_queue, TRUE) \ Borne(head)
      /\ Bears(head, TRUE) \subseteq Bears(task_queue, TRUE)
      /\ Bears(head, FALSE) \subseteq Bears(task_queue, FALSE)
  BY <1>1, BearsTail
<1>3. Bears(task_queue, FALSE) = {}
  BY QueueBears
<1>4. Bears(head, FALSE) = {} /\ Borne(head) = moved
  BY <1>2, <1>3 DEF Borne
<1>5. moved \in SUBSET InQueue /\ InQueue' = InQueue \ moved /\ Once(task_queue)'
  BY <1>2, <1>4 DEF InQueue
<1>6. InQueue \cap (ToCancel \cup ToRun) = {}
  <2>1. Spread
    BY SingleParts
  <2> QED
    BY <2>1 DEF Spread, Apart
<1>7. \A id \in ToCancel \cup ToRun : id \notin Borne(head)
  BY <1>4, <1>5, <1>6
<1>8. /\ ToCancel' = ToCancel \cup Bears(head, TRUE) /\ ToRun' = ToRun \cup Bears(head, FALSE)
      /\ TodosOnce'
  BY <1>1, <1>7, GivenMoves
<1> HIDE DEF head
<1> QED
  BY <1>4, <1>5, <1>8

\* A worker that takes a closure from the queue returns the handler it holds to
\* the map.
LEMMA TakeRefines ==
    ASSUME TypeOK, LockParts, Hands, Single, InTime, NEW w \in Workers,
           TakeRegular(w) \/ TakeInstead(w)
    PROVE  Refines
<1>0. Serve(w)
  BY DEF Serve
<1>1. /\ pc[w] \in InWaitNext /\ pc'[w] = "exec"
      /\ task_queue # <<>> /\ task_queue' = Tail(task_queue)
      /\ todo' = [todo EXCEPT ![w] = <<Head(task_queue)>>]
      /\ \A v \in Workers : v # w => cur'[v] = cur[v]
  BY DEF TakeRegular, TakeInstead, Obtain, Goto, InWaitNext, Inside, Timed, LockParts, FirstWaits,
         TypeOK, Threads
<1>2. todo[w] = <<>> /\ OnlyWithdrawals /\ w \in Threads
  BY <1>1 DEF InTime, WaitsEmptyHanded, Threads
<1>3. PICK moved \in SUBSET InQueue :
         /\ InQueue' = InQueue \ moved /\ Once(task_queue)'
         /\ ToCancel' = ToCancel \cup moved /\ ToRun' = ToRun /\ TodosOnce'
  BY <1>1, <1>2, TakeMoves
<1>4. Unborn' = Unborn /\ UNCHANGED <<arg, calls, expires, now, asked, stops, alive>>
  BY <1>0, ServeHand
<1>5. in_wait' \cup Hand' = in_wait \cup Hand /\ in_wait' \cap Hand' = {}
  <2>1. CASE TakeRegular(w)
    <3>1. ~Holds(w) /\ ~Holds(w)' /\ in_wait' = in_wait
      BY <1>1, <2>1 DEF TakeRegular, activeVars, Holds, HasTask, Timed
    <3>2. \A v \in Workers : v # w => (Holds(v)' <=> Holds(v))
      BY <1>0, ServeHanded DEF Holds, Threads
    <3>3. Hand' = Hand
      BY <1>1, <3>1, <3>2 DEF Hand
    <3> QED
      BY <3>1, <3>3, SingleParts DEF Spread, Apart
  <2>2. CASE TakeInstead(w)
    <3>1. Holds(w) /\ ~Holds(w)' /\ in_wait' = in_wait \cup {cur[w]}
      BY <1>1, <2>2 DEF TakeInstead, PutBack, ToWaitMap, Holds, HasTask, Timed
    <3>2. Hand' = Hand \ {cur[w]} /\ cur[w] \in Hand
      BY <1>0, <1>1, <3>1, ServeHand
    <3> QED
      BY <3>1, <3>2, SingleParts DEF Spread, Apart
  <2> QED
    BY <2>1, <2>2
<1>6. InArg' = InArg /\ ArgsOnce' /\ Called' = Called /\ CallsOnce'
  BY <1>4, Unmoved
<1>7. Spread'
  BY <1>3, <1>4, <1>5, <1>6, SingleParts DEF Spread, Apart
<1>8. Single'
  BY <1>3, <1>6, <1>7 DEF Single, TodosOnce, ArgsOnce, CallsOnce, Spread
<1>9. Withdrawn' = Withdrawn /\ Pending' = Pending
  BY <1>3, <1>5, <1>6 DEF Withdrawn, Pending
<1>10. Fates' = Fates
  BY <1>4, <1>6, <1>9 DEF Fates
<1>11. Halted' = Halted
  BY <1>4 DEF Halted
<1> QED
  BY <1>4, <1>8, <1>10, <1>11, TimerSteps DEF Refines

\* A worker chooses to call the handler it holds, as withdrawn only if somebody
\* asked for that.
LEMMA ChooseRefines ==
    ASSUME TypeOK, LockParts, Hands, Single, InTime, Marked, NEW w \in Workers,
           CancelSeen(w) \/ Fire(w)
    PROVE  Refines
<1> DEFINE id == cur[w]
           flag == id \notin in_process
<1>0. Serve(w)
  BY DEF Serve
<1>1. /\ Holds(w) /\ pc[w] \in InWaitNext /\ pc'[w] = "exec"
      /\ todo' = [todo EXCEPT ![w] = <<Delayed(id, flag)>>]
      /\ \A v \in Workers : v # w => cur'[v] = cur[v]
      /\ UNCHANGED <<in_wait, task_queue>>
  <2> USE DEF Obtain, Goto, InWaitNext, Inside, Timed, Holds, HasTask, TypeOK, Threads
  <2>1. CASE Fire(w)
    BY <2>1 DEF Fire, Cancelled
  <2>2. CASE CancelSeen(w)
    <3>1. flag = TRUE
      BY <2>2 DEF CancelSeen
    <3> HIDE DEF flag
    <3> QED
      BY <2>2, <3>1 DEF CancelSeen, activeVars
  <2> QED
    BY <2>1, <2>2
<1>2. todo[w] = <<>> /\ w \in Threads
  BY <1>1 DEF InTime, WaitsEmptyHanded, Threads
<1>3. Unborn' = Unborn /\ UNCHANGED <<arg, calls, expires, now, asked, stops, alive>>
      /\ Hand' = Hand \ {id} /\ id \in Hand
  <2>1. ~Holds(w)'
    BY <1>1 DEF Holds, HasTask, Timed
  <2> QED
    BY <1>0, <1>1, <2>1, ServeHand
<1>4. id \in DelayedIds /\ (flag => id \in asked)
  BY <1>1, <1>3 DEF Hand, Marked
<1> HIDE DEF id
<1>5. Spread
  BY SingleParts
<1>6. id \notin ToCancel \cup ToRun
  BY <1>3, <1>5 DEF Spread, Apart
<1>7. /\ InQueue' = InQueue /\ Once(task_queue)' /\ InArg' = InArg /\ ArgsOnce'
      /\ Called' = Called /\ CallsOnce'
  BY <1>1, <1>3, Unmoved
<1>8. Halted' = Halted
  BY <1>3 DEF Halted
<1>9. CASE flag
  <2>1. todo' = [todo EXCEPT ![w] = <<Delayed(id, TRUE)>>]
    BY <1>1, <1>9
  <2>2. Delayed(id, TRUE) \in Task /\ Bears(<<Delayed(id, TRUE)>>, TRUE) = {id}
        /\ Bears(<<Delayed(id, TRUE)>>, FALSE) = {}
    BY <1>4, TaskTypes, BearsCall
  <2>3. Borne(<<Delayed(id, TRUE)>>) = {id}
    BY <2>2 DEF Borne
  <2>4. ToCancel' = ToCancel \cup {id} /\ ToRun' = ToRun /\ TodosOnce'
    <3>1. \A other \in ToCancel \cup ToRun : other \notin Borne(<<Delayed(id, TRUE)>>)
      BY <1>6, <2>3
    <3> QED
      BY <1>2, <2>1, <2>2, <3>1, GivenMoves
  <2>5. Spread'
    BY <1>1, <1>3, <1>5, <1>7, <2>4 DEF Spread, Apart
  <2>6. Single'
    BY <1>7, <2>4, <2>5 DEF Single, TodosOnce, ArgsOnce, CallsOnce, Spread
  <2>7. Withdrawn' = Withdrawn \cup {id} /\ Pending' = Pending \ {id} /\ id \in Pending
        /\ id \notin Called \cup Unborn
    BY <1>1, <1>3, <1>5, <1>7, <2>4 DEF Withdrawn, Pending, Spread, Apart
  <2>8. Fates' = [Fates EXCEPT ![id] = "withdrawn"]
    BY <1>3, <1>4, <1>7, <2>7 DEF Fates
  <2>9. Fates[id] = "pending" /\ id \in asked
    BY <1>4, <1>9, <2>7, FateOf
  <2> QED
    BY <1>3, <1>4, <1>8, <2>6, <2>8, <2>9, TimerSteps DEF Refines
<1>10. CASE ~flag
  <2>1. todo' = [todo EXCEPT ![w] = <<Delayed(id, FALSE)>>]
    BY <1>1, <1>10
  <2>2. Delayed(id, FALSE) \in Task /\ Bears(<<Delayed(id, FALSE)>>, FALSE) = {id}
        /\ Bears(<<Delayed(id, FALSE)>>, TRUE) = {}
    BY <1>4, TaskTypes, BearsCall
  <2>3. Borne(<<Delayed(id, FALSE)>>) = {id}
    BY <2>2 DEF Borne
  <2>4. ToCancel' = ToCancel /\ ToRun' = ToRun \cup {id} /\ TodosOnce'
    <3>1. \A other \in ToCancel \cup ToRun : other \notin Borne(<<Delayed(id, FALSE)>>)
      BY <1>6, <2>3
    <3> QED
      BY <1>2, <2>1, <2>2, <3>1, GivenMoves
  <2>5. Spread'
    BY <1>1, <1>3, <1>5, <1>7, <2>4 DEF Spread, Apart
  <2>6. Single'
    BY <1>7, <2>4, <2>5 DEF Single, TodosOnce, ArgsOnce, CallsOnce, Spread
  <2>7. Withdrawn' = Withdrawn /\ Pending' = Pending
    BY <1>1, <1>3, <1>7, <2>4 DEF Withdrawn, Pending
  <2>8. Fates' = Fates
    BY <1>3, <1>7, <2>7 DEF Fates
  <2> QED
    BY <1>3, <1>8, <2>6, <2>8, TimerSteps DEF Refines
<1> QED
  BY <1>9, <1>10

\* A thread that calls run() again, a wakeup nobody asked for and the clock move
\* no handler.
LEMMA OtherRefines ==
    ASSUME TypeOK, Single,
           \/ Tick \/ UNCHANGED vars
           \/ \E w \in Workers : Run(w) \/ SpuriousWake(w)
    PROVE  Refines
<1>1. UNCHANGED <<in_wait, task_queue, todo, cur, arg, calls, expires, asked, stops, alive, next_id>>
      /\ (now' = now \/ now' = now + 1)
  BY DEF Tick, Run, SpuriousWake, vars, queueVars, activeVars, idVars, threadVars, historyVars
<1>2. \A t \in Threads : /\ pc'[t] = "delay" <=> pc[t] = "delay"
                         /\ pc'[t] \in HasTask <=> pc[t] \in HasTask
  BY DEF Tick, Run, SpuriousWake, vars, threadVars, Goto, HasTask, Timed, TypeOK, Threads
<1>3. Hand' = Hand /\ Unborn' = Unborn
  BY <1>1, <1>2 DEF Hand, Unborn, Holds, Threads
<1>4. InArg' = InArg /\ ArgsOnce'
  BY <1>1, Unmoved
<1>5. Single' /\ Fates' = Fates
  BY <1>1, <1>3, <1>4, NothingMoves
<1>6. Halted' = Halted
  BY <1>1 DEF Halted
<1> QED
  BY <1>1, <1>5, <1>6, TimerSteps DEF Refines

-----------------------------------------------------------------------------
(***************************************************************************)
(* What else the steps need of the state, and that every step keeps it.    *)
(***************************************************************************)
\* The closures that are no stop.
LEMMA NoStopKinds ==
    /\ NoTask \in NoStop /\ Body \in NoStop
    /\ \A n \in 1 .. MaxRegular : Regular(n) \in NoStop
    /\ \A id \in DelayedIds : Register(id) \in NoStop /\ Delayed(id, TRUE) \in NoStop
                                 /\ Delayed(id, FALSE) \in NoStop
<1>1. \A id \in DelayedIds : Delayed(id, TRUE) \in Task /\ Delayed(id, FALSE) \in Task
  BY TaskTypes
<1>2. \A n : /\ Regular(n).kind # "stop" /\ Register(n).kind # "stop"
             /\ Delayed(n, TRUE).kind # "stop" /\ Delayed(n, FALSE).kind # "stop"
  BY DEF Regular, Register, Delayed
<1>3. NoTask.kind # "stop" /\ Body.kind # "stop"
  BY DEF NoTask, Body
<1> QED
  BY <1>1, <1>2, <1>3, TaskTypes DEF NoStop

\* Nothing is stopped but by a stop.
LEMMA AsideStopped ==
    ASSUME TypeOK, Stopped, NEW t \in Threads, Call(t) \/ Continue(t)
    PROVE  Stopped'
<1>a. stops \in Nat /\ (stops' = stops \/ stops' = stops + 1)
  BY DEF Call, Continue, PostTask, PostDelayed, Reset, Destroy, PostStop, Stop,
       CancelWaiting, CancelInProcess, CheckActive, Push, CancelAll, Activate, ExecRegular,
       ExecDelayed, ExecRegister, ExecStop, Return, historyVars, TypeOK
<1>b. \A u \in Threads : u # t => arg'[u] = arg[u]
  BY DEF Call, Continue, PostTask, PostDelayed, Reset, Destroy, PostStop, Stop,
       CancelWaiting, CancelInProcess, CheckActive, Push, CancelAll, Activate, ExecRegular,
       ExecDelayed, ExecRegister, ExecStop, Return, BeginPost, threadVars, TypeOK
<1>c. Aside(t)
  BY CallAside, ContinueAside
<1>0. /\ stops \in Nat /\ stops' \in Nat /\ (stops' = 0 => stops = 0) /\ (stops > 0 => stops' > 0)
      /\ \A u \in Threads : u # t => pc'[u] = pc[u] /\ arg'[u] = arg[u] /\ todo'[u] = todo[u]
  <2>1. \A u \in Threads : u # t => pc'[u] = pc[u] /\ todo'[u] = todo[u]
    BY <1>c, AsideHands DEF Aside
  <2> QED
    BY <1>a, <1>b, <2>1
<1>1. CASE ExecStop(t) \/ \E waitRegular \in StopModes : Stop(t, waitRegular)
  BY <1>0, <1>1, StopsCount DEF Stopped
<1>2. CASE ~(ExecStop(t) \/ \E waitRegular \in StopModes : Stop(t, waitRegular))
  <2>1. (~enabled' => ~enabled) /\ pc'[t] # "cancel_all"
    BY <1>2 DEF Call, Continue, PostTask, PostDelayed, Reset, Destroy, PostStop,
       CancelWaiting, CancelInProcess, CheckActive, Push, CancelAll, Activate, ExecRegular,
       ExecDelayed, ExecRegister, Return, BeginPost, HasNext, MayCall, InUser,
       Goto, queueVars, threadVars, TypeOK
  <2>2. (~enabled' => stops' > 0) /\ \A u \in Threads : pc'[u] = "cancel_all" => stops' > 0
    BY <1>0, <2>1 DEF Stopped
  <2>3. ASSUME stops' = 0
        PROVE  /\ task_queue' \in Seq(NoStop)
               /\ \A u \in Threads : arg'[u] \in NoStop /\ todo'[u] \in Seq(NoStop)
    <3>1. stops = 0
      BY <1>0, <2>3
    <3>2. task_queue \in Seq(NoStop) /\ \A u \in Threads : arg[u] \in NoStop /\ todo[u] \in Seq(NoStop)
      BY <3>1 DEF Stopped
    <3>3. todo'[t] \in Seq(NoStop)
      <4>1. NoStop \subseteq Task
        BY DEF NoStop
      <4> QED
        BY <3>2, <4>1, AsideTodo, NoStopKinds
    <3>4. task_queue' \in {task_queue, Append(task_queue, arg[t])}
      BY <1>2 DEF Call, Continue, PostTask, PostDelayed, Reset, Destroy, PostStop,
         CancelWaiting, CancelInProcess, CheckActive, Push, Enqueue, CancelAll, Activate, ExecRegular,
         ExecDelayed, ExecRegister, Return, queueVars
    <3>5. task_queue' \in Seq(NoStop)
      BY <3>2, <3>4, AppendProperties
    <3>6. arg'[t] \in NoStop
      <4>1. CASE PostTask(t)
        <5>1. arg'[t] = Regular(posted + 1) /\ posted + 1 \in 1 .. MaxRegular
          BY <4>1, BoundsAssumption DEF PostTask, BeginPost, TypeOK
        <5> QED
          BY <5>1, NoStopKinds
      <4>2. CASE PostDelayed(t)
        <5>1. arg'[t] = Register(next_id) /\ next_id \in DelayedIds
          BY <4>2, BoundsAssumption DEF PostDelayed, TypeOK, DelayedIds
        <5> QED
          BY <5>1, NoStopKinds
      <4>3. CASE \E id \in DelayedIds : CancelWaiting(t, id)
        BY <4>3, NoStopKinds DEF CancelWaiting, BeginPost, TypeOK
      <4>4. CASE \E waitRegular \in StopModes : PostStop(t, waitRegular)
        BY <2>3, <4>4 DEF PostStop, TypeOK
      <4>5. CASE ~(PostTask(t) \/ PostDelayed(t) \/ (\E id \in DelayedIds : CancelWaiting(t, id))
                   \/ \E waitRegular \in StopModes : PostStop(t, waitRegular))
        <5>1. arg'[t] \in {arg[t], NoTask}
          BY <4>5 DEF Call, Continue, Reset, Destroy, Stop,
             CancelInProcess, CheckActive, Push, CancelAll, Activate, ExecRegular,
             ExecDelayed, ExecRegister, ExecStop, Return, threadVars, TypeOK
        <5> QED
          BY <3>2, <5>1, NoStopKinds
      <4> QED
        BY <4>1, <4>2, <4>3, <4>4, <4>5
    <3> QED
      BY <1>0, <3>2, <3>3, <3>5, <3>6
  <2> QED
    BY <2>2, <2>3 DEF Stopped
<1> QED
  BY <1>1, <1>2

\* Nor does a worker.
LEMMA ServeStopped ==
    ASSUME TypeOK, LockParts, Hands, Stopped, NEW w \in Workers, Serve(w)
    PROVE  Stopped'
<1>1. UNCHANGED <<arg, stops>>
  BY ServeHand
<1>2. enabled' = enabled /\ \A u \in Threads : pc'[u] = "cancel_all" => pc[u] = "cancel_all"
  <2>1. enabled' = enabled /\ pc'[w] # "cancel_all"
    BY DEF Serve, RunReturns, WaitNext, Disabled, Idle, IdleWakes, TakeRegular, PopDelayed,
         TestPredicate, Block, Notified, TimesOut, CancelSeen, NotCancelled, TakeInstead, Fire,
         Obtain, Looping, queueVars, Goto, TypeOK, Threads
  <2> QED
    BY <2>1, ServeHanded
<1>3. ASSUME stops = 0
      PROVE  task_queue' \in Seq(NoStop) /\ \A u \in Threads : todo'[u] \in Seq(NoStop)
  <2>1. task_queue \in Seq(NoStop) /\ \A u \in Threads : todo[u] \in Seq(NoStop)
    BY <1>3 DEF Stopped
  <2>2. task_queue # <<>> => Head(task_queue) \in NoStop /\ Tail(task_queue) \in Seq(NoStop)
    BY <2>1, HeadTailTypes
  <2>3. \A task \in NoStop : <<task>> \in Seq(NoStop)
    OBVIOUS
  <2>4. \A u \in Threads : u # w => todo'[u] = todo[u]
    BY ServeHanded
  <2>5. Holds(w) => \A flag \in BOOLEAN : Delayed(cur[w], flag) \in NoStop
    <3> SUFFICES ASSUME Holds(w), NEW flag \in BOOLEAN PROVE Delayed(cur[w], flag) \in NoStop
      OBVIOUS
    <3>1. cur[w] \in DelayedIds
      BY HeldIds DEF Hands
    <3>2. CASE flag = TRUE
      BY <3>1, <3>2, NoStopKinds
    <3>3. CASE flag = FALSE
      BY <3>1, <3>3, NoStopKinds
    <3> QED
      BY <3>2, <3>3
  <2>6. \A task : todo' = [todo EXCEPT ![w] = <<task>>] => todo'[w] = <<task>>
    BY DEF TypeOK, Threads
  <2>7. task_queue' \in Seq(NoStop)
    BY <2>1, <2>2, ServeHanded
  <2>8. todo'[w] \in Seq(NoStop)
    BY <2>1, <2>2, <2>3, <2>5, <2>6, ServeTakes DEF Threads
  <2> QED
    BY <2>1, <2>4, <2>7, <2>8
<1> QED
  BY <1>1, <1>2, <1>3 DEF Stopped

\* A mark is left by a cancel, and only a worker's own step takes its task away
\* otherwise.
LEMMA AsideMarked ==
    ASSUME TypeOK, Hands, Marked, NEW t \in Threads, Call(t) \/ Continue(t)
    PROVE  Marked'
<1>1. \A w \in Workers : (Holds(w)' <=> Holds(w)) /\ cur'[w] = cur[w]
  <2>1. Aside(t)
    BY CallAside, ContinueAside
  <2> QED
    BY <2>1 DEF Aside, Holds, HasTask, InWaitNext, Inside, Threads
<1>2. asked \subseteq asked'
  BY DEF Call, Continue, PostTask, PostDelayed, Reset, Destroy, PostStop, Stop,
       CancelWaiting, CancelInProcess, CheckActive, Push, CancelAll, Activate, ExecRegular,
       ExecDelayed, ExecRegister, ExecStop, Return, historyVars
<1>3. ASSUME NEW w \in Workers, Holds(w), cur[w] \in in_process, cur[w] \notin in_process'
      PROVE  cur[w] \in asked'
  <2>1. CASE \E id \in DelayedIds : CancelInProcess(t, id)
    BY <1>3, <2>1 DEF CancelInProcess
  <2>2. CASE \E dur \in Durations : Activate(t, dur)
    BY <1>3, <2>2 DEF Activate, ToWaitMap, Hands, FreshIds
  <2>3. CASE ~((\E id \in DelayedIds : CancelInProcess(t, id)) \/ \E dur \in Durations : Activate(t, dur))
    <3>1. in_process' = in_process
      BY <2>3 DEF Call, Continue, PostTask, PostDelayed, Reset, Destroy, PostStop, Stop,
         CancelWaiting, CheckActive, Push, CancelAll, ExecRegular,
         ExecDelayed, ExecRegister, ExecStop, Return, activeVars
    <3> QED
      BY <1>3, <3>1
  <2> QED
    BY <2>1, <2>2, <2>3
<1> QED
  BY <1>1, <1>2, <1>3 DEF Marked

\* A worker takes only its own task from the process set, when it gives it up.
LEMMA ServeMarked ==
    ASSUME TypeOK, LockParts, Hands, Marked, NEW w \in Workers, Serve(w)
    PROVE  Marked'
<1>1. asked' = asked
  BY ServeHand
<1>2. \A v \in Workers : v # w => (Holds(v)' <=> Holds(v)) /\ cur'[v] = cur[v]
  <2>1. \A v \in Workers : v # w => cur'[v] = cur[v]
    BY DEF Serve, RunReturns, WaitNext, Disabled, Idle, IdleWakes, TakeRegular, PopDelayed,
         TestPredicate, Block, Notified, TimesOut, CancelSeen, NotCancelled, TakeInstead, Fire,
         Obtain, TypeOK
  <2> QED
    BY <2>1, ServeHanded DEF Holds, Threads
<1>3. \A v \in Workers : v # w /\ Holds(v) /\ cur[v] \in in_process => cur[v] \in in_process'
  <2>1. CASE Fire(w) \/ TakeInstead(w)
    <3>1. Holds(w) /\ in_process \ {cur[w]} \subseteq in_process'
      BY <2>1 DEF Fire, TakeInstead, PutBack, ToWaitMap, Holds, HasTask, Timed
    <3> QED
      BY <3>1 DEF Hands, Custody
  <2>2. CASE ~(Fire(w) \/ TakeInstead(w))
    <3>1. in_process \subseteq in_process'
      BY <2>2 DEF Serve, RunReturns, WaitNext, Disabled, Idle, IdleWakes, TakeRegular, PopDelayed,
         TestPredicate, Block, Notified, TimesOut, CancelSeen, NotCancelled, activeVars
    <3> QED
      BY <3>1
  <2> QED
    BY <2>1, <2>2
<1>4. Holds(w)' /\ cur'[w] \notin in_process' => cur'[w] \in asked
  <2>1. CASE Fire(w) \/ TakeInstead(w) \/ CancelSeen(w) \/ TakeRegular(w)
    <3>1. ~Holds(w)'
      BY <2>1 DEF Fire, TakeInstead, CancelSeen, TakeRegular, Obtain, Goto, Holds, HasTask, Timed, TypeOK, Threads
    <3> QED
      BY <3>1
  <2>2. ASSUME NEW id \in DelayedIds, PopDelayed(w, id), id \in in_wait
        PROVE  cur'[w] \in in_process'
    BY <2>2 DEF PopDelayed, TypeOK
  <2>3. CASE \/ RunReturns(w) \/ WaitNext(w) \/ Disabled(w) \/ Idle(w) \/ IdleWakes(w)
             \/ \E id \in DelayedIds : PopDelayed(w, id) /\ id \notin in_wait
             \/ TestPredicate(w) \/ Block(w) \/ Notified(w) \/ TimesOut(w) \/ NotCancelled(w)
    <3>1. UNCHANGED <<cur, in_process>> /\ (Holds(w)' <=> Holds(w))
      BY <2>3 DEF RunReturns, WaitNext, Disabled, Idle, IdleWakes, PopDelayed, TestPredicate, Block, Looping,
         Notified, TimesOut, NotCancelled, activeVars, Goto, Holds, HasTask, Timed, TypeOK, Threads
    <3> QED
      BY <3>1 DEF Marked
  <2> QED
    BY <2>1, <2>2, <2>3 DEF Serve
<1> QED
  BY <1>1, <1>2, <1>3, <1>4 DEF Marked

\* Outside wait_next no thread comes by a handler that is to run.
LEMMA AsideToRun ==
    ASSUME TypeOK, OnlyWithdrawals, NEW t \in Threads, Call(t) \/ Continue(t)
    PROVE  ToRun' \subseteq ToRun
<1> DEFINE S == {task \in Task : \A id \in DelayedIds : task = Delayed(id, FALSE) => id \in ToRun}
<1>1. Body \in S /\ \A id \in DelayedIds : Delayed(id, TRUE) \in S
  <2>1. \A id : Body # Delayed(id, FALSE)
    BY DEF Body, Delayed
  <2>2. \A id \in DelayedIds : Delayed(id, TRUE) \in Task
    BY TaskTypes
  <2> QED
    BY <2>1, <2>2, TaskTypes, WithdrawalsDiffer
<1>2. ASSUME NEW s \in Seq(Task), \A i \in DOMAIN s : s[i] \in S PROVE s \in Seq(S)
  <2> HIDE DEF S
  <2>1. Len(s) \in Nat /\ DOMAIN s = 1 .. Len(s) /\ s \in [1 .. Len(s) -> Task]
    BY LenProperties, SeqDef
  <2>2. s \in [1 .. Len(s) -> S]
    BY <1>2, <2>1
  <2> QED
    BY <2>1, <2>2, SeqDef
<1>3. task_queue \in Seq(S)
  <2>1. \A id : ~Withdrawal(Delayed(id, FALSE))
    BY WithdrawalKinds
  <2>2. task_queue \in Seq(Task)
    BY DEF TypeOK
  <2>3. \A i \in DOMAIN task_queue : task_queue[i] \in Task
    BY <2>2, ElementOfSeq, LenProperties
  <2>4. \A i \in DOMAIN task_queue : task_queue[i] \in S
    BY <2>1, <2>3 DEF OnlyWithdrawals
  <2> HIDE DEF S
  <2> QED
    BY <1>2, <2>2, <2>4
<1>4. todo[t] \in Seq(S)
  <2>1. todo[t] \in Seq(Task)
    BY DEF TypeOK
  <2>2. \A i \in DOMAIN todo[t] : todo[t][i] \in Task
    BY <2>1, ElementOfSeq, LenProperties
  <2>3. \A i \in DOMAIN todo[t] : todo[t][i] \in S
    BY <2>2 DEF ToRun, In
  <2> HIDE DEF S
  <2> QED
    BY <1>2, <2>1, <2>3
<1>5. S \subseteq Task
  OBVIOUS
<1> HIDE DEF S
<1>6. todo'[t] \in Seq(S)
  BY <1>1, <1>3, <1>4, <1>5, AsideTodo
<1>7. \A id \in DelayedIds : In(Delayed(id, FALSE), todo'[t]) => Delayed(id, FALSE) \in S
  <2>1. \A i \in DOMAIN todo'[t] : todo'[t][i] \in S
    BY <1>6, ElementOfSeq, LenProperties
  <2> QED
    BY <2>1 DEF In
<1>8. \A u \in Threads : u # t => todo'[u] = todo[u]
  BY AsideHands
<1>9. \A id \in DelayedIds : Delayed(id, FALSE) \in S => id \in ToRun
  BY DEF S
<1> QED
  BY <1>7, <1>8, <1>9 DEF ToRun

\* A handler that is to run stays due.
LEMMA AsideDue ==
    ASSUME TypeOK, FreshIds, Single, OnlyWithdrawals, DueCalls, NEW t \in Threads, Call(t) \/ Continue(t)
    PROVE  DueCalls'
<1>1. ToRun' \subseteq ToRun
  BY AsideToRun
<1>2. stops' = 0 => stops = 0
  <2>1. stops \in Nat /\ (stops' = stops \/ stops' = stops + 1)
    BY DEF Call, Continue, PostTask, PostDelayed, Reset, Destroy, PostStop, Stop,
       CancelWaiting, CancelInProcess, CheckActive, Push, CancelAll, Activate, ExecRegular,
       ExecDelayed, ExecRegister, ExecStop, Return, historyVars, TypeOK
  <2> QED
    BY <2>1
<1>3. now' = now
  BY AsideHands
<1>4. \A id \in ToRun : expires'[id] = expires[id]
  <2>1. CASE \E dur \in Durations : Activate(t, dur)
    <3>1. arg[t].id \in Unborn
      BY <2>1, AsideUnborn DEF Activate
    <3>2. arg[t].id \notin ToRun
      BY <3>1, SingleParts DEF Spread, Apart
    <3>3. ToRun \subseteq DelayedIds
      BY DEF ToRun
    <3> QED
      BY <2>1, <3>2, <3>3 DEF Activate, TypeOK
  <2>2. CASE ~\E dur \in Durations : Activate(t, dur)
    BY <2>2 DEF Call, Continue, PostTask, PostDelayed, Reset, Destroy, PostStop, Stop,
       CancelWaiting, CancelInProcess, CheckActive, Push, CancelAll, ExecRegular,
       ExecDelayed, ExecRegister, ExecStop, Return, idVars
  <2> QED
    BY <2>1, <2>2
<1> QED
  BY <1>1, <1>2, <1>3, <1>4 DEF DueCalls

\* A worker chooses to run a handler in time, unless the queue is disabled.
LEMMA ServeDue ==
    ASSUME TypeOK, LockParts, Hands, Single, InTime, Stopped, DueCalls, NEW w \in Workers, Serve(w)
    PROVE  DueCalls'
<1>1. UNCHANGED <<expires, now, stops>>
  BY ServeHand
<1>2. CASE CancelSeen(w) \/ Fire(w)
  <2> DEFINE id == cur[w]
             flag == id \notin in_process
  <2>1. /\ Holds(w) /\ pc[w] \in InWaitNext /\ todo' = [todo EXCEPT ![w] = <<Delayed(id, flag)>>]
        /\ ~flag => pc[w] = "fire"
    <3> USE DEF Obtain, Holds, HasTask, Timed, InWaitNext, Inside
    <3>1. CASE Fire(w)
      BY <3>1 DEF Fire, Cancelled
    <3>2. CASE CancelSeen(w)
      <4>1. flag = TRUE
        BY <3>2 DEF CancelSeen
      <4> HIDE DEF flag
      <4> QED
        BY <3>2, <4>1 DEF CancelSeen
    <3> QED
      BY <1>2, <3>1, <3>2
  <2>2. id \in DelayedIds
    BY <2>1, HeldIds DEF Hands
  <2>3. ~flag /\ stops = 0 => expires[id] =< now
    <3>1. ~flag /\ stops = 0 => ~(now < expires[id])
      BY <2>1 DEF InTime, Reasons, Early, Stopped, TypeOK
    <3>2. expires[id] \in Nat /\ now \in Nat
      BY <2>2 DEF TypeOK
    <3>3. \A m, n \in Nat : ~(m < n) => n =< m
      OBVIOUS
    <3> QED
      BY <3>1, <3>2, <3>3
  <2>4. todo'[w] = <<Delayed(id, flag)>> /\ \A u \in Threads : u # w => todo'[u] = todo[u]
    BY <2>1 DEF TypeOK, Threads
  <2> HIDE DEF id
  <2>5. ToRun' \subseteq ToRun \cup (IF flag THEN {} ELSE {id})
    <3>1. CASE flag = TRUE
      <4>1. \A other \in DelayedIds : ~In(Delayed(other, FALSE), <<Delayed(id, TRUE)>>)
        BY <2>2, BearsCall DEF Bears
      <4> QED
        BY <2>4, <3>1, <4>1 DEF ToRun
    <3>2. CASE flag = FALSE
      <4>0. Bears(<<Delayed(id, FALSE)>>, FALSE) = {id}
        BY <2>2, BearsCall
      <4>1. \A other \in DelayedIds : In(Delayed(other, FALSE), <<Delayed(id, FALSE)>>) => other = id
        BY <4>0 DEF Bears
      <4> QED
        BY <2>4, <3>2, <4>1 DEF ToRun
    <3> QED
      BY <3>1, <3>2
  <2> QED
    BY <1>1, <2>3, <2>5 DEF DueCalls
<1>3. CASE ~(CancelSeen(w) \/ Fire(w))
  <2>1. ToRun' = ToRun
    <3>1. CASE TakeRegular(w) \/ TakeInstead(w)
      <4>1. /\ pc[w] \in InWaitNext
            /\ task_queue # <<>> /\ task_queue' = Tail(task_queue)
            /\ todo' = [todo EXCEPT ![w] = <<Head(task_queue)>>]
        BY <3>1 DEF TakeRegular, TakeInstead, Obtain, InWaitNext, Inside, Timed, LockParts, FirstWaits
      <4>2. todo[w] = <<>> /\ OnlyWithdrawals /\ w \in Threads
        BY <4>1 DEF InTime, WaitsEmptyHanded, Threads
      <4> QED
        BY <4>1, <4>2, TakeMoves
    <3>2. CASE ~(TakeRegular(w) \/ TakeInstead(w))
      <4>1. todo' = todo
        BY <1>3, <3>2 DEF Serve, RunReturns, WaitNext, Disabled, Idle, IdleWakes, PopDelayed,
           TestPredicate, Block, Notified, TimesOut, NotCancelled
      <4> QED
        BY <4>1 DEF ToRun
    <3> QED
      BY <3>1, <3>2
  <2> QED
    BY <1>1, <2>1 DEF DueCalls
<1> QED
  BY <1>2, <1>3

\* A thread has a closure to post only while it posts it.
LEMMA AsidePosted ==
    ASSUME TypeOK, Posted, NEW t \in Threads, Call(t) \/ Continue(t)
    PROVE  Posted'
<1>1. \A u \in Threads : u # t => pc'[u] = pc[u] /\ arg'[u] = arg[u]
  <2>1. Aside(t)
    BY CallAside, ContinueAside
  <2>2. \A u \in Threads : u # t => arg'[u] = arg[u]
    BY DEF Call, Continue, PostTask, PostDelayed, Reset, Destroy, PostStop, Stop,
       CancelWaiting, CancelInProcess, CheckActive, Push, CancelAll, Activate, ExecRegular,
       ExecDelayed, ExecRegister, ExecStop, Return, BeginPost, threadVars, TypeOK
  <2> QED
    BY <2>1, <2>2 DEF Aside
<1>2. CASE Call(t)
  <2>1. pc[t] = "exec"
    BY <1>2 DEF Call, PostTask, PostDelayed, Reset, Destroy, PostStop, Stop, CancelWaiting,
       CancelInProcess, MayCall, InUser
  <2>2. arg[t] = NoTask
    BY <2>1 DEF Posted, Posting
  <2>3. pc'[t] \in Posting \/ arg' = arg
    BY <1>2 DEF Call, PostTask, PostDelayed, Reset, Destroy, PostStop, Stop, CancelWaiting,
       CancelInProcess, BeginPost, Goto, Posting, threadVars, TypeOK
  <2> QED
    BY <1>1, <2>2, <2>3 DEF Posted
<1>3. CASE Continue(t)
  <2>1. pc'[t] \in Posting \/ arg'[t] = NoTask
    BY <1>3 DEF Continue, CheckActive, Push, CancelAll, Activate, ExecRegular, ExecDelayed, StopQueue,
       ExecRegister, ExecStop, Return, InUser, HasNext, Goto, Posted, Posting, TypeOK
  <2> QED
    BY <1>1, <2>1 DEF Posted
<1> QED
  BY <1>2, <1>3

\* Inside wait_next nothing is posted.
LEMMA ServePosted ==
    ASSUME TypeOK, LockParts, Hands, Posted, NEW w \in Workers, Serve(w)
    PROVE  Posted'
<1>1. arg' = arg
  BY ServeHand
<1>2. pc[w] \notin Posting
  BY DEF Serve, RunReturns, WaitNext, Disabled, Idle, IdleWakes, TakeRegular, PopDelayed,
         TestPredicate, Block, Notified, TimesOut, CancelSeen, NotCancelled, TakeInstead, Fire,
         Looping, Posting
<1>3. \A u \in Threads : u # w => pc'[u] = pc[u]
  BY ServeHanded
<1> QED
  BY <1>1, <1>2, <1>3 DEF Posted, Threads

\* The clock, a worker that calls run() again, and a wakeup for nothing keep what
\* the other steps need.
LEMMA OtherKept ==
    ASSUME TypeOK, Stopped, Marked, DueCalls, Posted,
           \/ Tick \/ UNCHANGED vars
           \/ \E w \in Workers : Run(w) \/ SpuriousWake(w)
    PROVE  Stopped' /\ Marked' /\ DueCalls' /\ Posted'
<1>1. /\ UNCHANGED <<enabled, task_queue, todo, arg, cur, in_process, expires, asked, stops>>
      /\ now' = now \/ now' = now + 1
  BY DEF Tick, Run, SpuriousWake, vars, queueVars, activeVars, idVars, threadVars, historyVars
<1>2. \A t \in Threads : /\ pc'[t] = "cancel_all" <=> pc[t] = "cancel_all"
                         /\ pc'[t] \in HasTask <=> pc[t] \in HasTask
                         /\ pc'[t] \in Posting <=> pc[t] \in Posting
  BY DEF Tick, Run, SpuriousWake, vars, threadVars, Goto, HasTask, Timed, Posting, TypeOK, Threads
<1>3. Stopped' /\ Posted'
  BY <1>1, <1>2 DEF Stopped, Posted
<1>4. Marked'
  BY <1>1, <1>2 DEF Marked, Holds, Threads
<1>5. DueCalls'
  <2>1. ToRun' = ToRun /\ stops' = stops
    BY <1>1 DEF ToRun
  <2>2. \A id \in ToRun : expires'[id] = expires[id] /\ expires[id] \in Nat
    BY <1>1 DEF ToRun, TypeOK
  <2>3. now \in Nat /\ now' \in Nat /\ now =< now'
    BY <1>1 DEF TypeOK
  <2>4. \A k, m, n \in Nat : k =< m /\ m =< n => k =< n
    OBVIOUS
  <2> QED
    BY <2>1, <2>2, <2>3, <2>4 DEF DueCalls
<1> QED
  BY <1>3, <1>4, <1>5

\* In a new queue every handler is yet to be posted.
LEMMA InitKept == Init => Kept /\ Timers!Init
<1> SUFFICES ASSUME Init PROVE Kept /\ Timers!Init
  OBVIOUS
<1>0. Inductive /\ InTime
  BY InitInductive, InitInTime
<1>1. \A t \in Threads : arg[t] = NoTask /\ (todo[t] = <<>> \/ todo[t] = <<Body>>) /\ pc[t] = "exec"
  BY DEF Init
<1>2. \A id \in DelayedIds : Body # Delayed(id, TRUE) /\ Body # Delayed(id, FALSE)
                             /\ NoTask # Delayed(id, TRUE) /\ NoTask # Delayed(id, FALSE)
  BY DEF Body, NoTask, Delayed
<1>3. \A s \in {<<>>, <<Body>>} : Once(s) /\ Bears(s, TRUE) = {} /\ Bears(s, FALSE) = {}
  <2>1. /\ Bears(<<Body>>, TRUE) = {id \in DelayedIds : Body = Delayed(id, TRUE)}
        /\ Bears(<<Body>>, FALSE) = {id \in DelayedIds : Body = Delayed(id, FALSE)}
    BY BearsOne
  <2>2. Bears(<<Body>>, TRUE) = {} /\ Bears(<<Body>>, FALSE) = {}
    BY <1>2, <2>1
  <2>3. Once(<<Body>>) /\ Once(<<>>) /\ Bears(<<>>, TRUE) = {} /\ Bears(<<>>, FALSE) = {}
    BY BearsOne
  <2> QED
    BY <2>2, <2>3
<1>4. /\ in_wait = {} /\ Hand = {} /\ InQueue = {} /\ InArg = {} /\ ToCancel = {} /\ ToRun = {}
      /\ Called = {}
  <2>1. in_wait = {} /\ InQueue = {} /\ Called = {}
    BY <1>3 DEF Init, InQueue, Called
  <2>2. Hand = {}
    BY ThreadsAssumption DEF Init, Hand, Holds, HasTask, Timed, Threads
  <2>3. InArg = {}
    BY <1>1, <1>2 DEF InArg
  <2>4. ToCancel = {} /\ ToRun = {}
    BY <1>1, <1>3 DEF ToCancel, ToRun, Bears
  <2> QED
    BY <2>1, <2>2, <2>3, <2>4
<1>5. Unborn = DelayedIds
  <2>1. \A id \in DelayedIds : id >= 1
    BY BoundsAssumption DEF DelayedIds
  <2> QED
    BY <2>1 DEF Init, Unborn
<1>6. Single
  <2>1. Once(task_queue) /\ CallsOnce
    BY <1>3 DEF Init, CallsOnce
  <2>2. TodosOnce
    BY <1>1, <1>3 DEF TodosOnce, Borne
  <2>3. ArgsOnce
    BY <1>1, <1>2 DEF ArgsOnce
  <2>4. Spread
    BY <1>4 DEF Spread, Apart
  <2> QED
    BY <2>1, <2>2, <2>3, <2>4, SingleParts
<1>7. Stopped
  <2>1. NoTask \in NoStop /\ Body \in NoStop
    BY TaskTypes DEF NoStop, NoTask, Body, Task
  <2>2. <<>> \in Seq(NoStop) /\ <<Body>> \in Seq(NoStop)
    BY <2>1
  <2> QED
    BY <1>1, <2>1, <2>2 DEF Stopped, Init
<1>8. Marked /\ DueCalls /\ Posted
  BY <1>1, <1>4, ThreadsAssumption
     DEF Marked, DueCalls, Posted, Init, Holds, HasTask, Timed, Threads
<1>9. Timers!Init
  <2>1. LifeOf = Fates
    BY <1>0, <1>6, LifeIsFate DEF Inductive, InTime
  <2>2. Fates = [id \in DelayedIds |-> "new"]
    BY <1>4, <1>5 DEF Fates
  <2>3. expires = [id \in DelayedIds |-> 0] /\ now = 0 /\ asked = {} /\ Halted = FALSE
    BY DEF Init, Halted
  <2> QED
    BY <2>1, <2>2, <2>3 DEF Timers!Init, LifeOf, Halted
<1> QED
  BY <1>6, <1>7, <1>8, <1>9 DEF Kept

\* Every step keeps every handler in one place, and moves the handlers as a step
\* of DelayedTimers.
LEMMA NextRefines == Inductive /\ InTime /\ Kept /\ [Next]_vars => Kept' /\ Refines
<1> SUFFICES ASSUME Inductive, InTime, Kept, [Next]_vars PROVE Kept' /\ Refines
  OBVIOUS
<1>0. /\ TypeOK /\ LockParts /\ Hands /\ FreshIds /\ OnlyWithdrawals
      /\ Single /\ Stopped /\ Marked /\ DueCalls /\ Posted
  BY DEF Inductive, LockParts, Hands, InTime, Kept
<1>1. ASSUME NEW t \in Threads, Call(t) PROVE Refines
  BY <1>0, <1>1, CallsRefine, CancelWaitingRefines, StopRefines, SwapRefines DEF Call
<1>2. ASSUME NEW t \in Threads, Continue(t) PROVE Refines
  <2>1. CASE CheckActive(t) \/ Push(t) \/ CancelAll(t) \/ \E dur \in Durations : Activate(t, dur)
    BY <1>0, <2>1, CheckActiveRefines, PushRefines, SwapRefines, ActivateRefines
  <2>2. CASE ExecRegular(t) \/ ExecDelayed(t) \/ ExecRegister(t) \/ ExecStop(t) \/ Return(t)
    BY <1>0, <2>2, ExecRefines, ExecDelayedRefines, StopRefines
  <2> QED
    BY <1>2, <2>1, <2>2 DEF Continue
<1>3. ASSUME NEW w \in Workers, Serve(w) PROVE Refines
  <2>1. CASE CancelSeen(w) \/ Fire(w)
    BY <1>0, <2>1, ChooseRefines
  <2>2. CASE TakeRegular(w) \/ TakeInstead(w)
    BY <1>0, <2>2, TakeRefines
  <2>3. CASE \E id \in DelayedIds : PopDelayed(w, id) /\ id \in in_wait
    BY <1>0, <2>3, PopRefines
  <2>4. CASE \/ RunReturns(w) \/ WaitNext(w) \/ Disabled(w) \/ Idle(w) \/ IdleWakes(w)
             \/ \E id \in DelayedIds : PopDelayed(w, id) /\ id \notin in_wait
             \/ TestPredicate(w) \/ Block(w) \/ Notified(w) \/ TimesOut(w) \/ NotCancelled(w)
    BY <1>0, <1>3, <2>4, WaitRefines
  <2> QED
    BY <1>3, <2>1, <2>2, <2>3, <2>4 DEF Serve
<1>4. ASSUME NEW t \in Threads, Call(t) \/ Continue(t) PROVE Kept'
  <2>1. Single'
    BY <1>1, <1>2, <1>4 DEF Refines
  <2>2. Stopped' /\ Marked' /\ DueCalls' /\ Posted'
    BY <1>0, <1>4, AsideStopped, AsideMarked, AsideDue, AsidePosted
  <2> QED
    BY <2>1, <2>2 DEF Kept
<1>5. ASSUME NEW w \in Workers, Serve(w) PROVE Kept'
  <2>1. Single'
    BY <1>3, <1>5 DEF Refines
  <2>2. Stopped' /\ Marked' /\ DueCalls' /\ Posted'
    BY <1>0, <1>5, ServeStopped, ServeMarked, ServeDue, ServePosted
  <2> QED
    BY <2>1, <2>2 DEF Kept
<1>6. ASSUME \/ Tick \/ UNCHANGED vars
             \/ \E w \in Workers : Run(w) \/ SpuriousWake(w)
      PROVE  Kept' /\ Refines
  BY <1>0, <1>6, OtherRefines, OtherKept DEF Refines, Kept
<1> QED
  BY <1>1, <1>2, <1>3, <1>4, <1>5, <1>6 DEF Next

\* For any threads and bounds, a handler is in one place at a time: in the map, in
\* the hands of one worker, in one closure that somebody has to post, to take or to
\* execute, or called, and then once.
THEOREM KeptHolds == Spec => []Kept
BY InitKept, NextRefines, InductiveHolds, InTimeHolds, PTL DEF Spec

\* For any threads and bounds, the queue does with its delayed handlers only what
\* DelayedTimers allows: none is called twice, none before its time or as cancelled
\* unless somebody cancelled it or stopped the queue, and no call that a cancel owes
\* is lost unless somebody stopped the queue (base.h:347-366, 535-569).
THEOREM TimersImplemented == Spec => ImplementsTimers
<1> DEFINE Seen == LifeOf = Fates
<1>1. Inductive /\ InTime /\ Kept => Seen
  BY LifeIsFate DEF Inductive, InTime, Kept
<1>2. Inductive /\ InTime /\ Kept /\ [Next]_vars /\ Seen /\ Seen' => [Timers!Next]_(Timers!tvars)
  BY NextRefines DEF Refines, Step
<1>3. Init => Timers!Init
  BY InitKept
<1> HIDE DEF Seen
<1> QED
  BY <1>1, <1>2, <1>3, InductiveHolds, InTimeHolds, KeptHolds, PTL DEF Spec, ImplementsTimers, Timers!Spec
================================================================================
