---------------------------- MODULE DelayedQueue ----------------------------
(***************************************************************************)
(* queues::delayed::base: a task queue served by any number of threads     *)
(* that call run(), with regular tasks (a FIFO) and delayed tasks (a heap  *)
(* of expiry times, a map of the handlers nobody has taken yet, and a set  *)
(* of the handlers some thread waits the time of).                         *)
(*                                                                         *)
(* Two mutexes protect the state. Every section of active_lock_ is one     *)
(* step. A section of work_lock_ is one step too, except in wait_next,     *)
(* which keeps the lock across several sections of active_lock_: a worker  *)
(* inside wait_next owns work_lock until it returns or waits.              *)
(***************************************************************************)
EXTENDS Naturals, Sequences, FiniteSets

CONSTANTS
    Workers,     \* threads that call run()
    Clients,     \* threads that only call the public operations
    Callers,     \* threads whose user code calls the public operations
    Bounded,     \* workers that call run(Hint); the others call run()
    Hint,
    Durations,   \* delays a task may be posted with
    StopModes,   \* values of wait_regular_tasks given to stop and post_stop
    MaxRegular, MaxDelayed, MaxStops, MaxNow,   \* bounds of the exploration
    NoThread

Threads == Workers \cup Clients
DelayedIds == 1 .. MaxDelayed

ASSUME ThreadsAssumption ==
    /\ Workers \cap Clients = {}
    /\ Clients \subseteq Callers
    /\ Callers \subseteq Threads
    /\ Bounded \subseteq Workers
    /\ NoThread \notin Threads

ASSUME BoundsAssumption ==
    /\ Hint \in Nat
    /\ Durations \subseteq Nat
    /\ StopModes \subseteq BOOLEAN
    /\ MaxRegular \in Nat /\ MaxDelayed \in Nat
    /\ MaxStops \in Nat /\ MaxNow \in Nat

(***************************************************************************)
(* What a thread can have to execute: a closure of the queue, or the body  *)
(* of a user's handler that is under way (Body), which may itself call the *)
(* public operations.                                                      *)
(***************************************************************************)
NoTask        == [kind |-> "none",     id |-> 0,  flag |-> FALSE]
Body          == [kind |-> "body",     id |-> 0,  flag |-> FALSE]
Regular(n)    == [kind |-> "regular",  id |-> n,  flag |-> FALSE]
Register(id)  == [kind |-> "register", id |-> id, flag |-> FALSE]
Delayed(id, cancelled) ==
                 [kind |-> "delayed",  id |-> id, flag |-> cancelled]
StopTask(waitRegular) ==
                 [kind |-> "stop",     id |-> 0,  flag |-> waitRegular]

Task == {NoTask, Body} \cup {Regular(n) : n \in 1 .. MaxRegular}
          \cup {Register(id) : id \in DelayedIds}
          \cup {Delayed(id, cancelled) : id \in DelayedIds, cancelled \in BOOLEAN}
          \cup {StopTask(waitRegular) : waitRegular \in BOOLEAN}

VARIABLES
    enabled, task_queue, delayed,      \* under work_lock_
    work_lock, waiting,                \* work_lock_'s owner, and the threads
                                       \* asleep on work_cond_, unsignalled
    in_wait, in_process,               \* under active_lock_
    next_id, expires,                  \* id_, and expires_ of every id
    now,                               \* the steady clock
    pc, todo, arg, cur, left,          \* of every thread: its point in the
        \* code, the closures it has to execute, the closure it is posting,
        \* the delayed task it holds in wait_next, what run(n) has left
    posted, stops, asked, calls, started, alive  \* history

queueVars   == <<enabled, task_queue, delayed, work_lock, waiting>>
activeVars  == <<in_wait, in_process>>
idVars      == <<next_id, expires>>
threadVars  == <<pc, todo, arg, cur, left>>
historyVars == <<posted, stops, asked, calls, started, alive>>
vars == <<queueVars, activeVars, idVars, now, threadVars, historyVars>>

\* The points of wait_next at which a worker holds a delayed task...
Timed   == {"timed", "block", "notified", "timedout", "take", "fire"}
HasTask == Timed \cup {"sleep"}
\* ... and those at which it owns work_lock_.
Inside  == Timed \cup {"top"}
Posting == {"delay", "post", "push"}
PCs     == Inside \cup Posting \cup {"exec", "idle", "sleep", "cancel_all", "done"}

Init ==
    /\ enabled = TRUE /\ task_queue = <<>> /\ delayed = {}
    /\ work_lock = NoThread /\ waiting = {}
    /\ in_wait = {} /\ in_process = {}
    /\ next_id = 1 /\ expires = [id \in DelayedIds |-> 0]
    /\ now = 0
    /\ pc = [t \in Threads |-> "exec"]
    /\ todo = [t \in Threads |-> IF t \in Clients THEN <<Body>> ELSE <<>>]
    /\ arg = [t \in Threads |-> NoTask]
    /\ cur = [w \in Workers |-> 0]
    /\ left = [w \in Workers |-> IF w \in Bounded THEN Hint ELSE 0]
    /\ posted = 0 /\ stops = 0 /\ asked = {}
    /\ calls = [id \in DelayedIds |-> <<>>] /\ started = <<>>
    /\ alive = TRUE

-----------------------------------------------------------------------------
(***************************************************************************)
(* The steps everything is built from. Beside some of them stands a form   *)
(* of them with a mistake in it, which no action uses: the properties      *)
(* below must be able to tell the two apart.                               *)
(***************************************************************************)
LockFree == work_lock = NoThread

\* work_cond_.notify_one(): wakes one sleeper if there is one.
NotifyOneForgotten == waiting' = waiting
NotifyOne == \/ waiting = {} /\ waiting' = waiting
             \/ \E w \in waiting : waiting' = waiting \ {w}

NotifyAllWakesOne == NotifyOne
NotifyAll == waiting' = {}

\* task_queue_.emplace.
EnqueueInFront(task) == task_queue' = <<task>> \o task_queue
Enqueue(task) == task_queue' = Append(task_queue, task)

\* The task a heap gives first: one of those with the least expires_.
LatestFirst(id) == id \in delayed /\ \A other \in delayed : expires[id] >= expires[other]
OnTop(id) == id \in delayed /\ \A other \in delayed : expires[id] =< expires[other]

\* activate_delayed_task.
ToWaitMapOnly(id) == in_wait' = in_wait \cup {id} /\ UNCHANGED in_process
ToWaitMap(id) == in_wait' = in_wait \cup {id} /\ in_process' = in_process \ {id}

\* A task a worker held returns to the map and to the heap.
PutBackUnregistered(id) == ToWaitMap(id) /\ UNCHANGED delayed
PutBack(id) == ToWaitMap(id) /\ delayed' = delayed \cup {id}

Goto(t, label) == pc' = [pc EXCEPT ![t] = label]

\* User code runs in t: it may call a public operation, or return.
InUser(t) == pc[t] = "exec" /\ todo[t] # <<>> /\ Head(todo[t]) = Body
MayCall(t) == alive /\ t \in Callers /\ InUser(t)

\* post_delayed_task has returned the token of id to its caller.
Issued(id) == id < next_id /\ \A t \in Threads : arg[t] # Register(id)

\* t begins post_task(task).
BeginPost(t, task) == arg' = [arg EXCEPT ![t] = task] /\ Goto(t, "post")

-----------------------------------------------------------------------------
(***************************************************************************)
(* The public operations.                                                  *)
(***************************************************************************)
PostTask(t) ==
    /\ MayCall(t) /\ posted < MaxRegular
    /\ posted' = posted + 1
    /\ BeginPost(t, Regular(posted'))
    /\ UNCHANGED <<queueVars, activeVars, idVars, now, todo, cur, left,
                   stops, asked, calls, started, alive>>

PostStop(t, waitRegular) ==
    /\ MayCall(t) /\ stops < MaxStops
    /\ stops' = stops + 1
    /\ BeginPost(t, StopTask(waitRegular))
    /\ UNCHANGED <<queueVars, activeVars, idVars, now, todo, cur, left,
                   posted, asked, calls, started, alive>>

\* post_task's is_active(): a section of work_lock_ of its own.
CheckActive(t) ==
    /\ pc[t] = "post" /\ LockFree
    /\ IF enabled THEN Goto(t, "push") /\ UNCHANGED arg
                  ELSE Goto(t, "exec") /\ arg' = [arg EXCEPT ![t] = NoTask]
    /\ UNCHANGED <<queueVars, activeVars, idVars, now, todo, cur, left, historyVars>>

\* ... and its second section, which does not look at enabled_ again.
Push(t) ==
    /\ pc[t] = "push" /\ LockFree
    /\ Enqueue(arg[t])
    /\ NotifyOne
    /\ arg' = [arg EXCEPT ![t] = NoTask]
    /\ Goto(t, "exec")
    /\ UNCHANGED <<enabled, delayed, work_lock, activeVars, idVars, now,
                   todo, cur, left, historyVars>>

\* post_delayed_task: the check, and the id (an inactive queue changes nothing).
PostDelayed(t) ==
    /\ MayCall(t) /\ next_id =< MaxDelayed
    /\ LockFree /\ enabled
    /\ next_id' = next_id + 1
    /\ arg' = [arg EXCEPT ![t] = Register(next_id)]
    /\ Goto(t, "delay")
    /\ UNCHANGED <<queueVars, activeVars, expires, now, todo, cur, left, historyVars>>

\* ... then from_now(dur) and activate_delayed_task; the post of the closure
\* that registers the task follows.
Activate(t, dur) ==
    /\ pc[t] = "delay"
    /\ expires' = [expires EXCEPT ![arg[t].id] = now + dur]
    /\ ToWaitMap(arg[t].id)
    /\ Goto(t, "post")
    /\ UNCHANGED <<queueVars, next_id, now, todo, arg, cur, left, historyVars>>

\* cancel_delayed_task of a task nobody has taken: it leaves the map and its
\* call with "cancelled" is posted as a regular task.
CancelWaiting(t, id) ==
    /\ MayCall(t) /\ Issued(id)
    /\ id \in in_wait
    /\ in_wait' = in_wait \ {id}
    /\ asked' = asked \cup {id}
    /\ BeginPost(t, Delayed(id, TRUE))
    /\ UNCHANGED <<queueVars, in_process, idVars, now, todo, cur, left,
                   posted, stops, calls, started, alive>>

\* cancel_delayed_task of any other task. The notification is given under
\* active_lock_, not under work_lock_.
CancelInProcess(t, id) ==
    /\ MayCall(t) /\ Issued(id)
    /\ id \notin in_wait
    /\ in_process' = in_process \ {id}
    /\ IF id \in in_process THEN NotifyAll ELSE UNCHANGED waiting
    /\ asked' = asked \cup {id}
    /\ UNCHANGED <<enabled, task_queue, delayed, work_lock, in_wait, idVars,
                   now, threadVars, posted, stops, calls, started, alive>>

\* The locked part of stop(): what it took from the queue runs after
\* cancel_all_delayed_tasks, if it has to.
StopQueue(t, waitRegular, rest) ==
    /\ LockFree
    /\ enabled' = FALSE
    /\ task_queue' = <<>>
    /\ NotifyAll
    /\ todo' = [todo EXCEPT ![t] = IF waitRegular THEN task_queue \o rest ELSE rest]
    /\ Goto(t, "cancel_all")
    /\ UNCHANGED <<delayed, work_lock>>

Stop(t, waitRegular) ==
    /\ MayCall(t) /\ stops < MaxStops
    /\ stops' = stops + 1
    /\ StopQueue(t, waitRegular, todo[t])
    /\ UNCHANGED <<activeVars, idVars, now, arg, cur, left,
                   posted, asked, calls, started, alive>>

\* The calls cancel_all_delayed_tasks makes: the map's order is that of the ids.
InOrder(ids) == {s \in [1 .. Cardinality(ids) -> ids] :
                    \A i, j \in DOMAIN s : i < j => s[i] < s[j]}

CallEach(t, s, cancelled) ==
    todo' = [todo EXCEPT ![t] = [i \in DOMAIN s |-> Delayed(s[i], cancelled)] \o @]

SwapInWaitCopies(t) ==
    \E s \in InOrder(in_wait) : CallEach(t, s, TRUE) /\ in_wait' = in_wait
SwapInWait(t) ==
    \E s \in InOrder(in_wait) : CallEach(t, s, TRUE) /\ in_wait' = {}

CancelAll(t) ==
    /\ pc[t] = "cancel_all"
    /\ SwapInWait(t)
    /\ Goto(t, "exec")
    /\ UNCHANGED <<queueVars, in_process, idVars, now, arg, cur, left, historyVars>>

\* Reset() leaves the tasks in the queue: the public call never clears.
Reset(t) ==
    /\ MayCall(t) /\ LockFree
    /\ ~enabled
    /\ enabled' = TRUE
    /\ UNCHANGED <<task_queue, delayed, work_lock, waiting, activeVars, idVars,
                   now, threadVars, historyVars>>

\* ~base(): its owner lets nobody else use the queue any more.
Destroy(t) ==
    /\ MayCall(t) /\ t \in Clients
    /\ \A w \in Workers : pc[w] = "done"
    /\ \A c \in Clients : pc[c] = "exec" /\ todo[c] = <<Body>>
    /\ alive' = FALSE
    /\ SwapInWait(t)
    /\ UNCHANGED <<queueVars, in_process, idVars, now, pc, arg, cur, left,
                   posted, stops, asked, calls, started>>

-----------------------------------------------------------------------------
(***************************************************************************)
(* The execution of closures, by a worker or by a thread inside stop().    *)
(***************************************************************************)
HasNext(t, kind) ==
    pc[t] = "exec" /\ todo[t] # <<>> /\ Head(todo[t]).kind = kind

\* The handler of the closure at hand runs: its body may call the queue.
EnterBody(t) ==
    todo' = [todo EXCEPT ![t] =
                 (IF t \in Callers THEN <<Body>> ELSE <<>>) \o Tail(@)]

ExecRegular(t) ==
    /\ HasNext(t, "regular")
    /\ started' = Append(started, Head(todo[t]).id)
    /\ EnterBody(t)
    /\ UNCHANGED <<queueVars, activeVars, idVars, now, pc, arg, cur, left,
                   posted, stops, asked, calls, alive>>

ExecDelayed(t) ==
    /\ HasNext(t, "delayed")
    /\ calls' = [calls EXCEPT ![Head(todo[t]).id] = Append(@, Head(todo[t]).flag)]
    /\ EnterBody(t)
    /\ UNCHANGED <<queueVars, activeVars, idVars, now, pc, arg, cur, left,
                   posted, stops, asked, started, alive>>

\* The closure of post_delayed_task.
ExecRegister(t) ==
    /\ HasNext(t, "register") /\ LockFree
    /\ delayed' = delayed \cup {Head(todo[t]).id}
    /\ NotifyOne
    /\ todo' = [todo EXCEPT ![t] = Tail(@)]
    /\ UNCHANGED <<enabled, task_queue, work_lock, activeVars, idVars, now,
                   pc, arg, cur, left, historyVars>>

\* The closure of post_stop.
ExecStop(t) ==
    /\ HasNext(t, "stop")
    /\ StopQueue(t, Head(todo[t]).flag, Tail(todo[t]))
    /\ UNCHANGED <<activeVars, idVars, now, arg, cur, left, historyVars>>

\* A handler returns. The code of a client never does.
Return(t) ==
    /\ InUser(t)
    /\ Tail(todo[t]) # <<>> \/ t \in Workers
    /\ todo' = [todo EXCEPT ![t] = Tail(@)]
    /\ UNCHANGED <<queueVars, activeVars, idVars, now, pc, arg, cur, left, historyVars>>

-----------------------------------------------------------------------------
(***************************************************************************)
(* run() and wait_next().                                                  *)
(***************************************************************************)
Looping(w) == pc[w] = "exec" /\ todo[w] = <<>>

\* run(n) leaves its loop after n tasks.
RunReturns(w) ==
    /\ Looping(w) /\ w \in Bounded /\ left[w] = 0
    /\ Goto(w, "done")
    /\ UNCHANGED <<queueVars, activeVars, idVars, now, todo, arg, cur, left, historyVars>>

\* A thread calls run() again.
Run(w) ==
    /\ pc[w] = "done" /\ alive
    /\ Goto(w, "exec")
    /\ left' = [left EXCEPT ![w] = IF w \in Bounded THEN Hint ELSE 0]
    /\ UNCHANGED <<queueVars, activeVars, idVars, now, todo, arg, cur, historyVars>>

HasLeftOneMore(w) == w \in Bounded => left[w] >= 0
HasLeft(w) == w \in Bounded => left[w] > 0

WaitNext(w) ==
    /\ Looping(w) /\ LockFree
    /\ HasLeft(w)
    /\ work_lock' = w
    /\ Goto(w, "top")
    /\ UNCHANGED <<enabled, task_queue, delayed, waiting, activeVars, idVars,
                   now, todo, arg, cur, left, historyVars>>

\* wait_next returns a closure, which run() counts and calls.
Obtain(w, task) ==
    /\ work_lock' = NoThread
    /\ todo' = [todo EXCEPT ![w] = <<task>>]
    /\ left' = [left EXCEPT ![w] = IF w \in Bounded THEN @ - 1 ELSE @]
    /\ cur' = [cur EXCEPT ![w] = 0]
    /\ Goto(w, "exec")

\* The loop's condition fails: wait_next returns nothing and run() returns.
Disabled(w) ==
    /\ pc[w] = "top" /\ ~enabled
    /\ work_lock' = NoThread
    /\ Goto(w, "done")
    /\ UNCHANGED <<enabled, task_queue, delayed, waiting, activeVars, idVars,
                   now, todo, arg, cur, left, historyVars>>

\* No delayed task and no regular one: work_cond_.wait, whose predicate says
\* nothing of delayed_.
Idle(w) ==
    /\ pc[w] = "top" /\ enabled /\ delayed = {} /\ task_queue = <<>>
    /\ work_lock' = NoThread
    /\ waiting' = waiting \cup {w}
    /\ Goto(w, "idle")
    /\ UNCHANGED <<enabled, task_queue, delayed, activeVars, idVars, now,
                   todo, arg, cur, left, historyVars>>

\* pop_task: at the top with no delayed task, or after the wait, when the task
\* is taken even from a queue that has been stopped.
TakeRegular(w) ==
    /\ \/ pc[w] = "top" /\ enabled /\ delayed = {}
       \/ pc[w] = "idle" /\ w \notin waiting /\ LockFree
    /\ task_queue # <<>>
    /\ task_queue' = Tail(task_queue)
    /\ Obtain(w, Head(task_queue))
    /\ UNCHANGED <<enabled, delayed, waiting, activeVars, idVars, now, arg, historyVars>>

\* A woken idle worker that finds no task: it waits again, or leaves the wait
\* because of enabled_ and goes back to the loop's condition.
IdleWakes(w) ==
    /\ pc[w] = "idle" /\ w \notin waiting /\ LockFree /\ task_queue = <<>>
    /\ IF enabled THEN waiting' = waiting \cup {w} /\ UNCHANGED <<work_lock, pc>>
                  ELSE work_lock' = w /\ Goto(w, "top") /\ UNCHANGED waiting
    /\ UNCHANGED <<enabled, task_queue, delayed, activeVars, idVars, now,
                   todo, arg, cur, left, historyVars>>

\* The heap's top, of which the handler may be in the map no more.
PopDelayed(w, id) ==
    /\ pc[w] = "top" /\ enabled
    /\ OnTop(id)
    /\ delayed' = delayed \ {id}
    /\ IF id \in in_wait
       THEN /\ in_wait' = in_wait \ {id}
            /\ in_process' = in_process \cup {id}
            /\ cur' = [cur EXCEPT ![w] = id]
            /\ Goto(w, IF expires[id] > now THEN "timed" ELSE "fire")
       ELSE UNCHANGED <<activeVars, cur, pc>>
    /\ UNCHANGED <<enabled, task_queue, work_lock, waiting, idVars, now,
                   todo, arg, left, historyVars>>

\* The predicate of wait_until, which takes active_lock_ under work_lock_.
Predicate(w) == ~enabled \/ task_queue # <<>> \/ cur[w] \notin in_process

TestPredicate(w) ==
    /\ pc[w] = "timed"
    /\ Goto(w, IF Predicate(w) THEN "notified" ELSE "block")
    /\ UNCHANGED <<queueVars, activeVars, idVars, now, todo, arg, cur, left, historyVars>>

\* The predicate was false; the thread starts to wait, atomically with the
\* release of work_lock_ but not with the predicate's look at in_process_.
Block(w) ==
    /\ pc[w] = "block"
    /\ work_lock' = NoThread
    /\ waiting' = waiting \cup {w}
    /\ Goto(w, "sleep")
    /\ UNCHANGED <<enabled, task_queue, delayed, activeVars, idVars, now,
                   todo, arg, cur, left, historyVars>>

Notified(w) ==
    /\ pc[w] = "sleep" /\ w \notin waiting /\ LockFree
    /\ work_lock' = w
    /\ Goto(w, "timed")
    /\ UNCHANGED <<enabled, task_queue, delayed, waiting, activeVars, idVars,
                   now, todo, arg, cur, left, historyVars>>

\* wait_until reports the timeout: its result is that of the predicate.
TimesOut(w) ==
    /\ pc[w] = "sleep" /\ now >= expires[cur[w]] /\ LockFree
    /\ work_lock' = w
    /\ waiting' = waiting \ {w}
    /\ Goto(w, IF Predicate(w) THEN "notified" ELSE "timedout")
    /\ UNCHANGED <<enabled, task_queue, delayed, activeVars, idVars, now,
                   todo, arg, cur, left, historyVars>>

\* is_in_process after the wait: a cancelled task is returned as such.
CancelSeen(w) ==
    /\ pc[w] \in {"notified", "timedout"} /\ cur[w] \notin in_process
    /\ Obtain(w, Delayed(cur[w], TRUE))
    /\ UNCHANGED <<enabled, task_queue, delayed, waiting, activeVars, idVars,
                   now, arg, historyVars>>

RegularFirstNever(w) == FALSE
RegularFirst(w) == pc[w] = "notified" /\ task_queue # <<>>

NotCancelled(w) ==
    /\ pc[w] \in {"notified", "timedout"} /\ cur[w] \in in_process
    /\ Goto(w, IF RegularFirst(w) THEN "take" ELSE "fire")
    /\ UNCHANGED <<queueVars, activeVars, idVars, now, todo, arg, cur, left, historyVars>>

\* A regular task goes first: the delayed one returns to the map and the heap.
TakeInstead(w) ==
    /\ pc[w] = "take"
    /\ task_queue' = Tail(task_queue)
    /\ PutBack(cur[w])
    /\ Obtain(w, Head(task_queue))
    /\ UNCHANGED <<enabled, waiting, idVars, now, arg, historyVars>>

\* remove_from_process tells whether a cancel came in the meantime.
Cancelled(id) == id \notin in_process

Fire(w) ==
    /\ pc[w] = "fire"
    /\ in_process' = in_process \ {cur[w]}
    /\ Obtain(w, Delayed(cur[w], Cancelled(cur[w])))
    /\ UNCHANGED <<enabled, task_queue, delayed, waiting, in_wait, idVars, now,
                   arg, historyVars>>

\* A condition variable may wake a thread nobody has signalled.
SpuriousWake(w) ==
    /\ w \in waiting
    /\ waiting' = waiting \ {w}
    /\ UNCHANGED <<enabled, task_queue, delayed, work_lock, activeVars, idVars,
                   now, threadVars, historyVars>>

\* Time passes: up to MaxNow, and further while some delay is running.
Tick ==
    /\ now < MaxNow \/ \E id \in DelayedIds : now < expires[id]
    /\ now' = now + 1
    /\ UNCHANGED <<queueVars, activeVars, idVars, threadVars, historyVars>>

-----------------------------------------------------------------------------
\* What a user may do next...
Call(t) ==
    \/ PostTask(t) \/ PostDelayed(t) \/ Reset(t) \/ Destroy(t)
    \/ \E waitRegular \in StopModes : PostStop(t, waitRegular) \/ Stop(t, waitRegular)
    \/ \E id \in DelayedIds : CancelWaiting(t, id) \/ CancelInProcess(t, id)

\* ... and what a thread goes on with once it is inside the queue.
Continue(t) ==
    \/ CheckActive(t) \/ Push(t) \/ CancelAll(t)
    \/ \E dur \in Durations : Activate(t, dur)
    \/ ExecRegular(t) \/ ExecDelayed(t) \/ ExecRegister(t) \/ ExecStop(t)
    \/ Return(t)

Serve(w) ==
    \/ RunReturns(w) \/ WaitNext(w) \/ Disabled(w)
    \/ Idle(w) \/ IdleWakes(w) \/ TakeRegular(w)
    \/ \E id \in DelayedIds : PopDelayed(w, id)
    \/ TestPredicate(w) \/ Block(w) \/ Notified(w) \/ TimesOut(w)
    \/ CancelSeen(w) \/ NotCancelled(w) \/ TakeInstead(w) \/ Fire(w)

Next ==
    \/ Tick
    \/ \E t \in Threads : Call(t) \/ Continue(t)
    \/ \E w \in Workers : Serve(w) \/ Run(w) \/ SpuriousWake(w)

Spec == Init /\ [][Next]_vars

\* The mutexes and the scheduler let every thread that can go on infinitely
\* often go on; handlers return; the clock advances.
Fairness ==
    /\ WF_vars(Tick)
    /\ \A t \in Threads : SF_vars(Continue(t))
    /\ \A w \in Workers : SF_vars(Serve(w)) /\ SF_vars(TimesOut(w))

FairSpec == Spec /\ Fairness

-----------------------------------------------------------------------------
\* The type of every variable.
TypeOK ==
    /\ enabled \in BOOLEAN /\ alive \in BOOLEAN
    /\ task_queue \in Seq(Task)
    /\ delayed \subseteq DelayedIds
    /\ work_lock \in Workers \cup {NoThread} /\ waiting \subseteq Workers
    /\ in_wait \subseteq DelayedIds /\ in_process \subseteq DelayedIds
    /\ next_id \in 1 .. MaxDelayed + 1
    /\ expires \in [DelayedIds -> Nat]
    /\ now \in Nat
    /\ pc \in [Threads -> PCs]
    /\ todo \in [Threads -> Seq(Task)]
    /\ arg \in [Threads -> Task]
    /\ cur \in [Workers -> {0} \cup DelayedIds]
    /\ left \in [Workers -> Nat]
    /\ posted \in 0 .. MaxRegular /\ stops \in Nat
    /\ asked \subseteq DelayedIds
    /\ calls \in [DelayedIds -> Seq(BOOLEAN)]
    /\ started \in Seq(1 .. MaxRegular)

Holds(w) == pc[w] \in HasTask

\* What the comment at base.h:581-590 says of the map and the set: a delayed
\* task in the wait map is in the hands of no thread, and one in the process
\* set is in the hands of exactly one. It takes the two locks, and the two
\* moves between the containers, to keep it so.
Custody ==
    /\ in_wait \cap in_process = {}
    /\ \A w \in Workers : Holds(w) => cur[w] \notin in_wait
    /\ \A id \in in_process : \E w \in Workers : Holds(w) /\ cur[w] = id
    /\ \A v, w \in Workers : Holds(v) /\ Holds(w) /\ cur[v] = cur[w] => v = w

\* work_lock_ excludes: a worker is inside wait_next with the lock exactly when
\* the lock says so.
MutualExclusion == \A w \in Workers : pc[w] \in Inside <=> work_lock = w

\* An id is known to the containers and to the workers only once it was drawn,
\* and while post_delayed_task is about to enter it nobody else has it.
FreshIds ==
    /\ \A id \in in_wait \cup in_process : id < next_id
    /\ \A w \in Workers : Holds(w) => cur[w] \in 1 .. next_id - 1
    /\ \A t \in Threads : pc[t] = "delay" =>
          /\ arg[t].kind = "register" /\ arg[t].id < next_id
          /\ arg[t].id \notin in_wait \cup in_process
          /\ \A w \in Workers : Holds(w) => cur[w] # arg[t].id
          /\ \A u \in Threads : pc[u] = "delay" /\ arg[u].id = arg[t].id => u = t

\* run(n) is inside wait_next only while it has a task left to run.
InWaitNext == Inside \cup {"idle", "sleep"}
Counted == \A w \in Bounded : pc[w] \in InWaitNext => left[w] > 0

\* A worker that has seen a task and kept the lock will find it.
FirstWaits == \A w \in Workers : pc[w] = "take" => task_queue # <<>>

\* The invariant from which Custody and MutualExclusion follow by induction.
Inductive == TypeOK /\ MutualExclusion /\ Custody /\ FreshIds /\ Counted /\ FirstWaits

\* Where a closure that was posted and has not run is.
In(task, s) == \E i \in DOMAIN s : s[i] = task
InFlight(task) ==
    \/ In(task, task_queue)
    \/ \E t \in Threads : arg[t] = task \/ In(task, todo[t])
\* No lost wakeup: while a task is in the queue and workers sleep, one of the
\* threads inside run() is awake and will look at the queue.
NoLostWakeup ==
    task_queue # <<>> /\ waiting # {} =>
        \E w \in Workers : pc[w] # "done" /\ w \notin waiting

\* A handler is chosen to run before its time only in a queue that is disabled
\* at that moment (wait_next, base.h:556-566), never because of a notification
\* that was meant for something else.
EarlyOnlyWhenStopped ==
    [][\A w \in Workers :
          Holds(w) /\ todo'[w] = <<Delayed(cur[w], FALSE)>> /\ now < expires[cur[w]]
              => ~enabled]_vars

\* Regular tasks start in the order they were posted in, with one worker and
\* one client, however often the worker turns from a delayed task to them.
Fifo == \A i, j \in DOMAIN started : i < j => started[i] < started[j]

\* The delayed handlers run in the order of their times: while one worker alone
\* serves the queue, a handler it chooses to run is due before every task that
\* is still in the heap, although tasks were registered while it waited.
EarliestFirst ==
    [][\A w \in Workers :
          Holds(w) /\ todo'[w] = <<Delayed(cur[w], FALSE)>>
              => \A id \in delayed : expires[cur[w]] =< expires[id]]_vars

\* Every delayed handler is called and every regular task is run in the end if
\* nobody stops the queue, whichever worker is asleep for which when it comes.
EveryTaskServed ==
    [](stops = 0) =>
        /\ \A id \in DelayedIds : id < next_id ~> calls[id] # <<>>
        /\ \A n \in 1 .. MaxRegular : posted >= n ~> In(n, started)

\* Once the queue is stopped for good every thread inside run() returns
\* (base.h:762-766), wherever it was in wait_next and whatever is posted,
\* cancelled or expires, and does so again when it calls run() again.
StopEndsRuns == <>[](~enabled) => \A w \in Workers : []<>(pc[w] = "done")

\* A cancelled task is not active: the test "canceling task" wants
\* task_id.is_active() to be false once task_id.cancel() has returned.
CancelDeactivates ==
    \A id \in asked : id \notin in_wait /\ id \notin in_process

-----------------------------------------------------------------------------
\* The queue implements DelayedTimers: what became of the handler of an id is
\* seen from where its closures are and from the calls made.
Life(id) ==
    CASE calls[id] # <<>> -> IF calls[id][1] THEN "aborted" ELSE "ran"
      [] calls[id] = <<>> /\ (id >= next_id
            \/ \E t \in Threads : pc[t] = "delay" /\ arg[t] = Register(id)) -> "new"
      [] OTHER ->
            IF InFlight(Delayed(id, TRUE)) THEN "withdrawn"
            ELSE IF \/ id \in in_wait \/ InFlight(Delayed(id, FALSE))
                    \/ \E w \in Workers : Holds(w) /\ cur[w] = id
                 THEN "pending" ELSE "dropped"

Timers == INSTANCE DelayedTimers WITH
    Ids <- DelayedIds,
    life <- [id \in DelayedIds |-> IF Len(calls[id]) > 1 THEN "twice" ELSE Life(id)],
    due <- expires,
    clock <- now,
    halted <- stops > 0 \/ ~alive

\* The queue does with its delayed handlers only what DelayedTimers allows.
ImplementsTimers == Timers!Spec
=============================================================================
