------------------------------- MODULE Logger -------------------------------
(***************************************************************************)
(* logger::simple: threads log messages and dispatch calls; attached       *)
(* threads take them from a condition queue, write or call them, and give  *)
(* the element that carried them to a cache for the next message. Composed *)
(* of ConditionQueue, whose operations are used as they are, of the cache  *)
(* (cache::simple), and of the accumulators of logger::interface. Every    *)
(* section of a mutex is one step.                                         *)
(***************************************************************************)
EXTENDS Naturals, Sequences, FiniteSets

CONSTANTS
    Threads,
    Attached,    \* threads that call attach(); the others only log
    Polling,     \* threads that call run_one()
    MayStop,     \* whether stop() is used
    Levels,      \* of messages and of the logger
    MaxJobs,     \* messages and calls made
    MaxParts,    \* times << is used on a message
    MaxChanges,  \* calls of set_level
    MaxCache,    \* the cache's maximum, 10 in the code
    Nothing

ASSUME ConstantsAssumption ==
    /\ IsFiniteSet(Threads) /\ Attached \subseteq Threads /\ Polling \subseteq Threads
    /\ MayStop \in BOOLEAN /\ Levels \subseteq Nat
    /\ MaxJobs \in Nat /\ MaxParts \in Nat /\ MaxChanges \in Nat /\ MaxCache \in Nat

VARIABLES
    queue_, cancel_, waiting, inside, sent, got,   \* the condition queue
    cache_,
    store,       \* what is in every element: a call, and the data of a message
    level_,
    pc,          \* of every thread: in user code, in attach(), about to run what
                 \* it took, or in the user code that this runs
    acc,         \* the message a thread accumulates
    filling,     \* the element and the job a thread is about to push
    taken,       \* the number of the push whose element a thread has taken
    carrier,     \* of every push, the element pushed
    jobs, made, changes, freed, out, \* history: of every push, the job it was
                 \* for; jobs and elements made; levels set; elements
                 \* destroyed; of every push, what came out of it
    dropped      \* history: the messages that were not sent

queueVars == <<queue_, cancel_, waiting, inside, sent, got>>
loggerVars == <<cache_, store, level_, pc, acc, filling, taken>>
historyVars == <<carrier, jobs, made, changes, freed, out, dropped>>
vars == <<queueVars, loggerVars, historyVars>>

Q == INSTANCE ConditionQueue WITH
        Consumers <- Attached, MaxPushes <- MaxJobs,
        Traits <- {"simple"}, trait <- "simple", Rank <- [i \in 1 .. MaxJobs |-> 0]

Elements == 1 .. MaxJobs

\* A job is a call or a message: how often << was used, what of it was added,
\* and (history) the levels the logger had meanwhile.
Message(n, lev) ==
    [kind |-> "message", id |-> n, level |-> lev, used |-> 0, parts |-> 0, seen |-> {level_}]
CallJob(n) == [kind |-> "call", id |-> n, level |-> 0, used |-> 0, parts |-> 0, seen |-> {}]
Job == [kind : {"message", "call"}, id : 1 .. MaxJobs, level : Levels \cup {0},
        used : 0 .. MaxParts, parts : 0 .. MaxParts, seen : SUBSET Levels]
Content == [call : Job \cup {Nothing}, data : Job \cup {Nothing}]
Filling == [element : Elements, job : Job]
ASSUME NothingAssumption == Nothing \notin Job \cup Filling
PCs == {"user", "attach", "run", "inside"}

Init ==
    /\ Q!Init
    /\ cache_ = <<>> /\ store = [e \in Elements |-> [call |-> Nothing, data |-> Nothing]]
    /\ level_ \in Levels
    /\ pc = [t \in Threads |-> "user"]
    /\ acc = [t \in Threads |-> Nothing]
    /\ filling = [t \in Threads |-> Nothing]
    /\ taken = [t \in Threads |-> 0]
    /\ carrier = <<>> /\ jobs = <<>> /\ made = [jobs |-> 0, elements |-> 0]
    /\ changes = 0 /\ freed = {} /\ out = <<>> /\ dropped = {}

\* A thread runs user code, and is in no operation of the logger but attach()
\* or run_one().
Free(t) == pc[t] \in {"user", "inside"} /\ filling[t] = Nothing

-----------------------------------------------------------------------------
\* cache::simple. Beside some definitions stands a form of them with a mistake,
\* which no action uses: the properties have to tell the two apart.
Created == made.elements + 1
CacheGetCopies(e) ==
    IF cache_ = <<>> THEN e = Created /\ UNCHANGED cache_
    ELSE e = Head(cache_) /\ UNCHANGED cache_
CacheGet(e) ==
    IF cache_ = <<>> THEN e = Created /\ UNCHANGED cache_
    ELSE e = Head(cache_) /\ cache_' = Tail(cache_)

\* An element the cache has no room for is destroyed.
HasRoom == MaxCache > 0 /\ Len(cache_) < MaxCache
CachePush(e) ==
    IF HasRoom THEN cache_' = Append(cache_, e) /\ UNCHANGED freed
    ELSE freed' = freed \cup {e} /\ UNCHANGED cache_

-----------------------------------------------------------------------------
\* logger(level): a string_accumulator.
Start(t, lev) ==
    /\ Free(t) /\ acc[t] = Nothing
    /\ made.jobs < MaxJobs
    /\ made' = [made EXCEPT !.jobs = @ + 1]
    /\ acc' = [acc EXCEPT ![t] = Message(made'.jobs, lev)]
    /\ UNCHANGED <<queueVars, cache_, store, level_, pc, filling, taken,
                   carrier, jobs, changes, freed, out, dropped>>

\* operator<<: the level is looked at, and the data added or not.
EnabledBelow(t) == acc[t].level < level_
Enabled(t) == acc[t].level =< level_
Add(t) ==
    /\ Free(t) /\ acc[t] # Nothing
    /\ acc[t].used < MaxParts
    /\ acc' = [acc EXCEPT ![t].used = @ + 1,
                          ![t].parts = IF Enabled(t) THEN @ + 1 ELSE @]
    /\ UNCHANGED <<queueVars, cache_, store, level_, pc, filling, taken, historyVars>>

\* The accumulator's destructor looks at the level again. send_data() gets an
\* element from the cache.
Obtain(t, job) ==
    /\ \E e \in Elements :
         /\ CacheGet(e)
         /\ filling' = [filling EXCEPT ![t] = [element |-> e, job |-> job]]
         /\ made' = [made EXCEPT !.elements = IF e > @ THEN e ELSE @,
                                 !.jobs = IF job.id > @ THEN job.id ELSE @]
    /\ UNCHANGED <<queueVars, store, level_, pc, taken, carrier, jobs, changes, freed, out, dropped>>

Finish(t) ==
    /\ Free(t) /\ acc[t] # Nothing
    /\ acc[t].used = MaxParts
    /\ acc' = [acc EXCEPT ![t] = Nothing]
    /\ IF Enabled(t) THEN Obtain(t, acc[t])
       ELSE /\ dropped' = dropped \cup {acc[t]}
            /\ UNCHANGED <<queueVars, cache_, store, level_, pc, filling, taken,
                           carrier, jobs, made, changes, freed, out>>

\* dispatch()
Dispatch(t) ==
    /\ Free(t) /\ acc[t] = Nothing
    /\ made.jobs < MaxJobs
    /\ Obtain(t, CallJob(made.jobs + 1))
    /\ UNCHANGED acc

\* The element's members are set and it is pushed. A message clears the call an
\* earlier use has left; a call leaves the data of an earlier use.
FilledKeepsCall(content, job) ==
    IF job.kind = "message" THEN [content EXCEPT !.data = job] ELSE [content EXCEPT !.call = job]
Filled(content, job) ==
    IF job.kind = "message" THEN [call |-> Nothing, data |-> job] ELSE [content EXCEPT !.call = job]

PushElement(t) ==
    /\ filling[t] # Nothing
    /\ Q!Push
    /\ store' = [store EXCEPT ![filling[t].element] = Filled(@, filling[t].job)]
    /\ carrier' = Append(carrier, filling[t].element)
    /\ jobs' = Append(jobs, filling[t].job)
    /\ out' = Append(out, Nothing)
    /\ filling' = [filling EXCEPT ![t] = Nothing]
    /\ UNCHANGED <<cache_, level_, pc, acc, taken, made, changes, freed, dropped>>

SetLevel(t, lev) ==
    /\ Free(t) /\ changes < MaxChanges /\ lev # level_
    /\ level_' = lev
    /\ acc' = [u \in Threads |-> IF acc[u] = Nothing THEN Nothing
                                 ELSE [acc[u] EXCEPT !.seen = @ \cup {lev}]]
    /\ changes' = changes + 1
    /\ UNCHANGED <<queueVars, cache_, store, pc, filling, taken,
                   carrier, jobs, made, freed, out, dropped>>

Stop(t) ==
    /\ MayStop /\ Free(t)
    /\ ~cancel_ /\ Q!Cancel
    /\ UNCHANGED <<loggerVars, historyVars>>

-----------------------------------------------------------------------------
\* attach(): the loop of wait() and run.
Attach(t) ==
    /\ t \in Attached
    /\ pc[t] = "user" /\ Free(t) /\ acc[t] = Nothing
    /\ pc' = [pc EXCEPT ![t] = "attach"]
    /\ UNCHANGED <<queueVars, cache_, store, level_, acc, filling, taken, historyVars>>

\* The element that a wait() or a pop() hands out.
TakesLast(t) ==
    /\ taken' = [taken EXCEPT ![t] = got'[Len(got')]]
    /\ pc' = [pc EXCEPT ![t] = "run"]

WaitReturnsElement(t) ==
    /\ pc[t] = "attach"
    /\ Q!WaitReturns(t) \/ Q!WakesWithValue(t)
    /\ TakesLast(t)
    /\ UNCHANGED <<cache_, store, level_, acc, filling, historyVars>>

WaitSleeps(t) ==
    /\ pc[t] = "attach"
    /\ Q!WaitSleeps(t) \/ Q!SleepsOn(t)
    /\ UNCHANGED <<loggerVars, historyVars>>

SpuriousWake(t) ==
    /\ Q!SpuriousWake(t)
    /\ UNCHANGED <<loggerVars, historyVars>>

\* wait() returns "canceled", and so does attach().
WaitCancelled(t) ==
    /\ pc[t] = "attach"
    /\ \/ t \notin inside /\ cancel_ /\ UNCHANGED queueVars
       \/ Q!WakesCancelled(t)
    /\ pc' = [pc EXCEPT ![t] = "user"]
    /\ UNCHANGED <<cache_, store, level_, acc, filling, taken, historyVars>>

\* run_one(), which nothing but an empty queue keeps from taking an element.
RunOne(t) ==
    /\ t \in Polling \ Attached
    /\ pc[t] = "user" /\ Free(t) /\ acc[t] = Nothing
    /\ Q!Pop
    /\ TakesLast(t)
    /\ UNCHANGED <<cache_, store, level_, acc, filling, historyVars>>

\* The call is called, or the message written to the observers of on_write.
Output(content) == IF content.call # Nothing THEN content.call ELSE content.data
Run(t) ==
    /\ pc[t] = "run"
    /\ pc' = [pc EXCEPT ![t] = "inside"]
    /\ out' = [out EXCEPT ![taken[t]] = Output(store[carrier[taken[t]]])]
    /\ UNCHANGED <<queueVars, cache_, store, level_, acc, filling, taken,
                   carrier, jobs, made, changes, freed, dropped>>

\* The user's code returns and the element goes to the cache.
Recycle(t) ==
    /\ pc[t] = "inside" /\ Free(t) /\ acc[t] = Nothing
    /\ CachePush(carrier[taken[t]])
    /\ taken' = [taken EXCEPT ![t] = 0]
    /\ pc' = [pc EXCEPT ![t] = IF t \in Attached THEN "attach" ELSE "user"]
    /\ UNCHANGED <<queueVars, store, level_, acc, filling, carrier, jobs, made, changes, out, dropped>>

Logs(t) ==
    \/ Add(t) \/ Finish(t) \/ PushElement(t)
Works(t) ==
    WaitReturnsElement(t) \/ WaitSleeps(t) \/ WaitCancelled(t) \/ Run(t) \/ Recycle(t)

Next == \E t \in Threads :
    \/ \E lev \in Levels : Start(t, lev) \/ SetLevel(t, lev)
    \/ Dispatch(t) \/ Stop(t) \/ Attach(t) \/ RunOne(t) \/ SpuriousWake(t)
    \/ Logs(t) \/ Works(t)

Spec == Init /\ [][Next]_vars

\* Threads go on with what they have begun, user code included; an attached
\* thread that was woken gets the lock in the end, and a thread that is to be
\* attached calls attach() (again).
FairSpec ==
    /\ Spec
    /\ \A t \in Threads : WF_vars(Logs(t)) /\ SF_vars(Works(t))
    /\ \A t \in Attached : WF_vars(Attach(t))

-----------------------------------------------------------------------------
\* The type of every variable of the logger; a thread has an element if and
\* only if it runs it; the cache keeps to its maximum.
TypeOK ==
    /\ cache_ \in Seq(Elements)
    /\ store \in [Elements -> Content]
    /\ level_ \in Levels
    /\ pc \in [Threads -> PCs]
    /\ acc \in [Threads -> Job \cup {Nothing}]
    /\ filling \in [Threads -> Filling \cup {Nothing}]
    /\ taken \in [Threads -> 0 .. sent]
    /\ \A t \in Threads : taken[t] # 0 <=> pc[t] \in {"run", "inside"}
    /\ carrier \in Seq(Elements) /\ Len(carrier) = sent
    /\ jobs \in Seq(Job) /\ Len(jobs) = sent
    /\ out \in Seq(Job \cup {Nothing}) /\ Len(out) = sent
    /\ made \in [jobs : 0 .. MaxJobs, elements : 0 .. MaxJobs]
    /\ changes \in 0 .. MaxChanges
    /\ freed \subseteq Elements
    /\ dropped \subseteq Job
    /\ Len(cache_) =< MaxCache

\* Where an element is: every one that was made is in one place and once there,
\* although it goes through two containers and the hands of two threads.
Places(e) ==
    {<<"queue", i>> : i \in {j \in DOMAIN queue_ : carrier[queue_[j]] = e}}
    \cup {<<"cache", i>> : i \in {j \in DOMAIN cache_ : cache_[j] = e}}
    \cup {<<"filling", t>> : t \in {u \in Threads : filling[u] # Nothing /\ filling[u].element = e}}
    \cup {<<"taken", t>> : t \in {u \in Threads : taken[u] # 0 /\ carrier[taken[u]] = e}}
    \cup (IF e \in freed THEN {<<"freed", 0>>} ELSE {})
OnePlace == TypeOK /\ \A e \in 1 .. made.elements : Cardinality(Places(e)) = 1

\* What comes out of a push is what was pushed, although the elements carry the
\* calls and data of their earlier uses.
Faithful == \A i \in DOMAIN out : out[i] \in {Nothing, jobs[i]}

\* Whether a message has what the levels it has seen make of it.
Sendable(m) == m.kind = "message" =>
    /\ \E lev \in m.seen : m.level =< lev
    /\ (\A lev \in m.seen : m.level =< lev) => m.parts = MaxParts

\* Threads set the level while others write << after <<, and the accumulator
\* looks at it every time: a message that every one of the levels allows is sent
\* with all its parts, one that none allows is not.
Complete ==
    /\ \A i \in DOMAIN jobs : Sendable(jobs[i])
    /\ \A m \in dropped : \E lev \in m.seen : m.level > lev

-----------------------------------------------------------------------------
\* What these rest on, part by part. The queue hands the pushes out in their
\* order, so the pushes it holds are those after the ones handed out.
Pending == Len(got) + 1 .. sent
InOrder ==
    /\ sent \in 0 .. MaxJobs
    /\ got \in Seq(Elements) /\ Len(got) =< sent
    /\ queue_ = [j \in 1 .. sent - Len(got) |-> Len(got) + j]
    /\ \A t \in Threads : taken[t] =< Len(got)

\* The elements in each of the five places.
InQueue == {carrier[i] : i \in Pending}
InCache == {cache_[i] : i \in DOMAIN cache_}
BeingFilled == {filling[t].element : t \in {u \in Threads : filling[u] # Nothing}}
BeingRun == {carrier[taken[t]] : t \in {u \in Threads : taken[u] # 0}}

\* No element is twice in a place, ...
OncePerPlace ==
    /\ \A i, j \in Pending : carrier[i] = carrier[j] => i = j
    /\ \A i, j \in DOMAIN cache_ : cache_[i] = cache_[j] => i = j
    /\ \A t, u \in Threads : filling[t] # Nothing /\ filling[u] # Nothing
                              /\ filling[t].element = filling[u].element => t = u
    /\ \A t, u \in Threads : taken[t] # 0 /\ taken[u] # 0
                              /\ carrier[taken[t]] = carrier[taken[u]] => t = u

\* ... nor in two places, and every one that was made is in one.
Apart ==
    /\ InQueue \cap (InCache \cup BeingFilled \cup BeingRun \cup freed) = {}
    /\ InCache \cap (BeingFilled \cup BeingRun \cup freed) = {}
    /\ BeingFilled \cap (BeingRun \cup freed) = {}
    /\ BeingRun \cap freed = {}
    /\ InQueue \cup InCache \cup BeingFilled \cup BeingRun \cup freed = 1 .. made.elements

\* An element in the queue, or about to be run, has in it what it was pushed for.
Carried ==
    \A i \in 1 .. sent : i \in Pending \/ (\E t \in Threads : pc[t] = "run" /\ taken[t] = i)
        => Output(store[carrier[i]]) = jobs[i]

\* An accumulator has seen the present level, and lacks no part that every level
\* it has seen allowed; what is on its way to the queue is as it has to be.
Accumulated ==
    /\ \A t \in Threads : acc[t] # Nothing =>
         /\ acc[t].kind = "message" /\ level_ \in acc[t].seen /\ acc[t].parts =< acc[t].used
         /\ (\A lev \in acc[t].seen : acc[t].level =< lev) => acc[t].parts = acc[t].used
    /\ \A t \in Threads : filling[t] # Nothing => Sendable(filling[t].job)

Inductive ==
    TypeOK /\ InOrder /\ OncePerPlace /\ Apart /\ Carried /\ Accumulated /\ Faithful /\ Complete

-----------------------------------------------------------------------------
\* Everything that is pushed comes out if nobody stops the logger.
EveryJobOut == []~cancel_ => \A i \in Elements : Len(jobs) >= i ~> (i \in DOMAIN out /\ out[i] # Nothing)

\* stop() makes every attach() return, and again if it is called again.
StopDetaches == <>[]cancel_ => \A t \in Attached : []<>(pc[t] = "user")
=============================================================================
