--------------------------- MODULE ConditionQueue ---------------------------
(***************************************************************************)
(* queues::condition::base: a queue of values that threads push to and     *)
(* wait on. Every operation is one section of queue_lock_, except wait(),  *)
(* which sleeps on queue_cond_ in the middle. A value is the number of its *)
(* push; the queue's trait decides which value is at its front.            *)
(***************************************************************************)
EXTENDS Naturals, Sequences, FiniteSets

CONSTANTS
    Threads,
    Consumers,   \* threads that call wait() in a loop, as run-loops do
    Traits,      \* the traits a queue may have: "simple", "priority"
    Rank,        \* the ranks of the values, by which traits::priority orders them
    MaxPushes

ASSUME ConstantsAssumption ==
    /\ IsFiniteSet(Threads)
    /\ Consumers \subseteq Threads
    /\ MaxPushes \in Nat
    /\ Traits \subseteq {"simple", "priority"}
    /\ Rank \in [1 .. MaxPushes -> Nat]

VARIABLES
    trait,       \* what the queue was declared with
    queue_, cancel_,
    waiting,     \* threads asleep on queue_cond_, not signalled yet
    inside,      \* threads inside wait(), asleep or about to look again
    sent, got    \* history: the pushes made, and the values handed out

vars == <<trait, queue_, cancel_, waiting, inside, sent, got>>

Values == 1 .. MaxPushes

Init ==
    /\ trait \in Traits
    /\ queue_ = <<>> /\ cancel_ = FALSE
    /\ waiting = {} /\ inside = {}
    /\ sent = 0 /\ got = <<>>

\* Threads that were signalled and have not looked at the queue since.
Awake == inside \ waiting

NotifyNobody == waiting' = waiting
NotifyOne == \/ waiting = {} /\ waiting' = {}
             \/ \E t \in waiting : waiting' = waiting \ {t}

NotifyAllWakesOne == NotifyOne
NotifyAll == waiting' = {}

-----------------------------------------------------------------------------
\* The front: the oldest value, or one of those with the greatest rank.
IsFront(i) ==
    /\ i \in DOMAIN queue_
    /\ IF trait = "simple" THEN i = 1
       ELSE \A j \in DOMAIN queue_ : Rank[queue_[j]] =< Rank[queue_[i]]

Without(s, i) == [j \in 1 .. Len(s) - 1 |-> IF j < i THEN s[j] ELSE s[j + 1]]

\* std::swap(out, front): what the caller's variable held before, whatever it
\* was, is at the front until it is popped.
Old == 0
Swapped(s, i) == [s EXCEPT ![i] = Old]

\* q_traits::pop. The front of a std::queue goes; pop_heap, which is promised a
\* heap and after the swap is given none, moves the first element to the back
\* without a look at its rank, as the libraries write it, and pop_back follows.
\* Beside it the form that trusts the heap to have its greatest value in front.
PoppedGreatest(s, i) ==
    LET rank(j) == IF s[j] = Old THEN 0 ELSE Rank[s[j]]
    IN  Without(s, CHOOSE j \in DOMAIN s : \A k \in DOMAIN s : rank(k) =< rank(j))
Popped(s, i) == Without(s, i)

Take(i) == got' = Append(got, queue_[i]) /\ queue_' = Popped(Swapped(queue_, i), i)

TakeFront == \E i \in DOMAIN queue_ : IsFront(i) /\ Take(i)

\* The predicate of wait().
NotEmpty == queue_ # <<>> \/ cancel_

-----------------------------------------------------------------------------
Push ==
    /\ sent < MaxPushes
    /\ sent' = sent + 1
    /\ queue_' = Append(queue_, sent')
    /\ NotifyOne
    /\ UNCHANGED <<trait, cancel_, inside, got>>

Cancel ==
    /\ cancel_' = TRUE
    /\ NotifyAll
    /\ UNCHANGED <<trait, queue_, inside, sent, got>>

Reset ==
    /\ cancel_' = FALSE
    /\ UNCHANGED <<trait, queue_, waiting, inside, sent, got>>

\* Only traits::priority has a clear() that compiles.
Clear ==
    /\ trait = "priority"
    /\ queue_' = <<>>
    /\ UNCHANGED <<trait, cancel_, waiting, inside, sent, got>>

\* pop(): it "ignores cancel".
Pop ==
    /\ queue_ # <<>>
    /\ TakeFront
    /\ UNCHANGED <<trait, cancel_, waiting, inside, sent>>

\* wait0() takes a value as wait() does; its other results change nothing.
Wait0 ==
    /\ queue_ # <<>> /\ ~cancel_
    /\ TakeFront
    /\ UNCHANGED <<trait, cancel_, waiting, inside, sent>>

\* wait() finds something at once.
WaitReturns(t) ==
    /\ t \notin inside
    /\ queue_ # <<>> /\ ~cancel_
    /\ TakeFront
    /\ UNCHANGED <<trait, cancel_, waiting, inside, sent>>

\* wait() finds nothing and sleeps.
WaitSleeps(t) ==
    /\ t \notin inside
    /\ ~NotEmpty
    /\ waiting' = waiting \cup {t}
    /\ inside' = inside \cup {t}
    /\ UNCHANGED <<trait, queue_, cancel_, sent, got>>

\* A thread that was woken looks again: it sleeps on, ...
SleepsOn(t) ==
    /\ t \in Awake
    /\ ~NotEmpty
    /\ waiting' = waiting \cup {t}
    /\ UNCHANGED <<trait, queue_, cancel_, inside, sent, got>>

\* ... returns QUEUE_WAIT_CANCELED, even if there are values, ...
WakesCancelled(t) ==
    /\ t \in Awake
    /\ cancel_
    /\ inside' = inside \ {t}
    /\ UNCHANGED <<trait, queue_, cancel_, waiting, sent, got>>

\* ... or takes a value.
WakesWithValue(t) ==
    /\ t \in Awake
    /\ queue_ # <<>> /\ ~cancel_
    /\ TakeFront
    /\ inside' = inside \ {t}
    /\ UNCHANGED <<trait, cancel_, waiting, sent>>

SpuriousWake(t) ==
    /\ t \in waiting
    /\ waiting' = waiting \ {t}
    /\ UNCHANGED <<trait, queue_, cancel_, inside, sent, got>>

LooksAgain(t) == SleepsOn(t) \/ WakesCancelled(t) \/ WakesWithValue(t)
Waits(t) == WaitReturns(t) \/ WaitSleeps(t)

Next ==
    \/ Push \/ Cancel \/ Reset \/ Clear \/ Pop \/ Wait0
    \/ \E t \in Threads : Waits(t) \/ LooksAgain(t) \/ SpuriousWake(t)

Spec == Init /\ [][Next]_vars

\* A woken thread gets the lock in the end, even if other threads take it again
\* and again; a consumer calls wait() again.
FairSpec ==
    /\ Spec
    /\ \A t \in Threads : SF_vars(LooksAgain(t))
    /\ \A t \in Consumers : SF_vars(Waits(t))

-----------------------------------------------------------------------------
\* The type of every variable.
TypeOK ==
    /\ trait \in Traits
    /\ queue_ \in Seq(Values)
    /\ cancel_ \in BOOLEAN
    /\ waiting \subseteq inside /\ inside \subseteq Threads
    /\ sent \in 0 .. MaxPushes
    /\ got \in Seq(Values)

\* No lost wakeup, whatever steals values meanwhile: while somebody sleeps
\* there is a thread on its way to each of the values in the queue.
NoLostWakeup == waiting # {} => Len(queue_) =< Cardinality(Awake)

\* What NoLostWakeup rests on: nobody sleeps in a queue that is cancelled.
CancelledNobodySleeps == cancel_ => waiting = {}
Inductive == TypeOK /\ NoLostWakeup /\ CancelledNobodySleeps

\* Whichever of the four ways values are taken by, with either trait, nothing is
\* in the queue or handed out that was not pushed, and nothing twice: what was
\* swapped into the queue does not stay there in place of a value.
NoneTwice ==
    /\ \A i \in DOMAIN got : got[i] \in 1 .. sent
    /\ \A i \in DOMAIN queue_ : queue_[i] \in 1 .. sent
    /\ \A i, j \in DOMAIN got : i # j => got[i] # got[j]
    /\ \A i, j \in DOMAIN queue_ : i # j => queue_[i] # queue_[j]
    /\ \A i \in DOMAIN got : \A j \in DOMAIN queue_ : got[i] # queue_[j]

\* Values leave traits::simple in the order of their pushes and none is lost:
\* those handed out and those in the queue make up all that was pushed.
Fifo == trait = "simple" =>
    /\ Len(got) + Len(queue_) = sent
    /\ \A i \in DOMAIN got : got[i] = i
    /\ \A j \in DOMAIN queue_ : queue_[j] = Len(got) + j

\* Every value comes out at most once, and a FIFO's in order, although pop() runs
\* on a queue that the swap has left with the caller's old value in front.
EachOnceInOrder == NoneTwice /\ Fifo

\* cancel() gets every thread out of wait(), unless reset() comes too soon.
CancelWakesAll == <>[]cancel_ => \A t \in Threads : []<>(t \notin inside)

\* With a consumer in its loop no value stays in the queue forever, unless the
\* queue is cancelled again and again or for good: also under traits::priority,
\* where others may overtake it, since the pushes end.
EveryValueTaken ==
    <>[](~cancel_) => \A n \in Values : []<>(\A i \in DOMAIN queue_ : queue_[i] # n)
=============================================================================
