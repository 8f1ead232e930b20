---------------------------- MODULE DelayedTimers ----------------------------
(***************************************************************************)
(* What queues::delayed::base promises about the handlers given to         *)
(* post_delayed_task, with no word of threads, locks and containers: a     *)
(* handler is called at most once; it is called with "cancelled" only if   *)
(* somebody cancelled it or the queue was stopped; it is called without    *)
(* before its time only if the queue was stopped; and a call that is due   *)
(* to a cancel is lost only if the queue was stopped.                      *)
(***************************************************************************)
EXTENDS Naturals

CONSTANTS Ids, Durations

VARIABLES
    life,     \* what became of every handler
    due,      \* the time before which it must not run
    clock,
    asked,    \* the handlers whose cancellation was asked for
    halted    \* a stop was asked for, or the queue is being destroyed

tvars == <<life, due, clock, asked, halted>>

Lives == {"new", "pending", "withdrawn", "ran", "aborted", "dropped"}

Init ==
    /\ life = [id \in Ids |-> "new"]
    /\ due = [id \in Ids |-> 0]
    /\ clock = 0
    /\ asked = {}
    /\ halted = FALSE

InState(state) == {id \in Ids : life[id] = state}

Become(id, state) == life' = [life EXCEPT ![id] = state]

Post(id, dur) ==
    /\ life[id] = "new"
    /\ Become(id, "pending")
    /\ due' = [due EXCEPT ![id] = clock + dur]
    /\ UNCHANGED <<clock, asked, halted>>

\* A cancel either finds the handler waiting and withdraws it, or leaves a mark.
Cancel(id) ==
    /\ life[id] # "new"
    /\ asked' = asked \cup {id}
    /\ \/ UNCHANGED life
       \/ life[id] = "pending" /\ Become(id, "withdrawn")
    /\ UNCHANGED <<due, clock, halted>>

\* The mark of an earlier cancel is found.
Withdraw(id) ==
    /\ life[id] = "pending" /\ id \in asked
    /\ Become(id, "withdrawn")
    /\ UNCHANGED <<due, clock, asked, halted>>

\* A stop withdraws some handlers and loses some withdrawn ones.
Halt(withdrawn, lost) ==
    /\ halted' = TRUE
    /\ life' = [id \in Ids |-> IF id \in withdrawn THEN "withdrawn"
                               ELSE IF id \in lost THEN "dropped" ELSE life[id]]
    /\ UNCHANGED <<due, clock, asked>>

RunHandler(id) ==
    /\ life[id] = "pending"
    /\ due[id] =< clock \/ halted
    /\ Become(id, "ran")
    /\ UNCHANGED <<due, clock, asked, halted>>

Abort(id) ==
    /\ life[id] = "withdrawn"
    /\ Become(id, "aborted")
    /\ UNCHANGED <<due, clock, asked, halted>>

Tick == clock' = clock + 1 /\ UNCHANGED <<life, due, asked, halted>>

Next ==
    \/ \E id \in Ids :
         \/ \E dur \in Durations : Post(id, dur)
         \/ Cancel(id) \/ Withdraw(id) \/ RunHandler(id) \/ Abort(id)
    \/ \E withdrawn \in SUBSET InState("pending"), lost \in SUBSET InState("withdrawn") :
         Halt(withdrawn, lost)
    \/ Tick

Spec == Init /\ [][Next]_tvars
=============================================================================
