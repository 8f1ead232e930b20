----------------------------- MODULE Subsystems -----------------------------
(***************************************************************************)
(* subsystems::root. A root owns subsystems, one of each type, and calls   *)
(* init(), start() or stop() of all of them in the order of their addition;*)
(* a root is a subsystem itself and may be one of another root. The mutex  *)
(* of a root is recursive and held for the whole of for_each(), so the     *)
(* subsystems that are called may call the roots again, and other threads  *)
(* wait. The time a subsystem's function takes is the time its thread stays*)
(* at it; what it does meanwhile are the actions of that thread.           *)
(* Beside some definitions stands a form of them with a mistake, which no  *)
(* action uses: a property has to tell the two apart.                      *)
(***************************************************************************)
EXTENDS Naturals, Sequences, FiniteSets

CONSTANTS
    Threads,
    Types,
    Outer, Inner,    \* the two roots; Inner may be added to Outer
    MaxAdded,        \* subsystems added
    MaxDepth,        \* calls of for_each() nested in a thread
    Functions,       \* "init", "start" and "stop", or some of them: the last two are alike
    Missing          \* a null pointer

Roots == {Outer, Inner}

VARIABLES
    ifaces_,         \* of every root, the subsystem of each type; Inner has a type too
    ifaces_order_,   \* of every root, the subsystems in the order of their addition
    frames,          \* of every thread, its for_each() under way, innermost first
    added,           \* subsystems made; they are numbered
    inited,          \* history: those whose init() was called
    since            \* history: of every root, those added since an init() of it ended

vars == <<ifaces_, ifaces_order_, frames, added, inited, since>>

Kinds == Types \cup {Inner}

Init ==
    /\ ifaces_ = [r \in Roots |-> [k \in Kinds |-> Missing]]
    /\ ifaces_order_ = [r \in Roots |-> <<>>]
    /\ frames = [t \in Threads |-> <<>>]
    /\ added = 0 /\ inited = {}
    /\ since = [r \in Roots |-> {}]

-----------------------------------------------------------------------------
\* A call under way: its root, the function, the position it is at, and whether the
\* function of a nested root is still to run there.
Frame(r, f) == [root |-> r, call |-> f, at |-> 0, enter |-> FALSE]
Top(t) == Head(frames[t])

\* ifaces_lock_ is free for t: nobody else is in for_each() of r.
Locks(t, r) == \A u \in Threads \ {t} : \A i \in DOMAIN frames[u] : frames[u][i].root # r

\* t runs code of its user, or of a subsystem.
InUser(t) == frames[t] # <<>> => Top(t).at > 0 /\ ~Top(t).enter

\* The loop of for_each() goes on to the next element, one added meanwhile too.
HasNext(f) == f.at < Len(ifaces_order_[f.root])

Owner(r, k) == ifaces_[r][k]
IsInner(s) == Owner(Outer, Inner) = s
Exists(r) == r = Inner => Owner(Outer, Inner) # Missing

OrderedInFront(r, s) == <<s>> \o ifaces_order_[r]
Ordered(r, s) == Append(ifaces_order_[r], s)

-----------------------------------------------------------------------------
\* add(): the pointer goes into the order first; the map refuses a type that it
\* has, and the new subsystem goes with the temporary that holds it.
Add(t, r, k) ==
    /\ InUser(t) /\ Exists(r) /\ Locks(t, r) /\ added < MaxAdded
    /\ k = Inner => r = Outer
    /\ added' = added + 1
    /\ ifaces_order_' = [ifaces_order_ EXCEPT ![r] = Ordered(r, added')]
    /\ ifaces_' = [ifaces_ EXCEPT ![r][k] = IF @ = Missing THEN added' ELSE @]
    /\ since' = [since EXCEPT ![r] = @ \cup {added'}]
    /\ UNCHANGED <<frames, inited>>

\* init(), start() and stop() of a root, called by a user or a subsystem.
ForEach(t, r, f) ==
    /\ InUser(t) /\ Exists(r) /\ Locks(t, r) /\ Len(frames[t]) < MaxDepth
    /\ frames' = [frames EXCEPT ![t] = <<Frame(r, f)>> \o @]
    /\ UNCHANGED <<ifaces_, ifaces_order_, added, inited, since>>

\* The order has a pointer to a subsystem that is gone: nothing can be said of the
\* call, and the behaviour ends.
Alive(s) == \E r \in Roots, k \in Kinds : Owner(r, k) = s

CallNext(t) ==
    /\ frames[t] # <<>> /\ ~Top(t).enter /\ HasNext(Top(t))
    /\ LET s == ifaces_order_[Top(t).root][Top(t).at + 1]
       IN  /\ Alive(s)
           /\ frames' = [frames EXCEPT ![t][1].at = @ + 1, ![t][1].enter = IsInner(s)]
           /\ inited' = IF Top(t).call = "init" THEN inited \cup {s} ELSE inited
    /\ UNCHANGED <<ifaces_, ifaces_order_, added, since>>

\* The subsystem is the inner root: it calls its own for_each().
EnterInner(t) ==
    /\ frames[t] # <<>> /\ Top(t).enter /\ Locks(t, Inner)
    /\ frames' = [frames EXCEPT ![t] = <<Frame(Inner, Top(t).call), [Top(t) EXCEPT !.enter = FALSE]>> \o Tail(@)]
    /\ UNCHANGED <<ifaces_, ifaces_order_, added, inited, since>>

Return(t) ==
    /\ frames[t] # <<>> /\ ~Top(t).enter /\ ~HasNext(Top(t))
    /\ frames' = [frames EXCEPT ![t] = Tail(@)]
    /\ since' = IF Top(t).call = "init" THEN [since EXCEPT ![Top(t).root] = {}] ELSE since
    /\ UNCHANGED <<ifaces_, ifaces_order_, added, inited>>

Next ==
    \E t \in Threads :
        \/ \E r \in Roots :
             (\E k \in Kinds : Add(t, r, k)) \/ (\E f \in Functions : ForEach(t, r, f))
        \/ CallNext(t) \/ EnterInner(t) \/ Return(t)

Spec == Init /\ [][Next]_vars

-----------------------------------------------------------------------------
(***************************************************************************)
(* Nobody is left out (root.h:91): a subsystem that a root has, and that   *)
(* was not initialised, was added after the last init() of the root ended, *)
(* or one is under way that will come to it - also if a subsystem added it *)
(* from its own init(), to the root that is running or to a nested one.    *)
(***************************************************************************)
Coming(r, i) ==
    \E t \in Threads : \E n \in DOMAIN frames[t] :
        frames[t][n].root = r /\ frames[t][n].call = "init" /\ frames[t][n].at < i
NoneLeftOut ==
    \A r \in Roots : \A i \in DOMAIN ifaces_order_[r] :
        ifaces_order_[r][i] \in inited \cup since[r] \/ Coming(r, i)

=============================================================================
