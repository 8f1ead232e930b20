---------------------------- MODULE Subscriptions ----------------------------
(***************************************************************************)
(* observers::fsimple (base over details::fimpl), and the handles that     *)
(* subscribe() and subscribe_scoped() return. A slot is the id it was      *)
(* given; the unsubscriber of a slot, which handles share, is that id too. *)
(* fimpl runs a call over a copy of its list and holds no lock meanwhile:  *)
(* a call changes nothing that is modelled here, and whatever its slots do *)
(* with the handles and the observer are steps like any others.            *)
(* Beside some definitions stands a form of them with a mistake, which no  *)
(* action uses: a property has to tell the two apart.                      *)
(***************************************************************************)
EXTENDS Naturals, Sequences

CONSTANTS
    Plain,       \* objects of type subscription
    Scoped,      \* objects of type scoped_subscription
    MaxIds,      \* subscriptions made
    Nothing      \* a handle without an unsubscriber

VARIABLES
    list_, id_,
    alive,       \* the observer exists: weak_ptr::lock of the unsubscribers succeeds
    plain, scoped,
    guarded,     \* history: slots that a scoped handle has taken and not released
    told         \* history: slots whose unsubscriber was run, and those there were
                 \* when all were unsubscribed

vars == <<list_, id_, alive, plain, scoped, guarded, told>>

Slots == 1 .. MaxIds
Listed == {list_[i] : i \in DOMAIN list_}
HeldByScoped == {scoped[s] : s \in Scoped} \ {Nothing}

Init ==
    /\ list_ = <<>> /\ id_ = 0 /\ alive = TRUE
    /\ plain = [p \in Plain |-> Nothing] /\ scoped = [s \in Scoped |-> Nothing]
    /\ guarded = {} /\ told = {}

-----------------------------------------------------------------------------
\* list_type::erase of an element.
Without(s, i) == [j \in 1 .. Len(s) - 1 |-> IF j < i THEN s[j] ELSE s[j + 1]]

\* remove_by_index(): the loop passes the smaller ids, and erases if it stops at
\* k. The test of the first and the last id before it is always true.
StopsAt(k) == {i \in DOMAIN list_ : list_[i] = k /\ \A j \in 1 .. i - 1 : list_[j] < k}
RemoveByIndex(k) ==
    IF StopsAt(k) = {} THEN list_ ELSE Without(list_, CHOOSE i \in StopsAt(k) : TRUE)

\* unsubscribe() of a handle that has k: it keeps its unsubscriber.
Run(k) == IF k = Nothing \/ ~alive THEN list_ ELSE RemoveByIndex(k)

\* What an assignment to a scoped handle does to the slot k that it has.
KeepOld(k) == list_
DropOld(k) == Run(k)

\* For the history: an unsubscriber is run, and a scoped handle takes a slot.
Told(k) == told \cup ({k} \ {Nothing})
Taken(k) == guarded \cup ({k} \ {Nothing})

-----------------------------------------------------------------------------
\* connect(), into a handle that was constructed just now.
Subscribe(p) ==
    /\ alive /\ id_ < MaxIds /\ plain[p] = Nothing
    /\ id_' = id_ + 1
    /\ list_' = Append(list_, id_')
    /\ plain' = [plain EXCEPT ![p] = id_']
    /\ UNCHANGED <<alive, scoped, guarded, told>>

SubscribeScoped(s) ==
    /\ alive /\ id_ < MaxIds /\ scoped[s] = Nothing
    /\ id_' = id_ + 1
    /\ list_' = Append(list_, id_')
    /\ scoped' = [scoped EXCEPT ![s] = id_']
    /\ guarded' = Taken(id_')
    /\ UNCHANGED <<alive, plain, told>>

UnsubscribePlain(p) ==
    /\ list_' = Run(plain[p])
    /\ told' = Told(plain[p])
    /\ UNCHANGED <<id_, alive, plain, scoped, guarded>>

UnsubscribeScoped(s) ==
    /\ list_' = Run(scoped[s])
    /\ told' = Told(scoped[s])
    /\ UNCHANGED <<id_, alive, plain, scoped, guarded>>

\* p = q, which copies also when q is an rvalue; p constructed from an
\* rvalue q (a swap with nothing), swap, and the destructor of p.
AssignPlain(p, q) ==
    /\ plain' = [plain EXCEPT ![p] = plain[q]]
    /\ UNCHANGED <<list_, id_, alive, scoped, guarded, told>>
SwapPlain(p, q) ==
    /\ plain' = [plain EXCEPT ![p] = plain[q], ![q] = plain[p]]
    /\ UNCHANGED <<list_, id_, alive, scoped, guarded, told>>
ForgetPlain(p) ==
    /\ plain' = [plain EXCEPT ![p] = Nothing]
    /\ UNCHANGED <<list_, id_, alive, scoped, guarded, told>>

\* s = p.
CopyIn(s, p) ==
    /\ list_' = DropOld(scoped[s])
    /\ scoped' = [scoped EXCEPT ![s] = plain[p]]
    /\ guarded' = Taken(plain[p])
    /\ told' = Told(scoped[s])
    /\ UNCHANGED <<id_, alive, plain>>

\* s = std::move(p): p gets the unsubscriber of the slot just unsubscribed.
MoveIn(s, p) ==
    /\ list_' = DropOld(scoped[s])
    /\ scoped' = [scoped EXCEPT ![s] = plain[p]]
    /\ plain' = [plain EXCEPT ![p] = scoped[s]]
    /\ guarded' = Taken(plain[p])
    /\ told' = Told(scoped[s])
    /\ UNCHANGED <<id_, alive>>

\* s = std::move(o), also the constructor: they swap, and o.reset().
Move(s, o) ==
    /\ s # o
    /\ list_' = DropOld(scoped[s])
    /\ scoped' = [scoped EXCEPT ![s] = scoped[o], ![o] = Nothing]
    /\ told' = Told(scoped[s])
    /\ UNCHANGED <<id_, alive, plain, guarded>>

Swap(s, o) ==
    /\ s # o
    /\ scoped' = [scoped EXCEPT ![s] = scoped[o], ![o] = scoped[s]]
    /\ UNCHANGED <<list_, id_, alive, plain, guarded, told>>

\* reset(), and the destructor.
Reset(s) ==
    /\ list_' = Run(scoped[s])
    /\ scoped' = [scoped EXCEPT ![s] = Nothing]
    /\ told' = Told(scoped[s])
    /\ UNCHANGED <<id_, alive, plain, guarded>>

\* p = s.release().
Release(s, p) ==
    /\ scoped' = [scoped EXCEPT ![s] = Nothing]
    /\ plain' = [plain EXCEPT ![p] = scoped[s]]
    /\ guarded' = IF \E o \in Scoped \ {s} : scoped[o] = scoped[s]
                  THEN guarded ELSE guarded \ {scoped[s]}
    /\ UNCHANGED <<list_, id_, alive, told>>

UnsubscribeAll ==
    /\ alive
    /\ list_' = <<>>
    /\ told' = 1 .. id_
    /\ UNCHANGED <<id_, alive, plain, scoped, guarded>>

\* The observer is destroyed.
DestroyObserver ==
    /\ alive
    /\ alive' = FALSE
    /\ list_' = <<>>
    /\ told' = 1 .. id_
    /\ UNCHANGED <<id_, plain, scoped, guarded>>

Next ==
    \/ \E p \in Plain : Subscribe(p) \/ UnsubscribePlain(p) \/ ForgetPlain(p)
    \/ \E p, q \in Plain : AssignPlain(p, q) \/ SwapPlain(p, q)
    \/ \E s \in Scoped : SubscribeScoped(s) \/ UnsubscribeScoped(s) \/ Reset(s)
    \/ \E s \in Scoped, p \in Plain : CopyIn(s, p) \/ MoveIn(s, p) \/ Release(s, p)
    \/ \E s, o \in Scoped : Move(s, o) \/ Swap(s, o)
    \/ UnsubscribeAll \/ DestroyObserver

Spec == Init /\ [][Next]_vars

-----------------------------------------------------------------------------
(***************************************************************************)
(* A slot that a scoped handle took and did not release is subscribed only *)
(* while some scoped handle has it, through every constructor, assignment, *)
(* swap and reset of the handles (scoped-subscription.h:15): no slot stays *)
(* behind, to run with what it captured, when its guards are gone.         *)
(***************************************************************************)
ScopedGuards == (guarded \cap Listed) \subseteq HeldByScoped

(***************************************************************************)
(* The slots subscribed are those whose unsubscriber nobody has run: one   *)
(* never goes because of another slot's handle, of one that is used again, *)
(* or of one whose slot is long gone (fimpl.h:61, the search stops at the  *)
(* first id that is not less), and one that was told to go never stays.    *)
(***************************************************************************)
SubscribedUntilTold == Listed = (1 .. id_) \ told

\* Both: slots stay as long as they should and no longer.
HandlesKeepSlots == ScopedGuards /\ SubscribedUntilTold

(***************************************************************************)
(* What makes it inductive: the list is sorted, or the search would miss   *)
(* slots; ids are drawn in order, so a new one is in no handle and no      *)
(* history yet; and an observer that is gone has an empty list.            *)
(***************************************************************************)
HeldIds == (1 .. id_) \cup {Nothing}
TypeOK ==
    /\ id_ \in Nat /\ list_ \in Seq(1 .. id_) /\ alive \in BOOLEAN
    /\ plain \in [Plain -> HeldIds] /\ scoped \in [Scoped -> HeldIds]
    /\ guarded \subseteq 1 .. id_ /\ told \subseteq 1 .. id_
Sorted == \A i, j \in DOMAIN list_ : i < j => list_[i] < list_[j]
GoneIsEmpty == ~alive => list_ = <<>>
Inductive == TypeOK /\ Sorted /\ GoneIsEmpty /\ HandlesKeepSlots
=============================================================================
