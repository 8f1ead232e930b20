------------------------------ MODULE Observers ------------------------------
(***************************************************************************)
(* observers::details::impl, the list of slots behind observers::simple:   *)
(* threads subscribe, unsubscribe and call; the slots that run may do the  *)
(* same. list_lock_, recursive, is held for the whole of a call; every     *)
(* section of tmp_lock_ is one step. A slot is the id it was given.        *)
(***************************************************************************)
EXTENDS Naturals, Sequences, FiniteSets

CONSTANTS
    Threads,
    MaxSlots,    \* subscriptions made
    MaxCalls,    \* calls made, nested ones included
    MaxDepth,    \* calls a thread nests: 1 if the slots never call the observer
    All,         \* the id special::unsubscribe_all
    NoThread

ASSUME ConstantsAssumption ==
    /\ MaxSlots \in Nat /\ MaxCalls \in Nat /\ MaxDepth \in Nat
    /\ All \notin Nat /\ NoThread \notin Threads

VARIABLES
    list_, added_, removed_,
    id_,             \* ids drawn so far
    current_enter_,
    owner,           \* the thread that has list_lock_
    frames,          \* of every thread, its calls under way, innermost first
    calls, gone,     \* history: calls made; slots unsubscribed, one by one or by
                     \* an unsubscribe_all() that no call was under way for
    used             \* history: the operations used, of those that matter

vars == <<list_, added_, removed_, id_, current_enter_, owner, frames, calls, gone, used>>

Ids == 1 .. MaxSlots
End == 0

(***************************************************************************)
(* A call under way: its point, its iterator, and two sets the code has no *)
(* notion of: the slots it has to run before it returns, and those it must *)
(* not run.                                                                *)
(***************************************************************************)
Phases == {"clean", "splice", "visit", "exec", "slot"}
Frame == [phase : Phases, at : Ids \cup {End}, must : SUBSET Ids, dead : SUBSET Ids]

Init ==
    /\ list_ = <<>> /\ added_ = <<>> /\ removed_ = {}
    /\ id_ = 0 /\ current_enter_ = 0
    /\ owner = NoThread
    /\ frames = [t \in Threads |-> <<>>]
    /\ calls = 0 /\ gone = {} /\ used = {}

-----------------------------------------------------------------------------
\* What each operation is made of. Beside some definitions stands a form of them
\* with a mistake, which no action uses: a property has to tell the two apart.
Elements(s) == {s[i] : i \in DOMAIN s}

\* What is left of a list when the elements ids are erased, one after the other.
Without(s, ids) ==
    LET left[i \in 0 .. Len(s)] ==
            IF i = 0 THEN <<>>
            ELSE IF s[i] \in ids THEN left[i - 1] ELSE Append(left[i - 1], s[i])
    IN  left[Len(s)]

\* list_type::erase of an element.
Erase(s, k) == Without(s, {k})

\* The element an iterator at k moves to with ++, or with erase().
After(s, k) ==
    IF \E i \in DOMAIN s : s[i] = k /\ i < Len(s)
    THEN s[(CHOOSE i \in DOMAIN s : s[i] = k) + 1] ELSE End
AfterEraseStale(s, k) == k
AfterErase(s, k) == After(s, k)
First(s) == IF s = <<>> THEN End ELSE s[1]

\* remove_by_index: the loop stops at the first id that is not less.
RemoveNotLess(s, k) ==
    LET notLess == {i \in DOMAIN s : s[i] >= k}
        first == CHOOSE i \in notLess : \A j \in notLess : i =< j
    IN  IF notLess # {} THEN Erase(s, s[first]) ELSE s
RemoveByIndex(s, k) ==
    LET notLess == {i \in DOMAIN s : s[i] >= k}
        first == CHOOSE i \in notLess : \A j \in notLess : i =< j
    IN  IF notLess # {} /\ s[first] = k THEN Erase(s, k) ELSE s

\* clear_removed: it runs along the two at once, which finds every id because
\* the list is sorted as the set is.
ClearRemoved(s, ids) == Without(s, ids)

\* list_.splice(list_.end(), added_).
SplicedInFront == added_ \o list_
Spliced == list_ \o added_

\* The end of call(): a nested call leaves list_lock_ to the outer one.
OutermostEnds(t) == Len(frames[t]) = 1

Leave(t) == current_enter_ - 1

AllUnsubscribed == All \in removed_

SetTop(t, frame) == frames' = [frames EXCEPT ![t] = <<frame>> \o Tail(@)]
Pop(t) ==
    /\ frames' = [frames EXCEPT ![t] = Tail(@)]
    /\ owner' = IF OutermostEnds(t) THEN NoThread ELSE owner

Top(t) == Head(frames[t])
At(t, phase) == frames[t] # <<>> /\ Top(t).phase = phase

\* User code runs in t: outside of any call, or in a slot.
InUser(t) == frames[t] = <<>> \/ At(t, "slot")

\* The slots subscribed and not unsubscribed since.
Live == (1 .. id_) \ gone

\* No call under way has to run the slots ks any more.
Forget(ks) ==
    frames' = [t \in Threads |->
                   [i \in DOMAIN frames[t] |-> [frames[t][i] EXCEPT !.must = @ \ ks]]]

-----------------------------------------------------------------------------
\* subscribe(): the id is drawn and the slot added in one section.
Connect(t) ==
    /\ InUser(t) /\ id_ < MaxSlots
    /\ id_' = id_ + 1
    /\ added_' = Append(added_, id_')
    /\ UNCHANGED <<list_, removed_, current_enter_, owner, frames, calls, gone, used>>

MarkRemovedOnlyAdded(k) == removed_' = removed_ \cup (Elements(added_) \cap {k})
MarkRemoved(k) == removed_' = removed_ \cup {k}

\* A slot may be unsubscribed again, as a scoped subscription does that was
\* unsubscribed before it is destroyed.
Unsubscribe(t, k) ==
    /\ InUser(t)
    /\ k \in 1 .. id_
    /\ MarkRemoved(k)
    /\ added_' = RemoveByIndex(added_, k)
    /\ Forget({k})
    /\ gone' = gone \cup {k}
    /\ used' = used \cup {"unsubscribe"}
    /\ UNCHANGED <<list_, id_, current_enter_, owner, calls>>

\* unsubscribe_all() only leaves a mark, which the next call may act on; a call
\* under way forgets it (clear_removed), and the slots stay.
UnsubscribeAll(t) ==
    /\ InUser(t)
    /\ removed_' = removed_ \cup {All}
    /\ added_' = <<>>
    /\ Forget(Live)
    /\ gone' = IF owner = NoThread THEN gone \cup Live ELSE gone
    /\ used' = used \cup {"unsubscribe_all"}
    /\ UNCHANGED <<list_, id_, current_enter_, owner, calls>>

\* A call: list_lock_ is taken, again if a slot calls. A nested call has no
\* slots it must run: those added meanwhile are spliced by the next outer call.
Call(t) ==
    /\ InUser(t) /\ owner \in {NoThread, t}
    /\ calls < MaxCalls /\ Len(frames[t]) < MaxDepth
    /\ calls' = calls + 1
    /\ used' = IF frames[t] = <<>> THEN used ELSE used \cup {"nested call"}
    /\ owner' = t
    /\ current_enter_' = current_enter_ + 1
    /\ frames' = [frames EXCEPT ![t] =
         <<[phase |-> IF current_enter_' = 1 THEN "clean" ELSE "visit",
            at |-> IF current_enter_' = 1 THEN End ELSE First(list_),
            must |-> IF frames[t] = <<>> THEN Live ELSE {},
            dead |-> gone]>> \o @]
    /\ UNCHANGED <<list_, added_, removed_, id_, gone>>

\* check_clean() finds the mark: all slots go, the added ones too, and call()
\* returns without having decremented current_enter_.
CleansAndReturns(t) ==
    /\ At(t, "clean") /\ AllUnsubscribed
    /\ added_' = <<>> /\ list_' = <<>> /\ removed_' = {}
    /\ Pop(t)
    /\ UNCHANGED <<id_, current_enter_, calls, gone, used>>

CheckClean(t) ==
    /\ At(t, "clean") /\ ~AllUnsubscribed
    /\ SetTop(t, [Top(t) EXCEPT !.phase = "splice"])
    /\ UNCHANGED <<list_, added_, removed_, id_, current_enter_, owner, calls, gone, used>>

SpliceAdded(t) ==
    /\ At(t, "splice")
    /\ list_' = Spliced
    /\ added_' = <<>>
    /\ SetTop(t, [Top(t) EXCEPT !.phase = "visit", !.at = First(list_')])
    /\ UNCHANGED <<removed_, id_, current_enter_, owner, calls, gone, used>>

\* is_removed: the mark is taken off and the slot erased, or the slot's turn
\* has come. (The trait simple has no expired slots.)
IsRemovedNever(k) == FALSE
IsRemoved(k) == k \in removed_

VisitRemoved(t) ==
    /\ At(t, "visit") /\ Top(t).at # End /\ IsRemoved(Top(t).at)
    /\ removed_' = removed_ \ {Top(t).at}
    /\ list_' = Erase(list_, Top(t).at)
    /\ SetTop(t, [Top(t) EXCEPT !.at = AfterErase(list_, Top(t).at)])
    /\ UNCHANGED <<added_, id_, current_enter_, owner, calls, gone, used>>

Visit(t) ==
    /\ At(t, "visit") /\ Top(t).at # End /\ ~IsRemoved(Top(t).at)
    /\ SetTop(t, [Top(t) EXCEPT !.phase = "exec"])
    /\ UNCHANGED <<list_, added_, removed_, id_, current_enter_, owner, calls, gone, used>>

\* The slot is run, outside of tmp_lock_.
ExecSlot(t) ==
    /\ At(t, "exec")
    /\ SetTop(t, [Top(t) EXCEPT !.phase = "slot", !.must = @ \ {Top(t).at}])
    /\ UNCHANGED <<list_, added_, removed_, id_, current_enter_, owner, calls, gone, used>>

\* The slot returns and the iterator moves on. If its element was erased in the
\* meantime the behaviour is undefined, and nothing after it is modelled.
SlotReturns(t) ==
    /\ At(t, "slot") /\ Top(t).at \in Elements(list_)
    /\ SetTop(t, [Top(t) EXCEPT !.phase = "visit", !.at = After(list_, Top(t).at)])
    /\ UNCHANGED <<list_, added_, removed_, id_, current_enter_, owner, calls, gone, used>>

\* The end of the list; the outermost call clears what was removed meanwhile.
CallEnds(t) ==
    /\ At(t, "visit") /\ Top(t).at = End
    /\ current_enter_' = Leave(t)
    /\ IF current_enter_' = 0
       THEN list_' = ClearRemoved(list_, removed_) /\ removed_' = {}
       ELSE UNCHANGED <<list_, removed_>>
    /\ Pop(t)
    /\ UNCHANGED <<added_, id_, calls, gone, used>>

Next == \E t \in Threads :
    \/ Connect(t) \/ (\E k \in Ids : Unsubscribe(t, k)) \/ UnsubscribeAll(t) \/ Call(t)
    \/ CleansAndReturns(t) \/ CheckClean(t) \/ SpliceAdded(t)
    \/ VisitRemoved(t) \/ Visit(t) \/ ExecSlot(t) \/ SlotReturns(t) \/ CallEnds(t)

Spec == Init /\ [][Next]_vars

-----------------------------------------------------------------------------
\* The type of every variable.
TypeOK ==
    /\ list_ \in Seq(Ids) /\ added_ \in Seq(Ids)
    /\ removed_ \subseteq Ids \cup {All}
    /\ id_ \in 0 .. MaxSlots
    /\ current_enter_ \in Nat
    /\ owner \in Threads \cup {NoThread}
    /\ frames \in [Threads -> Seq(Frame)]
    /\ calls \in Nat /\ gone \subseteq Ids
    /\ used \subseteq {"unsubscribe", "unsubscribe_all", "nested call"}

\* The list and the list of the added are sorted, one after the other, without
\* repetition: remove_by_index and clear_removed stop early on any other list.
Sorted == LET s == list_ \o added_ IN \A i, j \in DOMAIN s : i < j => s[i] < s[j]

\* Ids were drawn: a new one is in no list and not gone.
Drawn == Elements(list_) \cup Elements(added_) \cup gone \subseteq 1 .. id_

\* Only the thread that has list_lock_ is in a call, and the counter of entries
\* tells how deep, as long as nobody uses unsubscribe_all: clear_removed and the
\* splice must happen in the outermost call and in no other. Once it is too high
\* there are no slots any more.
Depth == IF owner = NoThread THEN 0 ELSE Len(frames[owner])
EnterCounts ==
    /\ \A t \in Threads : (frames[t] # <<>>) <=> (owner = t)
    /\ current_enter_ >= Depth
    /\ current_enter_ # Depth => list_ = <<>>
    /\ current_enter_ # Depth \/ AllUnsubscribed => "unsubscribe_all" \in used

\* All calls of a thread but the innermost are in a slot; only an outermost one
\* cleans and splices; a call that visits has its iterator in the list.
Nested(t) ==
    \A i \in DOMAIN frames[t] :
        /\ i > 1 => frames[t][i].phase = "slot"
        /\ frames[t][i].phase \in {"clean", "splice"} => Len(frames[t]) = 1 /\ current_enter_ = 1
        /\ frames[t][i].phase \in {"visit", "exec"} => frames[t][i].at \in Elements(list_) \cup {End}
        /\ frames[t][i].phase = "exec" => frames[t][i].at # End
        /\ frames[t][i].dead \subseteq gone
Stacked == \A t \in Threads : Nested(t) /\ ("nested call" \notin used => Len(frames[t]) =< 1)

\* A mark is of a slot that is gone; a slot that is gone and still in the list
\* has one, or the mark of unsubscribe_all is there for the next outermost call.
Marked ==
    /\ removed_ \subseteq gone \cup {All}
    /\ gone \cap Elements(added_) = {}
    /\ \/ gone \cap Elements(list_) \subseteq removed_
       \/ AllUnsubscribed /\ \A t \in Threads : frames[t] = <<>> \/ At(t, "clean")

\* No slot is lost: those not gone are in a list, and those an outermost call
\* has yet to run are before its iterator in none.
Ahead(frame) ==
    /\ frame.must \cap gone = {}
    /\ frame.must \subseteq IF frame.phase \in {"clean", "splice"}
                            THEN Elements(list_) \cup Elements(added_) ELSE Elements(list_)
    /\ frame.phase \in {"visit", "exec"} =>
          \A k \in frame.must : frame.at # End /\ frame.at =< k
    /\ frame.phase = "slot" => \A k \in frame.must : frame.at < k
NoneLost ==
    "unsubscribe_all" \notin used =>
        /\ Live \subseteq Elements(list_) \cup Elements(added_)
        /\ \A t \in Threads : frames[t] # <<>> => Ahead(frames[t][Len(frames[t])])

\* Between any two steps, whichever thread or slot calls next, the lists are
\* sorted (impl.h:111, 180), the entries counted, and every slot that was
\* unsubscribed marked where it is.
WellFormed == TypeOK /\ Sorted /\ Drawn /\ EnterCounts /\ Stacked /\ Marked /\ NoneLost

\* A slot that was unsubscribed before a call began is not run by that call,
\* wherever the slot was when it was unsubscribed and whoever else is calling.
UnsubscribedNotRun ==
    \A t \in Threads : \A i \in DOMAIN frames[t] :
        frames[t][i].phase \in {"exec", "slot"} => frames[t][i].at \notin frames[t][i].dead

\* A call does not return before it has run every slot that was subscribed when
\* it began and that nobody has unsubscribed since, as long as nobody uses
\* unsubscribe_all.
Complete == \A t \in Threads : Len(frames[t]) = 1 /\ frames'[t] = <<>> => Top(t).must = {}
RunsEveryLiveSlot == [][ "unsubscribe_all" \notin used => Complete ]_vars

\* A call's iterator stays at an element of the list whoever subscribes and
\* unsubscribes meanwhile, as long as no slot calls the observer.
Dangling ==
    \E t \in Threads : \E i \in DOMAIN frames[t] :
        frames[t][i].at # End /\ frames[t][i].at \notin Elements(list_)
NoDanglingIterator == "nested call" \notin used => ~Dangling

\* The test "simple call" of tests/observers.cpp:14-20 subscribes, calls, and
\* wants the slot to have run; nothing it does tells of an earlier
\* unsubscribe_all and call. So a call does not return while a slot that was
\* subscribed when it began still waits in added_ to be run.
SimpleCall ==
    [][ \A t \in Threads :
            Len(frames[t]) = 1 /\ frames'[t] = <<>> => Top(t).must \cap Elements(added_') = {} ]_vars

\* The test "call can be made from slots" of tests/observers.cpp:21-32: no call
\* under way has its iterator at an element that a nested call has erased.
NestedCallsSafe == ~Dangling
=============================================================================
