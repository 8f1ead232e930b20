# etool: a TLA+ verification project

etool is a header-only C++ library (`src/include/etool`) of small, mostly
independent parts: task queues, observers, interval containers, a logger, layers,
subsystems, tries, lists, encodings and helpers. This directory holds TLA+ models of
the parts that have behaviour, TLC runs that check them on small instances, and
proofs, checked by TLAPS, of nearly all the safety properties that the runs check: those of
the two queues, the observers, the logger, the interval containers, the trie, the
subscriptions, the packed sizes, the texts, the linked list and the subsystems. Paths below are
relative to `src/include/etool`, except `drafts/` and `tests/`, which are in `src`; `base.h:543` stands for a line of the file under discussion.

To repeat a check: `tlc -config X.cfg M.tla` (the module of every cfg is in the
table of runs), `tlapm MProofs.tla` for proofs.

## 1. Inventory

| Component | State it keeps | Operations | Interacts with |
|---|---|---|---|
| delayed queue, `queues/delayed/base.h` | under `work_lock_`: `enabled_`, the FIFO `task_queue_`, the heap `delayed_`; under `active_lock_`: the map `in_wait_` of handlers nobody took, the set `in_process_` of those a thread waits the time of; `id_` | `post_task`, `post_delayed_task`, `task_id::cancel`, `run`, `run(n)`, `post_stop`, `stop`, `reset`, destructor | calls user handlers, which call it again; any number of threads in `run` |
| condition queue, `queues/condition/base.h` | the container (FIFO or heap), `cancel_` | `push`, `pop`, `wait`, `wait0`, `cancel`, `reset`, `clear` | used by the logger |
| observers, list of slots, `observers/details/impl.h` | `list_`, `added_`, `removed_`, `id_`, `current_enter_`, two mutexes | `connect`, `unsubscribe`, `clear`, `call` | calls slots, which call it again |
| observers, snapshots, `observers/details/fimpl.h` | `list_`, `id_` | the same | the same, but no lock is held while slots run |
| subscriptions, `observers/*subscription.h` | a shared unsubscriber per handle | copy, move, assign, swap, unsubscribe, release, reset | unsubscribes from either list through a weak pointer |
| intervals, `intervals/interval.h` | two endpoints with attributes | order, containment, connection, cutting | keys of the containers |
| endpoints, `intervals/value.h` | a value with an attribute | orders: of two, and with a plain value | intervals |
| interval containers, `intervals/tree.h`, `set.h`, `map.h`, `traits/` | an ordered container of disjoint intervals: a `std::map` or a sorted vector | `insert`, `cut`, `merge`, `absorb`, their one-sided forms, `find`, `operator[]`, `intersection` | intervals |
| logger, `logger/` | condition queue of elements, `level_`, accumulators | `log`/`<<`, `dispatch`, `attach`, `run_one`, `stop`, `set_level` | condition queue, cache; calls dispatched functions |
| cache, `cache/simple.h` | a bounded stack of reusable objects | `get`, `push` | logger |
| trie, `trees/trie/` | nodes with children and a value | `insert`, `operator[]`, `get`, `erase` | comparator |
| sizepack, `sizepack/` | none: formats of integers | `pack`, `append`, `unpack`, lengths, zigzag | byte order |
| layers, `layers/` | of a layer `upper_` and `lower_`; of a list, which is a layer, the layers in it | `push_front`, `push_back`, `set_upper`, `set_lower`, `from_upper`, `from_lower` | layers send to their neighbours; a list passes on to those at its ends |
| subsystems, `subsystems/` | under a recursive mutex: `ifaces_` by type, `ifaces_order_` | `add`, `init`, `start`, `stop` | calls subsystems, which call it again; a root is a subsystem itself |
| linked list, `details/list.h` | `front_`, `back_`, `size_`, the links of nodes; iterators | pushes, `erase`, `rerase`, `splice_back`, `swap`, `clear`, `++`, `--` | |
| utf8, hexadecimal digits, text to numbers, `charset/utf8.h`, `details/byte_hex.h`, `lexical_cast.h` | none | encode and decode | |
| byte order, `details/byte_order.h`, `byte_swap.h` | none | `write`, `read`, `value`, `byte_swap` | sizepack |
| B-tree, `drafts/trees/btree` | nodes of sorted values and children | `insert`, `erase`, `node_with` | nothing includes it |
| result, slices, operators, dumper, console, crc32, other drafts | see section 8 | | |

The hard behaviours, which the hazards of `PROJECT.json` place at their lines:

* **Two locks, one task** (delayed queue). A delayed task moves between a heap under
  one mutex, a map and a set under another, and the hands of a worker that holds
  neither while it waits. A cancel, a stop, an expiry and a regular task may all come
  in the middle.
* **Shared notifications** (both queues, the logger). `notify_one` may wake a thread
  that leaves for another reason; predicates say less than what the thread waits for;
  a cancel notifies without the mutex of the condition variable.
* **Re-entrance** (delayed queue, observers). Handlers and slots call the object that
  runs them: stop inside a handler, unsubscribe inside a slot, a nested call.
* **Deferred removal** (observers). `unsubscribe` only marks; the marks are dropped
  after some call, and searches rely on lists that stay sorted.
* **Boundaries** (intervals, sizepack, utf8, B-tree). Open, closed, infinite and
  coinciding endpoints; sizes and code points at the edge of a format; streams and
  texts that break off; nodes that are full.
* **Links by hand** (linked list, layers). Every operation mends several links, and one
  that it forgets shows only on another way through the structure, or operations later.
* **The same twice** (intervals, byte order, sizepack, containers). Orders, lengths and
  containers are written out several times and must say the same.
* **Reuse** (cache, logger). Elements carry the text and the call of their last use.

What makes each component correct is what its properties say, section 4.

## 2. Plan

The order is that of importance: concurrency first, then containers.

1. *done* `DelayedQueue`, with the abstract `DelayedTimers` and proofs in
   `DelayedQueueProofs`.
2. *done* `ConditionQueue`, proofs in `ConditionQueueProofs`; `Logger`, which composes
   it with the cache.
3. *done* `Observers`; `Intervals` and `IntervalTree`, composed.
4. *done* `Trie` with the abstract `TrieMap`, `Subscriptions`, `Sizepack`; one run has
   the three side by side (`SequentialPartsMC`).
5. *done* `Layers`, `Subsystems`, `LinkedList` with the abstract `NodeSequences`, `Text`,
   `BTree`, beside the three of 4 in `SequentialPartsMC`; zigzag and byte order in
   `Sizepack`; the sorted vectors and the orders of endpoints in `IntervalTree` and
   `Intervals`.
6. *done* Proofs of what `HandlesKeepSlots` states of `Subscriptions`, and of
   `EarlyOnlyWhenStopped` of the delayed queue.
7. *done* Proofs of every invariant and action property of `Observers`
   (`ObserversProofs`) and of `Logger` (`LoggerProofs`), of the wakeups and the orders of
   the delayed queue, and that it implements `DelayedTimers` (`DelayedQueueProofs`).
8. *done* Proofs of `NoDeadNode` and `LookupExact` of `Trie` and that it implements
   `TrieMap`, and that `LinkedList` implements `NodeSequences` (`LinkedListProofs`).
9. *done* Proofs of every property of `IntervalTree`, with the orders of `Intervals`
   (`IntervalTreeProofs`).
10. *done* `SequentialParts`, the composition of the parts without `BTree`, and what is
   proved of each of them taken over to it (`SequentialPartsProofs`): the trie, the
   subscriptions, the subsystems, the packed sizes, the texts and the linked list.
11. *next* `Layers` and `BTree` in a form that can be proved about: trees of lists and of
   nodes are recursive data, and their invariants need induction over it.
12. *next* Composition of `Subscriptions` with `Observers`: handles over the list of
   slots with its deferred removal.

Modules that are or will be proved about use recursive functions or none, no
`RECURSIVE` operators.

## 3. Which module models what

Every definition's lines are in `map` of `PROJECT.json`. Beside some definitions the
modules hold a form of them with a mistake that no action uses
(`NotifyOneForgotten` beside `NotifyOne`): each property has been seen to fail when
the mistaken form takes the place of the right one.

**`DelayedQueue`.** One action per section of a mutex. `work_lock_` is a variable,
because `wait_next` (base.h:526) keeps it across several sections of `active_lock_`;
every other section is one step guarded by `LockFree`. `pc[w]` is the point in
`wait_next`: `top` of the loop, `idle` in `work_cond_.wait`, `timed` before the
predicate of `wait_until`, `block` after it was false and before the thread sleeps
(the two are not atomic for a cancel, which changes `in_process_` under the other
mutex), `sleep`, `notified` or `timedout` behind it, `take` and `fire`. `todo[t]` is
the stack of closures and user bodies thread `t` is in, so that handlers that call the
queue, and the tasks `stop(true)` runs, nest as they do in C++. `post_task` is
`CheckActive` and `Push`, two sections, between which a stop may come: the task then
stays in a stopped queue, as the comment at base.h:373 accepts. `waiting` is the set of
threads asleep; spurious wakeups are a step. `Tick` moves the clock freely up to
`MaxNow` and, beyond, only while some delay is running.

**`DelayedTimers`** is what the queue promises about delayed handlers: one state per
timer (new, pending, withdrawn, ran, aborted, dropped), when each may follow which, and
that nothing is called twice, early or after it was withdrawn. `DelayedQueue` implements
it under the mapping at the end of the module, `ImplementsTimers`.

**`ConditionQueue`.** Every operation is one section of one mutex, `wait` is split at
the condition variable. `trait` chooses the FIFO or the heap. With the heap, the caller's
old value is swapped into the front before `pop_heap` (base.h:87, priority.h), which is
then called on a range whose first element may be anything; `pop_heap` moves just that
element to the back, so which values are left does not depend on it. `Take` swaps (`Swapped`,
with `Old` for the value of the caller) and pops (`Popped`) one after the other.

**`Logger`** instances `ConditionQueue` and puts the cache, the elements' contents and
the accumulators around its actions. An element keeps its old text and call, as in the
code (simple.h:164), so a leak of an earlier use into a later one would be visible in
`out`.

**`Observers`.** `list_lock_` (recursive) is held by a thread for a whole call,
`tmp_lock_` sections are single steps. `frames[t]` is the stack of calls of a thread,
each with its iterator; `must` and `dead` are history: what the call has yet to run, and
must not run. After an iterator dangles nothing is said of the behaviour: the C++
is undefined there.

**`Intervals`, `IntervalTree`.** `Intervals` is `interval.h` as operators, with
attributes and the value that an infinite endpoint still carries. `IntervalTree` is the
container as a sequence in its order, `located_result` and the operations built from
it. An operation is first what it asks of the container (`InsertChange`: what is erased,
the hint, what is emplaced), and `Changed` gives what a container of either kind makes of
it: a `std::map`, which ignores the hint and refuses an equivalent element, or a sorted
vector, which trusts the hint (`ArrayPlace`). The state is that of the `std::map`;
`ArraysAgree` is about the other. `end()` is looked into at tree.h:172, 393 and 530; the
result does not depend on what is read there, and the model has no such read. `Locate(k)`
is a set of one element, so that a quantifier binds it: TLC works it out once, and its
coverage statistics stay small. `PointsOf` gives an interval's meaning as a set of points;
only properties use it. `Intervals` has the four orders of the code too: `cmp` of
intervals, `cmp_not_overlap`, and the two of endpoints.

**`Trie`** has nodes as paths. `TrieMap` is a map from keys to values. Keys equal under
the comparator are mapped to one.

**`Subscriptions`**: `fimpl` and every operation of both kinds of handles. A call of the
observer copies the list and runs the copy, which changes nothing that the handles or
the list hold: it is not modelled.

**`Sizepack`**: three formats; a sender that appends and a receiver that unpacks as soon
as it can, with bytes arriving one at a time. The shifts of the code are divisions, so that sizes of
64 bits are in the model; TLC has no integers for those of 2^31 and more, and only the
proofs reach them. zigzag of one byte and the conversions of `byte_order`, for which
an integer is its bytes, are operators that `OverloadsAgree` compares. So is
`unpack(begin, end)` of blockchain_varint, as the set of the results that it may have
(`RangeResults`): over bytes with a sign or without, and with a ninth byte shifted by 64,
which is undefined. `RangeAgrees` says for which sizes and ranges it gives back what was packed.

**`LinkedList`** has the links as they are in the code, `prev_` and `next_` by address, and
one iterator. `NodeSequences` is what a list promises: a sequence of nodes, which can be
walked either way. `LinkedList` implements it with the walk along `next_` as the sequence;
that the steps along `prev_` are those of the sequence is what the refinement shows beyond.

**`Layers`**: `upper_` and `lower_` of every layer, and the lists' contents. `set_upper`
of a list goes on to its first layer, and to the first of that one: `Tops` is the chain it
passes. `Link` is the pair of calls that puts one layer on another. `late` remembers
layers pushed at an end that had been linked before: the code does not link those
(list.h:58 looks at the other end's neighbour), and messages are followed only past it.

**`Subsystems`**: two roots, one of which can be in the other, and threads that call them.
`frames[t]` is the stack of `for_each` calls of a thread; a subsystem's function is the
time the thread stays at it, in which it may call either root again. The
mutex is recursive and held for all of `for_each`.

**`Text`**: `ucs4_to_utf8` and back, of whole texts and of any part of their bytes;
hexadecimal digits; `lexical_cast_floating` up to rounding (sign, digits, exponent).

**`BTree`**: nodes as records of two sequences, `split` and the way up. It uses `RECURSIVE`
operators and will not be proved about.

**`SequentialParts`** puts the seven parts above, from `Trie` to `Text`, side by side: a
behaviour is one of one part, the others stay in their initial states, and each
property is looked at where its part moves. `SequentialPartsMC` adds `BTree` as an eighth.

## 4. Runs

| Run | Instance | States | Properties |
|---|---|---|---|
| `DelayedQueueShared` (`DelayedQueueMC`) | two workers in `run()`, one of whose handlers call the queue; a client; one regular and one delayed task, one stop of either kind, resets, destruction | 68 058 | `Custody`, `NoLostWakeup`, `EarlyOnlyWhenStopped`, `ImplementsTimers`, `EveryTaskServed`, `StopEndsRuns` |
| `DelayedQueueAlone` (`DelayedQueueMC`) | one worker in `run(2)` again and again; two tasks of each kind, two delays | 233 765 | `Inductive`, `Fifo`, `EarliestFirst` |
| `ConditionQueue` (`ConditionQueueMC`) | three threads, three values, both traits, every operation | 1 570 | `NoLostWakeup`, `EachOnceInOrder`, `CancelWakesAll`, `EveryValueTaken` |
| `Observers` (`ObserversMC`) | two threads, three slots, four calls, three deep | 203 405 | `WellFormed`, `UnsubscribedNotRun`, `NoDanglingIterator`, `RunsEveryLiveSlot` |
| `IntervalTree` (`IntervalTreeMC`) | three endpoints, seven points, two values, every interval that has points; about two minutes | 3 977 | `WellFormed`, `LookupsExact`, `InsertAssigns`, `CutErases`, `JoinsExact`, `ArraysAgree`, `OrdersAgree` |
| `Logger` (`LoggerMC`) | two attached threads, one that polls; two messages or calls, a change of level, a cache of one, stops | 215 812 | `OnePlace`, `Faithful`, `Complete`, `EveryJobOut`, `StopDetaches` |
| `SequentialParts` (`SequentialPartsMC`) | trie: keys of up to two letters, three letters of which two are equal | 61 578 in all | `NoDeadNode`, `LookupExact`, `ImplementsMap` |
| | handles: two plain and two scoped, with three slots | | `HandlesKeepSlots` |
| | sizes: pairs of fourteen boundary sizes in three formats; all bytes for zigzag; ranges of bytes with a sign and without, with one byte more; four widths, both orders, both hosts | | `ReadInOrder`, `OverloadsAgree` |
| | text: pairs of thirteen boundary code points; numbers with each part there or missing | | `ReadsBack` |
| | linked lists: two, with three nodes | | `ImplementsSequences` |
| | layers: three and two lists | | `MessagesPass` |
| | subsystems: two threads, three of two types, calls two deep | | `NoneLeftOut` |
| | B-tree: nodes of three, seven values | | `SearchTree` |
| five runs that end in a violation | the smallest instances | | section 5 |

Why the bounds are enough:

* The races of the delayed queue are between two workers and one other thread about one
  task: a third worker adds a waiter nobody distinguishes. Two tasks of one kind matter
  for order only, and order has a meaning with one worker only: hence a second run.
  One stop is followed by any number of resets. `run(n)` appears in the second run only,
  see below.
* The condition queue needs as many threads as can be woken, awake and about to take at
  once: three. The third value outranks the first two.
* A nested call inside a nested call, and a slot before and one after the iterator, are
  what the observers' lists can tell apart. The threads are symmetric.
* Three endpoints give two intervals and the gap between them, both ends infinite or
  not; seven points are one at, between and beyond each. The two values are symmetric.
* An element of the logger is used, recycled into a full or an empty cache, and used
  again: two jobs, a cache of one.
* A path of the trie with a branch, a value in the middle and a prefix of another key
  needs two letters and a depth of two; texts are longer by one. 14 sizes are both sides
  of every branch of every format below 2^31, the code points those of UTF-8's; in a pair
  each is cut before, in and behind its neighbour.
* Three nodes give a list a front, a middle and a back, and two lists something to splice
  and swap. `size_` is bounded because `clear` lets it grow for ever.
* Two lists of layers can stand in one another and on one another; three layers leave
  one with a neighbour in the list and one beyond it.
* A subsystem that adds another while a thread is at it, in the root that runs or in the
  nested one, takes three additions and two calls; the second thread only waits or adds.
* With seven values a B-tree of three per node splits up to a third level; erased values
  leave leaves that are short or empty.

What the instances leave out on purpose:

* **`run(n)` beside other workers.** A worker in `run(n)` that was signalled for a task
  may return a cancelled delayed task as its last one and leave. With `Bounded = {w1}`
  and `Hint = 1` in `DelayedQueueShared`, TLC refutes `NoLostWakeup`: the task
  waits, although another worker sleeps in `run()`. No line of the repository promises
  otherwise, so it is recorded as a hazard (base.h:547) and not as a finding.
* **Intervals without points.** Half-open empty ones are cut but not stored
  (interval.h:559: `(-inf, 1]` precedes `[1, 1)`, which precedes `[1, 1]`, and
  the outer two overlap: not an order). Intervals at one infinite end carry
  `domain_type()` in a signed domain, and `(-inf, -inf)` then has points
  (interval.h:136, 265). Both are hazards.
* **`unsubscribe_all` during a call** is lost (impl.h:105). `UnsubscribedNotRun` counts
  only those made while no call is under way.
* **A slot of `fsimple` whose handle is gone** may still run in a call that copied
  the list before. `HandlesKeepSlots` is about the list.
* **A message torn by a change of the level** comes out with some of its parts
  (interface.h:49), and nothing in the repository promises otherwise. `Complete` is about the
  messages that all of the levels they saw allow, or none; it says that no others are torn.
* **Cuts of intervals without points from a sorted vector.** It does not refuse an
  equivalent element: a cut of `(1, 1]` in `[1, 1]` leaves that element twice.
  `ArraysAgree` is about the cuts of intervals with points.
* **Layers pushed at an end that is linked.** They get no link there, the neighbour's
  still leads to the old end. `MessagesPass` holds again once somebody links them.
* **A subsystem of a type that is there already.** Its pointer stays in the order although
  the map refused it and deleted it (root.h:69); behaviours end where it would be called.
* **`erase` of the B-tree above an inner or an empty child.** The code takes the first
  value of a child whatever that child is, which leaves it a child too many, or wraps
  `fill_` around. `CanErase` leaves these out.

`DelayedQueueShared`'s `EarlyOnlyWhenStopped` says when a handler may run before its
time: a worker woken by `stop()` takes the branch of an expired timer (base.h:556). The
test "delayed task should not run earlear" (`tests/delayed_queue.cpp`) has no stop in it.

Deadlock is not checked anywhere: every user may stop calling.

## 5. Disagreements found

| Run | Property | What TLC shows |
|---|---|---|
| `DelayedQueueLostCancel` | `CancelDeactivates` | a cancel between a worker's look at `in_process_` and the re-insertion of the task is undone: the token stays active and the handler runs uncancelled |
| `ObserversUnsubscribeAll` | `SimpleCall` | after `unsubscribe_all` and a call that acts on it, a slot is subscribed and a second call returns without having run it: the early return of `check_clean` left `current_enter_` at 1, so no later call splices `added_` into the list. A slot subscribed between the two, which the first call throws out (impl.h:74), is not held against the code |
| `ObserversDangling` | `NestedCallsSafe` | a slot that unsubscribes itself and calls the observer: the nested call erases the element of the outer iterator |
| `IntervalTreeCutEmpty` | `CutErases` | `cut` of the empty `(1, 1)` in a map of `(-inf, 3]` splits it into `(-inf, 1]` and `[1, 3]`, which overlap; `emplace_hint` drops the second, and the points of `(1, 3]` are lost |
| `TrieEraseAbsent` | `EraseOfOthers` | with `a` stored, `erase("aa")` takes `a` out |

Three more are in the model, and `OverloadsAgree` says that the functions disagree there and
nowhere else; no line of the repository contradicts them in words. `unpack(begin, end)` of
blockchain_varint reads one byte too many when the range goes on (blockchain_varint.h:131), and
gives a one-byte size from 128 on, read through a `char` with a sign, as `std::string`
has it, with that sign in all the bytes (blockchain_varint.h:129); `value()` of `byte_order` swaps
64 bits in `LITTLE` order on hosts where it should not and does not where it should
(byte_order.h:240).

Noticed beside them, outside of the models: `for_each` of the delayed queue, a
`wait_for` of the condition queue and a copy of a trie do not compile when
instantiated; `tree::erase` returns nothing; `dispatch` of an empty function writes the text
that the element carried before; a message whose level is enabled or disabled while it
is written comes out with some of its parts, which `Complete` allows only then; `s = p` of handles with one unsubscriber
unsubscribes it; `subscription`'s move assignment copies; `clear` of `details::list` leaves `size_`; the `_` that
`lexical_cast_floating` means to skip between digits ends the number, because its test for
digits comes first; the copy constructor of `result` calls `Trait::create` with the whole
result; `less_equal` of operators.h:92 uses the domain's own `<=` if it has one, whatever
the comparator of the interval says.

## 6. Fairness

* `DelayedQueue`: weak fairness of the clock; strong fairness of every thread inside the
  queue (`Continue`, `Serve`) and of the wait's timeout. The steps are
  guarded by a mutex that others may take again and again: strong fairness is the
  assumption that a mutex or a condition variable does not starve a thread for ever,
  which a scheduler of threads gives. `Continue` includes that handlers return.
  No fairness is assumed of what users call, of `Run` (calling `run()` again), of
  `SpuriousWake`. `EveryTaskServed` assumes that nobody stops the queue, `StopEndsRuns`
  that it stays stopped.
* `ConditionQueue`: a woken thread gets the mutex in the end; a consumer calls `wait` again,
  without which no value can be promised to be taken.
* `Logger`: threads finish the message they write, attached threads get the
  mutex, and call `attach()` again if they came out of it.

Safety properties use none of it.

## 7. Proofs

`ConditionQueueProofs`, for any finite set of threads, any number of pushes and any
ranks, from `ConstantsAssumption`:

* `InductiveHolds`: `Spec => []Inductive`, where `Inductive` is the types, `NoLostWakeup`
  (while somebody sleeps, there are at least as many threads awake inside `wait` as values) and
  `CancelledNobodySleeps`. The last is needed because `cancel` may be followed by a thread
  about to sleep: it looks at `cancel_` first. The counting steps rest on
  the lemmas `Sizes`, `OneWakes` and `OneLeaves` about cardinalities.
* `NoWakeupIsLost`: `Spec => []NoLostWakeup`, its second conjunct.
* `EachOnceInOrderHolds`: `Spec => []EachOnceInOrder`. Its parts are inductive with the types:
  `Fifo`, with the trait simple, relates what was taken to what is queued, and the trait never
  changes (`TraitStays`); `NoneTwice`, with either trait, says that what is queued or taken
  was pushed, and is in one place. What the swap puts in the place that is popped makes no
  difference to the values left (`SwappedIsPopped`).

`DelayedQueueProofs`, for any workers, clients, bounds, delays and any `Bounded`
set, from `ThreadsAssumption` and `BoundsAssumption`:

* `InductiveHolds`: `Spec => []Inductive`. `Inductive` is `TypeOK`, `MutualExclusion`
  (a worker is at a point inside `wait_next` exactly when `work_lock_` is its), `Custody`,
  `FreshIds` (an id is in no container before it is drawn, and while
  `post_delayed_task` is about to enter it nobody else has it), `Counted` (a worker of
  `run(n)` inside `wait_next` has tasks left, so the count never goes below zero) and
  `FirstWaits` (a worker that decided to take a regular task finds one, because it kept
  the lock). `Custody` alone is not inductive: `Activate` would break it without
  `FreshIds`, two workers could take one task without `MutualExclusion`.
* `CustodyHolds`: a task is in the wait map, or in the process set and the hands of
  exactly one worker, never both.
* `LockExcludes`: no two workers inside `wait_next`. `TypesHold`: the types.
* `NeverEarly`: `Spec => EarlyOnlyWhenStopped`, an action property. It needs a second
  invariant, `InTime`, relative to `Inductive`: a worker inside `wait_next` has nothing to
  execute yet; delayed calls in the queue are all withdrawals (so a worker that takes a
  task instead of its own cannot be given its own); and a worker that left its wait early
  has a reason (`Reasons`), which stands because `enabled_` and the queue change only
  under the lock it keeps, a task once cancelled stays so, and the time of a task is
  fixed before a worker can hold it.

* `NoWakeupLost`: `Spec => []NoLostWakeup`, if `Bounded = {}`, that is, if all workers call
  `run()`. With `run(n)` it is false (section 4). The invariant behind it, `Wakeful`:
  sleepers are at one of the two waits, nobody sleeps in a disabled queue, and a worker whose
  predicate was false has found the queue enabled and empty under the lock it still
  has. The case that matters is that of a worker signalled for a task that takes, or
  returns, another: it is at a point from which it looks at the queue again.
* `RunInOrderOfTimes`: `Spec => EarliestFirst`, an action property, with one worker and
  `stop(true)` left out. With two workers the one that waits for a later task may well wake
  first, and `stop(true)` runs the queue's closures in its own thread, so that the heap grows
  while the worker holds a task. `Punctual` says that the id in a closure that will
  register it was entered in the map, so that its time is settled, that a client has
  no such closure to execute, and that what the worker holds is due before all
  of the heap.
* `RegularInOrder`: `Spec => []Fifo`, with one worker and one client, which alone calls
  the queue, and `stop(true)` left out for the same reason. `InLine` puts the numbers of the
  tasks that are about to be posted, queued, taken and started in one line: each before
  those less far on. An action moves them in one of five ways (`Fewer`, `Posts`, `Queues`,
  `Takes`, `Starts`), and there is a lemma for each.

The argument goes action by action; calls and closures that touch neither the
containers nor a worker's point are dealt with together (`Aside`).

The last part of `DelayedQueueProofs`, for any threads and bounds and from the same two
assumptions, shows that the delayed queue implements `DelayedTimers`:

* `KeptHolds`: `Spec => []Kept`. Its first part, `Single`, is that a handler is in at most
  one of eight places, and there once: the map, the hands of a worker, the queue (as
  a withdrawal), a closure being posted, one to be executed, of either kind, the history of
  calls, or not born yet. The others say what a step needs to be one of `DelayedTimers`: the
  queue is disabled and handlers are withdrawn only after a stop was asked for
  (`Stopped`), a worker whose task left the process set holds one that somebody cancelled
  (`Marked`), a handler about to run is due unless there was a stop (`DueCalls`), and only
  a thread that is posting has a closure to post (`Posted`).
* `TimersImplemented`: `Spec => ImplementsTimers`. `LifeIsFate` reads the mapping off the
  places; a lemma per action (`ActivateRefines` ... `OtherRefines`) gives the places it
  moves handlers between, and `TimerSteps` the step of `DelayedTimers` this is, if any.
  That a handler is called at most once, that a call with "cancelled" has a cancel or a
  stop before it, and that only a stop loses a call that a cancel owes, follow for
  every number of threads and tasks.

`ObserversProofs`, for any threads, slots, numbers of calls and depth:

* `WellFormedHolds`: `Spec => []WellFormed`. It is inductive by itself: the lists `list_` and
  `added_` are sorted and one after the other (`Sorted`), the ids of all of them were drawn
  (`Drawn`), `current_enter_` counts the calls under way, all of the owner of `list_lock_`,
  unless somebody uses `unsubscribe_all` (`EnterCounts`), the outer ones are in a slot
  (`Stacked`), whoever was unsubscribed and is
  still in a list is marked (`Marked`), and a slot a call has yet to run is in the list,
  at or behind its iterator (`NoneLost`). Without `Sorted` neither
  the search that stops at a greater id nor the iterator's order means anything.
* `UnsubscribedNotRunHolds`, `NoDanglingIteratorHolds`, `RunsEveryLiveSlotHolds`: the two
  other invariants and the action property, each from `WellFormed`. The iterator stays
  on an element because the marked ones are erased only by the outermost call; a
  call is complete because its iterator passes every element that it has to run.

`ListLemmas` holds the facts these rest on, proved from the library's well-founded
orders of finite sets: a set of numbers has a least one, and a function defined by recursion
up to a number exists (`Iteration`), or over smaller numbers (`Descent`). With them what the
recursively defined `Without` returns is proved for every list (`WithoutProperties`).

`IntervalTreeProofs`, for any finite or infinite sets of endpoints, keys and values, from
`DomainAssumption`, `PointsAssumption` (there is a point before, behind and between any
endpoints), `KeysAssumption` and `KeysHavePoints` (nothing is inserted that has no points,
see section 4):

* `AlwaysInOrder`: `Spec => []IInv`. The elements are intervals with points that do not lie at
  an infinite end, each before the next (`InOrder`), which is inductive by itself. The
  arguments are about numbers: a finite end is a *cut*, `2 x` before a value `x` and
  `2 x + 1` behind it, and containment, contact, overlap and what is left of an interval are
  comparisons of cuts (`Lo`, `Hi`). `locate()` answers a stretch of elements of which those before
  are before the key and those behind are behind it; every operation takes such a stretch
  out and puts a few intervals in, which fit between the elements that are left.
* `AlwaysWellFormed`, `AlwaysLookupsExact`, `AlwaysInsertAssigns`, `AlwaysCutErases`,
  `AlwaysJoinsExact`, `AlwaysArraysAgree`, `AlwaysOrdersAgree`: the invariants of the run, each
  from `IInv`. `AlwaysCutErases` assumes `Cuttable`: what is cut has points or is half
  open. Of open empty intervals it is false, which is the finding of `IntervalTreeCutEmpty`.
  `AlwaysArraysAgree` is where hints matter: the place that a sorted vector takes on trust is
  the one at which the order asks for the new element.

`LoggerProofs`, for any threads, levels, numbers of jobs and parts and any maximum of
the cache:

* `InductiveHolds`: `Spec => []Inductive`, the types and these, which no run checks by
  themselves, together with `Faithful` and `Complete`: the queue hands pushes out in
  their order (`InOrder`), an element is in each of five places at most
  once (`OncePerPlace`) and in one of them (`Apart`), one that is queued or about to be run
  has in it what it was pushed for (`Carried`), and what an accumulator still holds is what
  the levels it saw make of it (`Accumulated`).
* `OnePlaceHolds`, `FaithfulHolds`, `CompleteHolds`: `OnePlace` follows by counting, the
  other two are parts of the invariant.

The theorems of `ConditionQueueProofs` cannot be cited under the substitution by which
`Logger` instances the queue, so `LoggerProofs` proves the few facts it needs of the FIFO
anew (`QueueTakes`, `QueueNumbers`).

`SequentialPartsProofs` is about each part of `SequentialParts` alone, and then about all:
`PartsBehave` shows that a behaviour of `PartsSpec` is one of every part, so that what is
proved of a part holds of it in the composition, for the property the run checks
(`AlwaysKeepSlots`, `NobodyLeftOut`, `AlwaysReadInOrder`, `AlwaysOverloadsAgree`,
`AlwaysReadsBack`, `ListsAreSequences`; those of the trie are stated of it directly).

Subscriptions, for any handles and slots, from `NothingIsNoSlot` (the value
of an empty handle is not a number):

* `SlotsAreKept`: `Spec => []HandlesKeepSlots`: a slot is subscribed exactly until its own
  unsubscriber is run, and one that a scoped handle took and did not release only while
  some scoped handle has it.
* `InductiveHolds`: the invariant behind it. The search of `remove_by_index` stops at the
  first id that is not less, so it finds every slot only while the list is sorted
  (`Sorted`, by `RemoveTakesOut` and `AppendKeeps`); a new id is in no handle and no history
  (`TypeOK`); and an unsubscriber does nothing to an observer that is gone, which is right
  because its list is empty (`GoneIsEmpty`). There is one lemma for each way the handles
  change, and one step for each action. `HandlesKeepSlots` in `SequentialParts` checks
  all of this invariant.

Trie, for any letters, values and lengths of keys, from `ConstantsAssumption` (the
comparator puts every letter in one class, `value_type()` is a value, null is none):

* `NoDeadNodeHolds`: `Spec => []NoDeadNode`, inductive by itself. The step that matters is
  `erase` (`EraseTakes`): what `Pruned` takes out has no value, is on the way to the node
  where the walk ended, and leads to nothing that is left; and a node on that way that
  stays does so because of a value on it below, or because a branch leaves it, which
  ends at a value of its own.
* `LookupExactHolds`: the nodes with values on a text's walk are the keys it begins with
  (`MatchesOf`), for the walk goes as far as there are nodes and the nodes are closed under
  prefixes (`WalkOf`).
* `MapImplemented`: `Spec => ImplementsMap`. `Enters` and `EraseKeeps` say what operations do
  to the keys with values; where a text leaves the nodes it leaves the prefixes of
  the keys (`SharedIsWalk`), by `NoDeadNode`.

Subsystems, for any threads, types, functions and depth of calls:

* `NobodyLeftOut`: whoever a root has that is not initialised was added since an `init()` of
  that root ended, or an `init()` under way will come to it. The invariant is `StartedInv`: a call
  under way has called all that it has passed (`AllPassed`), and the calls of a root that are
  under way are all of one thread (`OneThreadEach`, stated by `OneThreadCalls`), which is what
  holding the recursive mutex through `for_each` is for: the call that ends is the last frame of
  its thread, and if it ends because the order has no more, nobody is left behind it.

Sizepack, for any sizes of 64 bits and any width of `fixint` that they fit
(`SizesAssumption`), and any number of them:

* `PackedInvariant`: what is under way, in the buffer and behind it, is what was packed of the
  sizes not yet read, one after the other and nothing else (`PackedInv`, with `LaidOut` for the
  places at which they begin).
* `AlwaysReadInOrder`: if the buffer begins with some of the bytes of a size, `packed_length` says
  0 until they are all there, and then their number, whatever follows (`Frames`), and `unpack`
  gives the size back. This is one lemma for each format (`VarintFrames`, `BlockchainFrames`,
  and the length of `fixint`, put together in `EveryFormatTakes`). What the loops of the code
  compute is defined by recursion over the size (`VarintAppend`, `Groups`, `Shifted`) or over the
  bytes (`LittleEndian`); `VarintIs`, `GroupsAre`, `ShiftedIs` and `LittleEndianIs` show that the
  recursions determine them.
* `AlwaysOverloadsAgree`: the lengths agree with what is packed, parts of a size have length 0
  (`LengthsAgree`), `unpack(begin, end)` gives a size back just where `RangeAgrees` says
  (`RangeAgreesSo`, by `RangeOfByte` and `RangeOfPrefixed`: a size that fits fewer bytes has
  zeros for the others, so one byte more in the range adds nothing just if it is 0, or is not
  read, and a ninth byte leaves more than one result), and the tables of zigzag of one byte and of
  the byte orders are right, those of 64 bits in `LITTLE` order being the ones that disagree.

Text, for any code points below 2^31 (`CodePointsAssumption`), in a text of any length:

* `TextInvariant`: the bytes are the encoded text (`TextInv`), for one more code point is
  written behind the others (`EncodesMore`).
* `AlwaysReadsBack`: the first byte of a code point tells how many they are, no other byte of it
  can be taken for a first one, and its groups of six bits make it again (`IsCode`, by
  `Encodes` and `DecodedIs`). The loop of `utf8_to_ucs4` uses at least one byte in each turn,
  so the recursion by which it is defined determines it (`DecodeIs`, with `Descent` of
  `ListLemmas`). It is at `At(places[k], i, j)` when the bytes of the first `k` code
  points lie behind it, whatever part `i` to `j` is read: on the way from one such place to the next
  it reads the code point (`ReadWhole`), or marks the bytes that are there of it
  (`ReadCut`), which gives `PartReadsBack` by induction over the code points. Bytes come back from
  hexadecimal digits (`HexIs`, `HexReadsBack`); and `EveryNumberRead` follows the cast through
  sign, digits, dot, digits, e, sign and power, each of them there or not, for any digits, and
  the lemmas hold for more numerals than the property names (`NumberIs`).

`LinkedListProofs`, for any lists, sizes and addresses, from `NodesAreAddresses` (finitely
many addresses, which are numbers, and nullptr is none):

* `LinksAreSequences`: `Spec => []Kept`. There are sequences of nodes, one for each list and
  no node in two places, such that the ends of every list are the first and last of its
  sequence, `next_` and `prev_` of every node are the neighbours there, every other address
  has none, and the iterator is at a node of a list or at `Nil` (`Holds`). There is a
  lemma for each operation (`PushBackAppends`, `PushFrontPrepends`, `ErasesOne`,
  `SpliceJoins`, `SwapChanges`, `ClearEmpties`, `IteratorMoves`) which names the
  sequences after it and shows that every link the code mends, and every link it leaves
  alone, is theirs. The sequence alone, the walk along `next_`, would not be enough: it
  is `prev_` at every node that makes the next erase right.
* `SequencesImplemented`: `Spec => ImplementsSequences`. The walk of the code, which follows
  `next_` at most as often as there are addresses, gives the sequence (`WalkGives`, by
  induction up to a number, `InductionUpTo` of `ListLemmas`, and `NotLonger`), so the steps
  above are those of `NodeSequences`. `ListsAreSequences` of `SequentialPartsProofs` takes
  this over to `ImplementsSequences` of `SequentialParts`.

Only model-checked:

* liveness, for the prover does not reach fairness: `EveryTaskServed` and `StopEndsRuns`
  of the delayed queue, `CancelWakesAll` and `EveryValueTaken` of the condition queue,
  `EveryJobOut` and `StopDetaches` of the logger;
* `MessagesPass` of `Layers` and `SearchTree` of `BTree`: lists in lists and nodes in nodes,
  whose invariants need induction over trees, and `BTree` has `RECURSIVE` operators.

## 8. Not modelled

* `queues/delayed/traits/winapi_condition.h`: Windows events in place of a condition
  variable; another set of wakeup rules.
* `cache/none.h`, `cache/shared.h`: no state, and a mutex around nothing new.
* `details/result.h`, `aligned_buffer.h`: storage and lifetimes, that is, language rules.
* `layers/traits/unique_pointers.h` and the moves of a layer: ownership; `observable.h`.
* Code points of 2^31 and more, which are written as nothing: beyond the integers of TLC.
  So are sizes of 2^31 and more, which only the proofs reach. zigzag of more than one byte.
  `sizepack/none.h` packs nothing.
* The casts of `lexical_cast.h` that a stream does, `endian.h`, `slices/`, `operators.h`,
  `type_uid.h`, `dummy_mutex.h`, `dumper/`, `console/`, `hash/`: conversions, views and
  output without state.
* `drafts/` other than the B-tree; of that, the functions nothing calls.
* `tree::erase`, which has no return statement: undefined whatever it does.
* Data races on plain members read without a lock (`tasks_size()`, `level_`): single
  loads and stores in the models.
