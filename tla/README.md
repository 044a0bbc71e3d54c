# A TLA+ model of the Zephyr publish subscribe framework

The framework (`src/lib/pub_sub`, `src/include/pub_sub`) passes reference counted messages from
publishers through a broker to subscribers; a hierarchical state machine library (`src/lib/hsm`) is
built on its subscribers. This directory holds TLA+ modules translated from that code, TLC
configurations that check them on small instances, and proofs for every value of the constants that
TLAPS checks. Paths and line numbers below are those of the repository in `src/`.

## 1. The system

### Components

| Component | Source | State | Operations |
|---|---|---|---|
| Broker | `lib/pub_sub/broker.c`, `broker.h` | publish fifo, `k_work_poll` work item, `sub_list_mutex`, subscriber list | init, publish, the work item `publish_work_handler` with `process_msg`, add and remove a subscriber |
| Subscriber list | `broker.c:22-68`, `subscriber.h` | a singly linked list sorted by type, then priority | add, remove, change a priority |
| Subscriber | `lib/pub_sub/subscriber.c`, `subscriber.h` | type (callback, msgq, fifo), queue, subscription bits, broker pointer, handler, priority | init, subscribe, unsubscribe, handle a queued message, forward to the next fifo subscriber, publish directly |
| Messages | `msg.h`, `msg_alloc.h`, `msg_alloc.c` | one atomic word: id, allocator id, 8-bit reference count; the fifo link word | new, acquire, release, fifo put and get; runtime allocators |
| Memory slab backend | `msg_alloc_mem_slab.c` | a `k_mem_slab` | allocate, free |
| Static and callback messages | `static_msg.h` | the message word, a callback | init, reuse, free by callback |
| Delayable messages | `lib/pub_sub/delayable_msg.c`, `.h` | a kernel timeout, a subscriber, the message | init, start, update, abort, the timer handler |
| State machine | `lib/hsm/hsm.c`, `.h` | `current_state`, `tmp_state`, a subscriber | init, start, dispatch, transition |
| Default broker, build, tests | `pub_sub.h`, Kconfig, `tests/` | | forward to the above |

Outside of the repository are the Zephyr primitives: `k_fifo`, `k_msgq`, `k_mutex` (reentrant, with
an owner), `k_work_poll`, `k_mem_slab` and kernel timeouts. They are modelled by what the code relies
on: atomic operations that wait where the code says `K_FOREVER`.

### How they interact

A publisher allocates a message (reference count 1), fills it and puts it into the broker's publish
fifo; that reference is now the broker's. The fifo triggers the work item, which runs in the system
work queue. It gets one message and walks the subscriber list under `sub_list_mutex`: a callback
subscriber's handler is called on the spot, a msgq subscriber gets a reference and the pointer
(waiting if its queue is full), and the first interested fifo subscriber gets a reference and the
message itself, linked through its one fifo word. After the walk the work item releases its reference
and submits itself again, at once if the publish fifo is not empty, else polling it.

A subscriber's thread calls `pub_sub_handle_queued_msg`: it gets a message, a fifo subscriber
forwards it under the mutex to the next interested fifo subscriber behind it in the list, then the
handler runs and the reference is released. Handlers may keep references of their own. Private
messages, with an id above the subscriber's largest public id, are put directly into a subscriber's
queue, or handled in the publisher's thread if it is a callback subscriber. Whoever releases the last
reference returns the message to its allocator.

A delayable message is published in this direct way by the kernel's timer interrupt. A state machine
is the handler of a subscriber; one message may make it leave and enter several states.

### What is hard

* Broker, forwarding threads, serving threads and retaining handlers release references in any order.
* A message has one link word but passes through several fifos, moved by different threads.
* The broker waits for room in a msgq with the mutex held.
* Adding and removing a subscriber writes the broker pointer outside of the lock and leaves the
  queue as it is, so that messages outlive a removal.
* Type order depends on the order in which subscribers are added.
* `sub_list_mutex` is reentrant, so the handlers the broker calls may change the list it walks.
* The reference counter shares an atomic word with the ids; the last holder finds out where a message
  came from after it has given up its reference, while allocators are being added without a lock on
  this side.
* The timer interrupt races with abort and update.
* A transition between two states of a hierarchy is a long sequence of calls with three loops and
  off-by-one relations between them.

PROJECT.json lists these hazards at their lines with the properties that cover them.

### What makes each component correct

* List: no duplicates; types contiguous and in order; sorted within a type by the priorities its
  subscribers were added with.
* Broker and subscribers: every publication reaches exactly the subscribers that want it, in list
  order and, on a path, in publication order; it stays allocated until all have handled it; the
  broker never misses a publication; list and saved positions are used under the lock only.
* Messages: the reference count is the number of references; a message is free iff it is 0; it is in
  one fifo at a time; its ids do not change while it is in use, and it goes back to the allocator or
  the owner it came from, once.
* Delayable messages: a 0 calls off one reception, an error none; nothing started is lost.
* State machine: active states are the path of the current state; entry outermost first, exit
  innermost first, common parents untouched; every message is handled to the end.

## 2. The modules

| Module | Models |
|---|---|
| `SubscriberOrder` | the pure list operators: where an added subscriber goes, removal, next |
| `SubscriberList` | any sequence of add, remove and priority changes |
| `BrokerWalk` | extends it with the broker's walk and the handlers that change the list meanwhile |
| `Delivery` | the abstract promise: who handles a publication, in which order, when it is released |
| `PubSub` | broker, subscribers, messages and their threads, step by step; implements `Delivery` |
| `MsgAlloc` | the message word, allocators of both kinds, slabs, static and callback messages |
| `DelayableMsg` | one delayable message, its timer interrupt and its subscriber |
| `Hsm` | the state machine library |
| `MCBrokerWalk`, `MCPubSub`, `MCMsgAlloc`, `MCHsm` | values of the constants for TLC |
| `SubscriberOrderProofs`, `SubscriberListProofs`, `DeliveryProofs`, `PubSubProofs`, `PubSubMessageProofs`, `MsgAllocProofs`, `DelayableMsgProofs`, `HsmProofs` | lemmas and theorems |

`SubscriberListProofs` is about `SubscriberList` and `BrokerWalk`. `PubSubProofs` is about what `PubSub`
holds and counts: types, roles, the lock, the list, references, links; `PubSubMessageProofs` extends it
with what the subscribers get and in which order.

Operators whose comment starts with "Mutant" are not part of the model: each is a form that a mapped
definition would have with a plausible bug in the code, and the property it is paired with in
PROJECT.json fails under it.

### SubscriberOrder, SubscriberList

The list is a sequence. `InsertPos` is where the two search loops of
`pub_sub_add_subscriber_to_broker` stop: the first looks for a subscriber of the same type, and runs
to the end if there is none; the second, within the type, for a larger priority value. All changes are
made under the mutex, so each call is one step of `SubscriberList`; `PubSub` splits the calls at the
lock and uses the same operators.

Two history variables keep apart what `subscriber.h:179` confuses: `addedPriority` is the priority a
listed subscriber was added with, and `reprioritized` the types of which a listed subscriber has been
given another one since. The broker goes by the priorities of the moment, so the promises about
priorities are made for the types that are not in `reprioritized`; the run `priority_changed` shows what
happens to the others.

### BrokerWalk

`sub` and `tmp` are the iterator of `process_msg` and its saved next node. Between walks anybody may
change the list; during a walk the handler of the callback subscriber it is at may, since it runs in
the thread that owns the mutex. Which subscribers want the message is left open: a walk may end after any
fifo subscriber, by `fifo_sub_handled`, or go past it (`MayBreak`), and ends at the end of the list.
`due` and `passed` record the subscribers that were listed when the walk began and have not been removed
since, those it still has to come to and those it has left. A handler may remove itself or any other
subscriber and the walk goes on as it should, with one exception: if it removes the one in `tmp`, the
broker still visits that one (`RemovedNext.cfg`), finds a null next pointer behind it and stops, so
those behind it miss the message. The history is then cleared and `WalkVisitsAll` and `VisitedOnce`
promise nothing.

### Delivery

Three variables: the ids `published`, the publications each subscriber has `handled`, and those whose
message has been `reclaimed`. `Handle` says when a subscriber may handle a publication: it is a
recipient, has not handled it, it is its turn (`IsNext`: for a callback or msgq subscriber what was
published first, for a fifo subscriber what was published first among what comes through the same fifo
subscribers), and the broker has been able to pass the others (`PassedByBroker`: callback subscribers
ahead have handled it, and no msgq subscriber owes more than a full queue and one message at hand).
`PubSub` implements it with `published <- pubs`, `handled <- log` and `reclaimed` the publications no
allocated message carries: `ImplementsDelivery`, for a fixed configuration (`Managed = {}`). The module
ends with what this means to an application, which `DeliveryProofs` proves.

### PubSub

| Variables | Code |
|---|---|
| `free`, `ref`, `id`, `retained` | the slab, the two fields of the message word, references kept by handlers |
| `pubFifo`, `mutex`, `list` | `publish_fifo`, owner of `sub_list_mutex`, `subscribers` |
| `hasBroker`, `subscribed`, `queue` | `subscriber->broker` not NULL, subscription bits, msgq or fifo |
| `bpc`, `bmsg`, `bsub`, `bnext` | the work item: its step, `msg`, `sub` and the iteration's saved next node |
| `tpc`, `tmsg`, `tsub`, `tnext` | the same for each thread |
| `pubs`, `seqno`, `log` | history: what was published, by which message, what each subscriber handled |

The work item goes armed, get, lock, visit (call or put, as the subscriber's type demands), unlock,
release, submit. A thread goes from idle through a publish, a direct publish, the handling of a queued
message (forwarding: read the broker pointer, lock, search, put) or a reconfiguration, one step for
each access to shared state. Steps that cannot continue are steps of their own: `"null broker"` is the
thread that has read a null broker pointer and is about to lock a mutex through it, `"not a fifo"` one
that is about to put a message into something that is not a fifo. Threads are given roles by
`Publishers`, `Managers` and `Server`; a subscriber's thread is the only one to serve it, and one
thread may serve several.

Three simplifications are made up for elsewhere. Callback handlers do not change the list here, so
`WalksUnderLock` is about the other threads; handlers that do are what `BrokerWalk` is about. The counter
has no limit here; `MsgAlloc` has its 8 bits. A search for the next fifo subscriber is one step, although
subscription bits, which are changed without the lock, may change in the middle of it; no property depends
on which of two unordered changes it sees.

Abstracted: message contents, sizes and timeouts other than forever; poll events; the assertions,
where the model's guards are what they demand. A broker and its subscribers are initialized, and the
list is filled, before anything happens, which is the initial state.

### MsgAlloc

| Variables | Code |
|---|---|
| `word` | `atomic_data`, a record of message id, allocator id and counter |
| `slab` | the free blocks of each `k_mem_slab` |
| `allocId`, `table`, `num`, `mutex` | `allocator_id` of run-time allocators and `g_runtime_allocators` |
| `ready` | the callback messages their owners have been called back for |
| `pc`, `obj` | a thread between two steps of adding an allocator, or past `atomic_dec` to 0 |
| `refs` | history: who holds a reference |

`Inc` and `Dec` act on the whole word, so that a counter at its limit carries into the allocator id and
one at 0 borrows from it; `RefMax` is its largest value (255) and `RuntimeOffset` half the number of
allocator ids (0x80), which puts the special ids at the same distances from the end as in `msg_alloc.h`.
The code's assertion that the counter has room is off by default and blocks nothing in the model; that it
holds is the property `NoRefOverflow`. The guard of `Drop` is a holder. Two guards are duties of the
application: it re-uses a static message when the counter is 0 (`Unused`; `README.md` asks for it) and a
callback message when it has been called (`CalledBack`). For a callback message a counter of 0 is not
enough: the thread that is about to call back has yet to read the word. `NewMsg` needs what the code's
assertion needs, an allocator with an id (`HasId`). That is the case in the middle of adding, too, and
the constant `AddedFirst` says whether the application waits for the end of it, as the `@warning` of
`msg_alloc.h:47` wants. Run-time ids are cut to 8 bits like the code's and may reach the special ones:
with the id of the linker section allocators, a message's id is the difference of unrelated pointers and
so arbitrary (`IdsOf`). An allocator may be added twice.
An allocation that times out, an add to a full table (`-ENOMEM`) and a second
initialization of the same allocator change nothing or are not done. `static_msg.h:80` and `:99` and
`msg.h:38` say that initialization sets the reference counter to 1; the code sets it to 0, as the model
does, and the README's example acquires the message before it publishes.

### DelayableMsg

`linked` is the kernel's queue of timeouts. `timer` is the interrupt: the kernel unlinks the timeout
(`Expire`), then the handler acquires a reference and publishes. Calls go through abort, check and add,
one step for each access: `z_abort_timeout`, `pub_sub_msg_get_ref_cnt`, `z_add_timeout`. They come from
the subscriber's thread, in and between handlers, and from a callback subscriber's handler in the
interrupt itself. `Smp` tells whether the thread runs during an interrupt. `expected` is what a caller
has started and not called off by an abort that returned 0. `README.md:191` of the repository requires the subscriber to handle
a queued message before it times out again; the guard `InTime` assumes so of
messages in the queue, not of one that is being handled. Calls from a third thread,
for which the README asks for a mutex of the application's own, are left out.

### Hsm

Each call of a state function is one step. `parents` is the local array with the terminating NULL,
`left` is the index the entering loop starts from and counts down. A message may be consumed, passed
up or answered with a transition to any state, also one that the current state's parent asks for.
`HierarchyAssumption` bounds the states on a path by `CONFIG_HSM_MAX_NESTED_STATES`, as Kconfig
describes it: it asks for depths up to that number which increase from a state to its children. What a state function does to other components, a nested dispatch included, is left out.

## 3. The runs

| Run | Instance | Shows |
|---|---|---|
| `subscriber_list` | 3 callback, 1 msgq and 2 fifo subscribers, 2 priorities for the callback ones, walks whose handlers add and remove | the list's promises over every sequence of calls; the walk comes to each subscriber that stays, once, unless a fifo subscriber ends it before |
| `delivery` | c1, q1, f1, f2 with a thread each, 1 publisher, a handler that keeps references, 3 publications of 2 ids, 2 messages, fairness | counting, one fifo, list order, no lost wakeup, the refinement `ImplementsDelivery`; everything is handled and reclaimed |
| `reconfigure` | c1, q1, q2, f1 and 2 publishers, who also publish private messages directly to each type, while q2 is removed, added, subscribed and unsubscribed | counting and order with messages that bypass the broker; the others miss nothing, the list is walked under the lock |
| `msg_alloc` | 2 threads, a slab of one block in the linker section, one of a run-time allocator, 3 run-time allocators for a table of 2, a static and a callback message, 3 holders for a counter that ends at 3, `AddedFirst` | counts, ids and returns of messages |
| `hsm` | all hierarchies of 5 states (up to names), 3 levels | the state machine's promises |
| `delayable` | each type of subscriber, 5 calls, a msgq of 2 with another message in it | return values, counting, settling |

Bounds. Three callback subscribers and two priorities put a new one before, between and behind others
of its type, and let a handler remove itself, the one passed, the next one and one further on. A msgq of
one place makes the broker wait at the second message. Two messages are enough for
one to be reused while the other is under way, and for one to overtake the other. The
broker then waits with one while the other fills the queue; a message at hand, one in the queue and a third
one waiting, the furthest that `PassedByBroker` lets a msgq subscriber fall behind, do not fit. Two fifo subscribers, with different subscriptions, are the least that
forward. Five states are the least with two branches of two below a common parent, and three levels fill
the array of parents to its end. Five calls of a delayable message are a start, an update that finds the
message in the queue, and three more while two receptions are outstanding. In `msg_alloc` the table is
as long as the ids allow, the counter can be filled, and one allocator more asks for a place than there
is; nothing in it needs a bound on steps. `RuntimeIds.cfg`, `RefLimit.cfg` and `EarlyNewMsg.cfg` go one step beyond
each of these: one more place in the table, one less in the counter, allocating while adding. `MaxPublish` and `MaxCalls`
are the only bounds on counters. Deadlock is checked everywhere but in `delayable`, where nothing
happens once the calls are made; `Quiescent` in `PubSub` is the end of a bounded run, when everything
is handled and free.

Fairness. The work queue and every thread run whenever they can (`WF` of `BrokerStep` and of
`ThreadStep(t)`: each is one sequential program whose next step, once possible, stays possible until
it is taken, apart from the mutex and full queues, which are released by others that progress). A
publisher is not made to publish. A kept reference is released some day, which the repository's
README demands of the application. In `delayable` time passes, and the interrupt and the
thread run; in `hsm` the thread that dispatches does. No strong fairness is assumed.

### Where code and documents disagree

These runs end in a counterexample, which is the finding:

| Run | Property | What happens |
|---|---|---|
| `fifo_order` | `InOrder` | a fifo subscriber behind another gets messages out of publication order, against "Messages are received by subscribers in the order published" (`README.md:5`); `InOrderAlongPath` of `Delivery` is what does hold |
| `shared_thread` | `FifoNeverBlocksBroker` | one thread serves a msgq and a fifo subscriber: it waits for the mutex to forward, the broker holds the mutex and waits for room in that thread's msgq |
| `remove_fifo` | `NoNullBroker` | a fifo subscriber removed with a message in its queue reads a null broker pointer when it forwards it |
| `readd_msgq` | `ForwardsToFifoOnly` | the last msgq subscriber, removed and added back, lands behind the fifo group, and a fifo subscriber puts a message into its `k_msgq` pointer |
| `priority_changed` | `PriorityOnlyWhenAdded` | a priority changed after adding decides where later ones go, against "has no effect" (`subscriber.h:179`) |
| `delayable_smp` | `AbortedNotReceived` | an abort on another processor, between the kernel's unlinking of the timeout and the acquired reference, returns 0 and the message is received all the same |

The next ones are configurations beside these runs, for `tlc -config <configuration> <module>`; each also ends in a
counterexample. They show what the passing runs and the theorems leave out, be it that a property says less than a document
does, or that something is assumed of the application:

| Configuration | Module | Property | What happens |
|---|---|---|---|
| `RemovedReceives.cfg` | `MCPubSub` | `RemovedReceivesNothing` | a msgq subscriber gets a publication from its queue after its removal has returned, against `broker.h:51` |
| `RemoveFifoLost.cfg` | `MCPubSub` | `OthersMissNothing` | a fifo subscriber removed between reading its broker pointer and taking the lock has no next node any more; the fifo subscriber behind it never receives the message |
| `RemovedNext.cfg` | `MCBrokerWalk` | `VisitsListedOnly` | a callback handler removes the subscriber the walk has saved as the next, and the walk visits it |
| `FifoFirst.cfg` | `MCBrokerWalk` | `OthersBeforeFifo` | a callback or msgq subscriber listed behind a fifo subscriber (`readd_msgq` shows how) gets no message the fifo subscriber takes: the walk breaks off, against "fifo subscribers are all at the end of the list" (`broker.c:115`) |
| `AbortInHandler.cfg` | `DelayableMsg` | `RefusedIsReceived` | abort in the message's own handler returns `-EINVAL` with nothing to come, against `delayable_msg.h:110`; `RefusedOnlyInUse` is what does hold |
| `FiredInHandler.cfg` | `DelayableMsg` | `NotInUseWhenFired` | a message started from its own handler, as `README.md:194` recommends, fires before the handler returns: the assertion of `delayable_msg.c:64` fails though nothing is queued |
| `RuntimeIds.cfg` | `MCMsgAlloc` | `ReleaseFindsAllocator` | the run-time allocator after the last possible one (in the code the 125th) gets the id of the linker section allocators; nothing in Kconfig excludes it |
| `EarlyNewMsg.cfg` | `MCMsgAlloc` | `ReturnedOnce` | an allocator has an id, and passes the check of `pub_sub_new_msg`, before it can be found: a message allocated and released in between is lost |
| `RefLimit.cfg` | `MCMsgAlloc` | `NoRefOverflow` | nothing keeps the counter below its limit but an assertion that is off by default |

`SortedByTypeKept` states the precondition on adding under which the type order that the broker relies
on does hold.

## 4. The proofs

All are checked by tlapm; TLC checks the same formulas, and the inductive invariants behind them, first.

* `SubscriberOrderProofs`: what inserting and removing do to a sequence: length, elements, the position
  of every old element, the order of those that stay, the orders by type and by priority, the next node.
* `SubscriberListProofs`: all safety properties of `SubscriberList` and `BrokerWalk`.
  * `TypeCorrect`: the list is a sequence of subscribers without duplicates. It is inductive as stated.
  * `AlwaysGrouped`: the subscribers of a type are contiguous. Inductive together with the type
    invariant: insertion goes to the end of the list or next to a subscriber of its own type, never
    inside another group.
  * `AlwaysSortedAsAdded`, `AlwaysSortedByType`, `AlwaysNewestLast`: the orders. The two about priorities
    need `AlwaysGrouped`: the second search loop stops at the end of its group, and only a contiguous
    group has one end. They also need that of a type outside of `reprioritized` the listed subscribers
    have the priorities they were added with.
  * `WalkKeepsListRules`: `WalkSpec => Spec`, so all of these hold of a list that is being walked.
    `WalkMissesNobody` (but for those behind a fifo subscriber that ends the walk) and
    `WalkRepeatsNobody` (but for those removed and added again) follow from `AlwaysWalkInv`: who is still due, but for the
    one the walk is at, is at the saved next node or behind it, and who has been passed is before it.
* `PubSubProofs`, for any subscribers, threads, roles and reconfigurations:
  * `TypeCorrect`: `Spec => []TypeOK`. The last parts of `TypeOK` (`Fits`, the broker's message and
    subscriber at each step, the msgq bound) make it inductive: a step's primed values have their types
    only because the step finds what it works on.
  * `LockDiscipline`: `Spec => []WalksUnderLock`, for callback handlers that leave the list alone. `OwnerWalks`, that the owner of the mutex is exactly
    the one at a walking step, and `WalkInList` need each other: the list changes only in steps that
    find the mutex free, so not while the broker is at a subscriber, and the saved next node stays the
    next one.
  * `WorkItemSeesAll`: `Spec => []NoLostWakeup`, inductive with the type invariant: submitting arms the
    work item only if the fifo is empty, and a put into the fifo of an armed work item triggers it.
  * The lemma `RolesKept`: each thread stays within its role, and a callback subscriber's queue is empty.
  * `ListAgreesWithBroker`: no duplicates in the list, who is in it has a broker pointer, and who is
    about to be forwarded to is in it. It holds while no two threads reconfigure the same subscriber at
    once (`OneAtATime`), which the code leaves to its users: two concurrent adds of one subscriber would
    link its node twice. The lemma `OneManagerIsEnough` says that one reconfiguring thread, as in the runs, is
    such a use.
  * `SortedTypesForwardToFifos` and `ForwardedToFifos`: `ForwardsToFifoOnly` needs no more than a list
    sorted by type, and `TypesStaySorted`, a condition on the constants, keeps it sorted: each
    reconfigured callback or msgq subscriber has one of its type that always stays. The run
    `readd_msgq` shows what happens without.
  * `ReferencesCounted`: `Spec => []RefCountExact`, with no hypothesis. `References` is a sum of
    cardinalities, one for each kind of holder; the inductive invariant `AllCounted` adds that the sets
    are finite, for any sets of threads and subscribers, and the claims of `LinkedOnce`.
  * `LinkedOnce`: `Spec => []OneFifo`. What makes it inductive is who may still link it: the fifos,
    the broker before the end of its loop, and the threads that have not given it away have it at most
    once in total (`Claims`).
  * `OwnerHasItAlone`: before it is published a message has one reference, so no other step can reach it.
* `PubSubMessageProofs`, about what the subscribers get:
  * `BrokerDeliversInOrder`: `InOrderFromBroker` through every reconfiguration. The strengthening
    `OrderInv` is about what is still to come: the publications that a subscriber has handled, is
    handling and has in its queue increase in this order, those in the publish fifo increase and are
    larger than all of them and than the broker's, and the broker's is larger than those of a
    subscriber it has yet to come to.
  * `NobodyElseMisses`: `OthersMissNothing`, while others are reconfigured. The invariant
    `MissesNothing` says where each message in use is, for a subscriber that stays and wants it: handled,
    at hand or in its queue (`Has`), or on its way to it (`Coming`), that is in the publish fifo, with
    the broker that has yet to come to it, or with a fifo subscriber ahead of it that will forward it.
    So the message cannot be reclaimed before. It needs the lock discipline (whoever searches the list
    finds the next one), `LinkedOnce` and `ReferencesCounted`. Two hypotheses: `OneAtATime`, and that no
    fifo subscriber is reconfigured, since one that is removed with a message in its queue does not
    forward it (the run `remove_fifo`, and `RemoveFifoLost.cfg`). A thread that cannot go on keeps its message, so nothing has to
    be assumed about those.
  * `DeliveredInListOrder`: `ReceivedInListOrder`, for a fixed configuration (`Managed = {}`). The
    invariant `Fresh` says that a message that is still to come to a subscriber (`Pending`: it waits, or
    the broker, a queue or a thread ahead has it to pass on) has not been received by it. That a message
    is with one of these only is what the counts of `LinkedOnce` give. Together with `MissesNothing`: if
    somebody behind has received it, it is not pending for those ahead any more, so they have it.
* `DeliveryProofs`: from `Delivery`'s steps, for any list, subscriptions and publications:
  `AlwaysInOrder`, `AlwaysCallbacksFirst`, `AlwaysReclaimedLast`. The order is not
  inductive. The strengthening `NoGaps` is: whatever a subscriber had to handle before a publication it
  has handled, it has handled. So the publication it handles next cannot be earlier than one it has
  handled.
* `MsgAllocProofs`: all properties of the run, for any widths, numbers of threads, allocators, slabs
  and messages, under three hypotheses that the code leaves to its users: `IdsFit` (run-time ids stop
  short of the special ones, in the code 124 allocators), `HoldersFit` (no more references than the counter
  counts) and `AddedFirst`; `RuntimeIds.cfg`, `RefLimit.cfg` and `EarlyNewMsg.cfg` show each of them
  broken. `RuntimeIdsAreFinal` needs the first only. The theorems: `TypeCorrect`, `AlwaysCountExact`, `AlwaysFindsAllocator`, `AlwaysReturnedOnce`,
  `IdentityIsKept`, `RuntimeIdsAreFinal`. The inductive invariant has two parts. `TableInv` ties the
  table to the ids: the first `num` entries are allocators, one with an id that is not being added is found
  at the place its id says, even if it has been added twice, and
  only the thread that owns the mutex is past the next one. `MsgInv(m)` is for one message: the counter
  is the number of holders; while it is held or being freed its word leads to where it came from, in a
  part of the table that does not change any more; and it is in its slab, held, or in the hands of one
  thread that frees it, never two of these. Counting alone would not do: that the last holder may read
  the word after its decrement needs that nobody gets the message before it is freed.
* `DelayableMsgProofs`:
  * `TypeCorrect` and `CountsReferences`: `Spec => []TypeOK` and `Spec => []RefCountExact`. Neither is
    inductive alone: that the count does not fall below 0 follows from what it counts. They hold with
    and without `Smp`.
  * `RefusesOnlyInUse`: `Spec => RefusedOnlyInUse`, from `CountsReferences`, on any number of processors.
  * `CallsOffWhatItSays` and `AddsAreLegal`, both for one processor (`~Smp`): `Spec =>
    []ReturnsTellWhatIsToCome` and `Spec => []NeverAddedTwice`. The strengthening `Known` says what holds
    in the middle of a call: past `z_abort_timeout` the timeout is unlinked, so no interrupt can come in
    between (`Alone`), and the reception taken back is still expected until the return value is known
    (`Expected`). The run `delayable_smp` shows that the assumption is needed.
* `HsmProofs`: all safety properties of the run, for any set of states and every hierarchy that fits into
  `CONFIG_HSM_MAX_NESTED_STATES`: `TypeCorrect`, `ActiveBetweenMessages`, `CommonParentsKept`,
  `EntryAndExitNest`. `Inv` says at each step of a transition what `parents` holds and what is active: a
  chain from the new state up, as far as `tmp_state`; while leaving, the path of the state that is left
  next; while entering, the path of the next parent's parent, which `left` counts down to. That the array
  is long enough is a matter of depth: a function that increases from each state to its children is
  what `HierarchyAssumption` gives, and it bounds every chain. `Path` is the least set closed under
  parents, not a recursion, so that it can be reasoned about.

Assumptions are those on the constants, named in the modules: types, a msgq of at least one place,
ids of 16 bits, `None` and `WorkQ` not among subscribers, threads and messages. There is no assumption
that a set is small or, unless stated so, finite.

Only model-checked, and why:

* `RunsToCompletion`, `EventuallyHandled`, `EventuallyReclaimed`, `EventuallySettled`: liveness under
  fairness is out of the prover's reach.
* `ImplementsDelivery` of `PubSub`: not proved yet. `NobodyElseMisses`, `DeliveredInListOrder` and
  `BrokerDeliversInOrder` are parts of it; what is missing is the order in which one fifo subscriber
  gets what comes along the same path, and the bound on what a msgq subscriber owes when the broker is
  past it. So the theorems of `DeliveryProofs` hold of the code as far as `ImplementsDelivery` has been
  checked.

## 5. Not modelled

* State functions that publish to their own machine, and callback handlers that publish to their own
  subscriber: a dispatch inside a dispatch.
* A handler that waits for a free message, and timeouts of `pub_sub_handle_queued_msg`, whose only
  effect is that it is called again.
* Delayable messages whose subscriber lets them time out twice before it handles them, and a timer
  interrupt that would have to wait for room in a msgq.
* An owner that initializes a static message again while it is in use, against the README.
* Replacing a subscriber's handler while it is in use.
* Poll events, the default broker, linker sections, initialization order, the tests: wiring without
  state of its own.

## 6. Plan

In order:

1. The proof of `ImplementsDelivery`: `IsNext` from the order of publications along the fifo
   subscribers' paths, `PassedByBroker` from the number of messages a msgq subscriber owes, and
   `Reclaim` from `MissesNothing`.
2. `Hsm` against a machine that changes state in one step; a dispatch inside a dispatch.
3. Allocation that blocks inside handlers.
