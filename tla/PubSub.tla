-------------------------------- MODULE PubSub --------------------------------
(***************************************************************************)
(* One broker, its subscribers, one allocator and the threads that use     *)
(* them: the path of a message from pub_sub_new_msg through the broker's   *)
(* work item (publish_work_handler, process_msg), the queues and fifos of  *)
(* the subscribers (pub_sub_handle_queued_msg,                             *)
(* send_to_next_fifo_subscriber), direct delivery                          *)
(* (pub_sub_publish_to_subscriber) and back to the allocator, while        *)
(* subscribers are added, removed, subscribed and unsubscribed.            *)
(*                                                                         *)
(* A step is what one thread does between two points where another thread  *)
(* can see or change something: taking sub_list_mutex, blocking in         *)
(* k_msgq_put, putting into and getting from a queue, changing a reference *)
(* count.                                                                  *)
(***************************************************************************)
EXTENDS SubscriberOrder, FiniteSets

CONSTANTS
    Priority,       \* subscriber->priority when it is added
    MaxPubId,       \* subscriber->max_pub_msg_id
    MsgqLen,        \* capacity of a msgq subscriber's k_msgq
    Threads,        \* the application's threads
    WorkQ,          \* the system work queue thread, which runs the broker
    Server,         \* the thread that calls pub_sub_handle_queued_msg
    Publishers,     \* threads that allocate and publish
    Managers,       \* threads that reconfigure subscribers ...
    Managed,        \* ... and the subscribers they reconfigure
    Retainers,      \* subscribers whose handler may keep a reference
    Msgs,           \* the blocks of the message allocator
    MsgIds,         \* the message ids in use
    InitList,       \* the list after the initialization phase
    InitSubscribed, \* the subscriptions after the initialization phase
    MaxPublish      \* bound: messages published to the broker

ASSUME NoneAssumption == None \notin Subs \cup Threads \cup Msgs \cup {WorkQ}
ASSUME WorkQAssumption == WorkQ \notin Threads
ASSUME MsgqLenAssumption == MsgqLen \in Nat \ {0}
ASSUME SomeMsgIdAssumption == MsgIds # {}
ASSUME MsgIdsAssumption == MsgIds \subseteq 0..65535
ASSUME SubscriberAssumption ==
    /\ Priority \in [Subs -> 0..255]
    /\ MaxPubId \in [Subs -> 0..65535]
    /\ Server \in [Subs -> Threads]
ASSUME ManagedAssumption == Managed \subseteq Subs
ASSUME InitAssumption ==
    /\ InitList \in Seq(Subs)
    /\ \A i, j \in 1..Len(InitList) : InitList[i] = InitList[j] => i = j
    /\ InitSubscribed \in [Subs -> SUBSET MsgIds]
    /\ \A s \in Subs : \A i \in InitSubscribed[s] : i <= MaxPubId[s]

VARIABLES
    free,       \* blocks in the allocator
    ref,        \* reference counter of each message
    id,         \* message id of each message
    pubFifo,    \* broker->msg_publish_fifo
    mutex,      \* owner of broker->sub_list_mutex
    list,       \* broker->subscribers
    hasBroker,  \* subscriber->broker # NULL
    subscribed, \* subscriber->subs_bitarray
    queue,      \* subscriber->msgq or subscriber->fifo
    retained,   \* messages a subscriber holds a reference to
    bpc, bmsg, bsub, bnext,     \* the work item: step, msg, sub, tmp
    tpc, tmsg, tsub, tnext,     \* a thread: step, msg, subscriber, next_sub
    pubs,       \* history: the ids published to the broker
    seqno,      \* history: which publication a message carries, 0 for none
    log         \* history: the publications each subscriber has handled

msgVars    == <<free, ref, id, retained>>
brokerVars == <<bpc, bmsg, bsub, bnext>>
threadVars == <<tpc, tmsg, tsub, tnext>>
configVars == <<list, hasBroker, subscribed>>
history    == <<pubs, seqno, log>>
vars == <<msgVars, pubFifo, mutex, configVars, queue, brokerVars, threadVars, history>>

BrokerSteps == {"armed", "get", "lock", "visit", "call", "put", "unlock", "release", "submit"}
ThreadSteps == {"idle", "owns", "direct", "directput", "handle", "forward", "lock",
                "search", "fput", "remove", "clear", "add", "null broker", "not a fifo"}

Init ==
    /\ free = Msgs
    /\ ref = [m \in Msgs |-> 0]
    /\ id \in [Msgs -> {CHOOSE i \in MsgIds : TRUE}]
    /\ pubFifo = <<>>
    /\ mutex = None
    /\ list = InitList
    /\ hasBroker = [s \in Subs |-> s \in ToSet(InitList)]
    /\ subscribed = InitSubscribed
    /\ queue = [s \in Subs |-> <<>>]
    /\ retained = [s \in Subs |-> {}]
    /\ bpc = "armed" /\ bmsg = None /\ bsub = None /\ bnext = None
    /\ tpc = [t \in Threads |-> "idle"]
    /\ tmsg = [t \in Threads |-> None]
    /\ tsub = [t \in Threads |-> None]
    /\ tnext = [t \in Threads |-> None]
    /\ pubs = <<>>
    /\ seqno = [m \in Msgs |-> 0]
    /\ log = [s \in Subs |-> <<>>]

-----------------------------------------------------------------------------
(* Shared operations.                                                      *)

(* Mutant: the bound on message ids is strict.                             *)
WantsBelowMax(s, m) == id[m] < MaxPubId[s] /\ id[m] \in subscribed[s]

(* (msg_id <= sub->max_pub_msg_id) && atomic_test_bit(subs_bitarray, id)   *)
Wants(s, m) == id[m] <= MaxPubId[s] /\ id[m] \in subscribed[s]

(* Mutant: no reference is taken.                                          *)
NoAcquire(m) == UNCHANGED <<ref, free>>

(* pub_sub_acquire_msg; that the counter has 8 bits is MsgAlloc's subject. *)
Acquire(m) == ref' = [ref EXCEPT ![m] = @ + 1] /\ UNCHANGED free

(* Mutant: the value dec_ref_cnt returns is taken for the new one.         *)
ReleaseAtZero(m) ==
    /\ ref' = [ref EXCEPT ![m] = @ - 1]
    /\ free' = IF ref[m] = 0 THEN free \cup {m} ELSE free

(* pub_sub_release_msg: whoever drops the last reference frees.            *)
Release(m) ==
    /\ ref' = [ref EXCEPT ![m] = @ - 1]
    /\ free' = IF ref[m] = 1 THEN free \cup {m} ELSE free

Handled(s, m) == log' = [log EXCEPT ![s] = Append(@, seqno[m])]

(* Mutant: a full queue is found one message too late.                     *)
HasRoomForOneMore(s) == RxType[s] = "msgq" => Len(queue[s]) <= MsgqLen

(* k_msgq_put with K_FOREVER waits for this; a fifo has no limit.          *)
HasRoom(s) == RxType[s] = "msgq" => Len(queue[s]) < MsgqLen

Put(s, m) == queue' = [queue EXCEPT ![s] = Append(@, m)]

(* Mutant: no lock is taken.                                               *)
NoLock == TRUE

(* k_mutex_lock waits until nobody owns sub_list_mutex.                    *)
MutexFree == mutex = None

(* Thread t goes to step pc with what it works on.                         *)
Goto(t, pc, m, s, next) ==
    /\ tpc' = [tpc EXCEPT ![t] = pc]
    /\ tmsg' = [tmsg EXCEPT ![t] = m]
    /\ tsub' = [tsub EXCEPT ![t] = s]
    /\ tnext' = [tnext EXCEPT ![t] = next]

Return(t) == Goto(t, "idle", None, None, None)

-----------------------------------------------------------------------------
(* Publishing threads (and ISRs: nothing here blocks but a full msgq).     *)

(* pub_sub_new_msg: the block's counter is set to 0, then acquired.        *)
NewMsg(t, m, i) ==
    /\ tpc[t] = "idle" /\ t \in Publishers
    /\ m \in free
    /\ Len(pubs) < MaxPublish
    /\ free' = free \ {m}
    /\ ref' = [ref EXCEPT ![m] = 1]
    /\ id' = [id EXCEPT ![m] = i]
    /\ seqno' = [seqno EXCEPT ![m] = 0]
    /\ Goto(t, "owns", m, None, None)
    /\ UNCHANGED <<retained, pubFifo, mutex, configVars, queue, brokerVars, pubs, log>>

(* Mutant: the newest message is processed first.                          *)
PubFifoPutFirst(m) == pubFifo' = <<m>> \o pubFifo

PubFifoPut(m) == pubFifo' = Append(pubFifo, m)

(* pub_sub_publish_to_broker: a put into the fifo the work item polls      *)
(* submits the work item.                                                  *)
Publish(t) ==
    /\ tpc[t] = "owns"
    /\ Len(pubs) < MaxPublish
    /\ PubFifoPut(tmsg[t])
    /\ bpc' = IF bpc = "armed" THEN "get" ELSE bpc
    /\ pubs' = Append(pubs, id[tmsg[t]])
    /\ seqno' = [seqno EXCEPT ![tmsg[t]] = Len(pubs) + 1]
    /\ Return(t)
    /\ UNCHANGED <<msgVars, mutex, configVars, queue, bmsg, bsub, bnext, log>>

(* The owner releases a message it does not publish.                       *)
Discard(t) ==
    /\ tpc[t] = "owns"
    /\ Release(tmsg[t])
    /\ Return(t)
    /\ UNCHANGED <<id, retained, pubFifo, mutex, configVars, queue, brokerVars, history>>

(* pub_sub_publish_to_subscriber; the guard is its assertion.              *)
PublishTo(t, s) ==
    /\ tpc[t] = "owns"
    /\ id[tmsg[t]] > MaxPubId[s]
    /\ \/ /\ RxType[s] = "callback"
          /\ Goto(t, "direct", tmsg[t], s, None)
          /\ UNCHANGED queue
       \/ /\ RxType[s] = "msgq"
          /\ Goto(t, "directput", tmsg[t], s, None)
          /\ UNCHANGED queue
       \/ /\ RxType[s] = "fifo"
          /\ Put(s, tmsg[t])
          /\ Return(t)
    /\ UNCHANGED <<msgVars, pubFifo, mutex, configVars, brokerVars, history>>

(* k_msgq_put with K_FOREVER: waits while the queue is full.               *)
DirectPut(t) ==
    /\ tpc[t] = "directput"
    /\ HasRoom(tsub[t])
    /\ Put(tsub[t], tmsg[t])
    /\ Return(t)
    /\ UNCHANGED <<msgVars, pubFifo, mutex, configVars, brokerVars, history>>

-----------------------------------------------------------------------------
(* The broker's work item: publish_work_handler and process_msg.           *)

(* Mutant: the next subscriber is passed over.                             *)
AdvanceTooFar(sub) == bsub' = NextOf(list, sub) /\ bnext' = NextOf(list, NextOf(list, sub))

(* SYS_SLIST_FOR_EACH_CONTAINER_SAFE: the next one is saved beforehand.    *)
Advance(sub) == bsub' = sub /\ bnext' = NextOf(list, sub)

(* The fifo is empty, or the next message is processed.                    *)
BrokerGet ==
    /\ bpc = "get"
    /\ \/ pubFifo = <<>> /\ bpc' = "submit" /\ UNCHANGED <<pubFifo, bmsg>>
       \/ /\ pubFifo # <<>>
          /\ bmsg' = Head(pubFifo)
          /\ pubFifo' = Tail(pubFifo)
          /\ bpc' = "lock"
    /\ UNCHANGED <<msgVars, mutex, configVars, queue, bsub, bnext, threadVars, history>>

BrokerLock ==
    /\ bpc = "lock"
    /\ MutexFree
    /\ mutex' = WorkQ
    /\ Advance(HeadOf(list))
    /\ bpc' = "visit"
    /\ UNCHANGED <<msgVars, pubFifo, configVars, queue, bmsg, threadVars, history>>

(* The loop of process_msg at sub: its subscription is tested, and a       *)
(* message for a queue is acquired before it is put.                       *)
BrokerVisit ==
    /\ bpc = "visit"
    /\ \/ /\ bsub = None
          /\ bpc' = "unlock"
          /\ UNCHANGED <<ref, free, bsub, bnext>>
       \/ /\ bsub # None /\ ~Wants(bsub, bmsg)
          /\ Advance(bnext)
          /\ UNCHANGED <<ref, free, bpc>>
       \/ /\ bsub # None /\ Wants(bsub, bmsg) /\ RxType[bsub] = "callback"
          /\ bpc' = "call"
          /\ UNCHANGED <<ref, free, bsub, bnext>>
       \/ /\ bsub # None /\ Wants(bsub, bmsg) /\ RxType[bsub] # "callback"
          /\ Acquire(bmsg)
          /\ bpc' = "put"
          /\ UNCHANGED <<bsub, bnext>>
    /\ UNCHANGED <<id, retained, pubFifo, mutex, configVars, queue, bmsg, threadVars, history>>

(* A callback subscriber's handler returns to process_msg.  That it may    *)
(* change the list, since the mutex is reentrant, is BrokerWalk's subject. *)
BrokerCalled ==
    /\ bpc = "call"
    /\ Handled(bsub, bmsg)
    /\ Advance(bnext)
    /\ bpc' = "visit"
    /\ UNCHANGED <<msgVars, pubFifo, mutex, configVars, queue, bmsg, threadVars, pubs, seqno>>

(* Mutant: fifo_sub_handled is never set.                                  *)
NeverHandled(s) == FALSE

(* fifo_sub_handled after a message has been put for s                     *)
FifoSubHandled(s) == RxType[s] = "fifo"

(* k_msgq_put waits for space, with the mutex held; the first fifo         *)
(* subscriber ends the loop.                                               *)
BrokerPut ==
    /\ bpc = "put"
    /\ HasRoom(bsub)
    /\ Put(bsub, bmsg)
    /\ IF FifoSubHandled(bsub)
       THEN bpc' = "unlock" /\ UNCHANGED <<bsub, bnext>>
       ELSE bpc' = "visit" /\ Advance(bnext)
    /\ UNCHANGED <<msgVars, pubFifo, mutex, configVars, bmsg, threadVars, history>>

BrokerUnlock ==
    /\ bpc = "unlock"
    /\ mutex' = None
    /\ bsub' = None /\ bnext' = None
    /\ bpc' = "release"
    /\ UNCHANGED <<msgVars, pubFifo, configVars, queue, bmsg, threadVars, history>>

BrokerRelease ==
    /\ bpc = "release"
    /\ Release(bmsg)
    /\ bmsg' = None
    /\ bpc' = "get"
    /\ UNCHANGED <<id, retained, pubFifo, mutex, configVars, queue, bsub, bnext,
                   threadVars, history>>

(* Mutant: the work item is armed without a look at the fifo.              *)
SubmittedBlind == "armed"

(* k_work_poll_submit looks at the fifo again: a message put since the     *)
(* last get submits the work item at once.                                 *)
Submitted == IF pubFifo = <<>> THEN "armed" ELSE "get"

BrokerSubmit ==
    /\ bpc = "submit"
    /\ bpc' = Submitted
    /\ UNCHANGED <<msgVars, pubFifo, mutex, configVars, queue, bmsg, bsub, bnext,
                   threadVars, history>>

BrokerStep ==
    \/ BrokerGet \/ BrokerLock \/ BrokerVisit \/ BrokerCalled \/ BrokerPut
    \/ BrokerUnlock \/ BrokerRelease \/ BrokerSubmit

-----------------------------------------------------------------------------
(* The threads that serve msgq and fifo subscribers:                       *)
(* pub_sub_handle_queued_msg and send_to_next_fifo_subscriber.             *)

(* Mutant: nothing is forwarded.                                           *)
ForwardsNothing(s, m) == FALSE

(* A public message of a fifo subscriber is forwarded before it is handled.*)
Forwards(s, m) == RxType[s] = "fifo" /\ id[m] <= MaxPubId[s]

Get(t, s) ==
    /\ tpc[t] = "idle"
    /\ RxType[s] # "callback" /\ Server[s] = t
    /\ queue[s] # <<>>
    /\ Goto(t, IF Forwards(s, Head(queue[s])) THEN "forward" ELSE "handle",
            Head(queue[s]), s, None)
    /\ queue' = [queue EXCEPT ![s] = Tail(@)]
    /\ UNCHANGED <<msgVars, pubFifo, mutex, configVars, brokerVars, history>>

(* subscriber->broker is read, without a lock, and dereferenced.           *)
ReadBroker(t) ==
    /\ tpc[t] = "forward"
    /\ Goto(t, IF hasBroker[tsub[t]] THEN "lock" ELSE "null broker", tmsg[t], tsub[t], None)
    /\ UNCHANGED <<msgVars, pubFifo, mutex, configVars, queue, brokerVars, history>>

ForwardLock(t) ==
    /\ tpc[t] = "lock"
    /\ MutexFree
    /\ mutex' = t
    /\ Goto(t, "search", tmsg[t], tsub[t], None)
    /\ UNCHANGED <<msgVars, pubFifo, configVars, queue, brokerVars, history>>

(* Mutant: the search begins at the head of the list.                      *)
Wanting(s, m) == {u \in ToSet(list) : Wants(u, m)}

(* The subscribers behind s that want m: whatever their type is.           *)
WantingBehind(s, m) == {u \in ToSet(list) : Before(list, s, u) /\ Wants(u, m)}

(* The first of them is acquired for; the loop writes to it as a fifo.     *)
(* Nobody changes the list during the search.  Subscriptions may change    *)
(* while it runs: it is one step here, after or before such a change, and  *)
(* the properties do not tell an unsubscription's two orders apart.        *)
Search(t) ==
    /\ tpc[t] = "search"
    /\ \/ /\ WantingBehind(tsub[t], tmsg[t]) = {}
          /\ mutex' = None
          /\ Goto(t, "handle", tmsg[t], tsub[t], None)
          /\ UNCHANGED <<ref, free>>
       \/ \E u \in WantingBehind(tsub[t], tmsg[t]) :
             /\ \A v \in WantingBehind(tsub[t], tmsg[t]) \ {u} : Before(list, u, v)
             /\ Acquire(tmsg[t])
             /\ Goto(t, IF RxType[u] = "fifo" THEN "fput" ELSE "not a fifo",
                     tmsg[t], tsub[t], u)
             /\ UNCHANGED mutex
    /\ UNCHANGED <<id, retained, pubFifo, configVars, queue, brokerVars, history>>

ForwardPut(t) ==
    /\ tpc[t] = "fput"
    /\ Put(tnext[t], tmsg[t])
    /\ mutex' = None
    /\ Goto(t, "handle", tmsg[t], tsub[t], None)
    /\ UNCHANGED <<msgVars, pubFifo, configVars, brokerVars, history>>

(* The handler returns and the reference is released; so does a callback   *)
(* handler that pub_sub_publish_to_subscriber called in the publisher.     *)
HandlerReturns(t) ==
    /\ tpc[t] \in {"handle", "direct"}
    /\ IF seqno[tmsg[t]] > 0 THEN Handled(tsub[t], tmsg[t]) ELSE UNCHANGED log
    /\ Release(tmsg[t])
    /\ Return(t)
    /\ UNCHANGED <<id, retained, pubFifo, mutex, configVars, queue, brokerVars, pubs, seqno>>

-----------------------------------------------------------------------------
(* References a handler keeps beyond its return.                           *)

Running(s) == IF bpc = "call" /\ bsub = s THEN {bmsg} ELSE {}
Serving(s) == {tmsg[t] : t \in {u \in Threads : tpc[u] \in {"handle", "direct"} /\ tsub[u] = s}}

(* pub_sub_acquire_msg called by the handler of s on the message it got.   *)
Retain(s, m) ==
    /\ s \in Retainers
    /\ m \in Running(s) \cup Serving(s)
    /\ m \notin retained[s]
    /\ Acquire(m)
    /\ retained' = [retained EXCEPT ![s] = @ \cup {m}]
    /\ UNCHANGED <<id, pubFifo, mutex, configVars, queue, brokerVars, threadVars, history>>

ReleaseRetained(s, m) ==
    /\ m \in retained[s]
    /\ Release(m)
    /\ retained' = [retained EXCEPT ![s] = @ \ {m}]
    /\ UNCHANGED <<id, pubFifo, mutex, configVars, queue, brokerVars, threadVars, history>>

-----------------------------------------------------------------------------
(* Reconfiguration.  The critical sections that only change the list are   *)
(* one step each; the broker pointer is written outside of them.           *)

StartRemove(t, s) ==
    /\ tpc[t] = "idle" /\ t \in Managers /\ s \in Managed
    /\ hasBroker[s]
    /\ Goto(t, "remove", None, s, None)
    /\ UNCHANGED <<msgVars, pubFifo, mutex, configVars, queue, brokerVars, history>>

RemoveBroker(t) ==
    /\ tpc[t] = "remove"
    /\ MutexFree
    /\ list' = Removed(list, tsub[t])
    /\ Goto(t, "clear", None, tsub[t], None)
    /\ UNCHANGED <<msgVars, pubFifo, mutex, hasBroker, subscribed, queue, brokerVars, history>>

ClearBroker(t) ==
    /\ tpc[t] = "clear"
    /\ hasBroker' = [hasBroker EXCEPT ![tsub[t]] = FALSE]
    /\ Return(t)
    /\ UNCHANGED <<msgVars, pubFifo, mutex, list, subscribed, queue, brokerVars, history>>

StartAdd(t, s) ==
    /\ tpc[t] = "idle" /\ t \in Managers /\ s \in Managed
    /\ ~hasBroker[s]
    /\ hasBroker' = [hasBroker EXCEPT ![s] = TRUE]
    /\ Goto(t, "add", None, s, None)
    /\ UNCHANGED <<msgVars, pubFifo, mutex, list, subscribed, queue, brokerVars, history>>

AddSubscriber(t) ==
    /\ tpc[t] = "add"
    /\ MutexFree
    /\ list' = Inserted(list, Priority, tsub[t])
    /\ Return(t)
    /\ UNCHANGED <<msgVars, pubFifo, mutex, hasBroker, subscribed, queue, brokerVars, history>>

(* pub_sub_subscribe and pub_sub_unsubscribe: one atomic bit, no lock.     *)
Subscribe(t, s, i) ==
    /\ tpc[t] = "idle" /\ t \in Managers /\ s \in Managed
    /\ i <= MaxPubId[s]
    /\ subscribed' = [subscribed EXCEPT ![s] = @ \cup {i}]
    /\ UNCHANGED <<msgVars, pubFifo, mutex, list, hasBroker, queue, brokerVars,
                   threadVars, history>>

Unsubscribe(t, s, i) ==
    /\ tpc[t] = "idle" /\ t \in Managers /\ s \in Managed
    /\ i <= MaxPubId[s]
    /\ subscribed' = [subscribed EXCEPT ![s] = @ \ {i}]
    /\ UNCHANGED <<msgVars, pubFifo, mutex, list, hasBroker, queue, brokerVars,
                   threadVars, history>>

-----------------------------------------------------------------------------

(* Everything that was published has been dealt with and every thread      *)
(* waits for new work: not a deadlock, but the end of a bounded run.       *)
Quiescent ==
    /\ Len(pubs) = MaxPublish
    /\ bpc = "armed"
    /\ \A t \in Threads : tpc[t] = "idle"
    /\ free = Msgs
    /\ UNCHANGED vars

(* What a thread does once it has started an operation.                    *)
ThreadStep(t) ==
    \/ Publish(t) \/ Discard(t) \/ DirectPut(t)
    \/ ReadBroker(t) \/ ForwardLock(t) \/ Search(t) \/ ForwardPut(t) \/ HandlerReturns(t)
    \/ RemoveBroker(t) \/ ClearBroker(t) \/ AddSubscriber(t)
    \/ \E s \in Subs : PublishTo(t, s) \/ Get(t, s)

(* What it may start or not.                                               *)
ThreadStart(t) ==
    \/ \E m \in Msgs, i \in MsgIds : NewMsg(t, m, i)
    \/ \E s \in Subs : StartRemove(t, s) \/ StartAdd(t, s)
    \/ \E s \in Subs, i \in MsgIds : Subscribe(t, s, i) \/ Unsubscribe(t, s, i)

Next ==
    \/ BrokerStep
    \/ \E t \in Threads : ThreadStep(t) \/ ThreadStart(t)
    \/ \E s \in Subs, m \in Msgs : Retain(s, m) \/ ReleaseRetained(s, m)
    \/ Quiescent

(* The work queue and every thread keep running, and kept references are   *)
(* released some day (README: "The acquired reference must be released").  *)
Fairness ==
    /\ WF_vars(BrokerStep)
    /\ \A t \in Threads : WF_vars(ThreadStep(t))
    /\ \A s \in Subs, m \in Msgs : WF_vars(ReleaseRetained(s, m))

Spec == Init /\ [][Next]_vars
FairSpec == Spec /\ Fairness
-----------------------------------------------------------------------------
(* Properties.                                                             *)

(* What a thread at step pc works on.                                      *)
Fits(pc, m, s, next) ==
    /\ m \in Msgs <=> pc \notin {"idle", "remove", "clear", "add"}
    /\ s \in Subs <=> pc \notin {"idle", "owns"}
    /\ next \in Subs <=> pc \in {"fput", "not a fifo"}
    /\ pc = "fput" => RxType[next] = "fifo"

MsgTypes ==
    /\ free \subseteq Msgs
    /\ ref \in [Msgs -> Int]
    /\ id \in [Msgs -> MsgIds]
    /\ retained \in [Subs -> SUBSET Msgs]

ListTypes ==
    /\ mutex \in Threads \cup {WorkQ, None}
    /\ list \in Seq(Subs)
    /\ hasBroker \in [Subs -> BOOLEAN]
    /\ subscribed \in [Subs -> SUBSET MsgIds]

QueueTypes ==
    /\ pubFifo \in Seq(Msgs)
    /\ queue \in [Subs -> Seq(Msgs)]
    /\ \A s \in Subs : RxType[s] = "msgq" => Len(queue[s]) <= MsgqLen

BrokerTypes ==
    /\ bpc \in BrokerSteps
    /\ bmsg \in Msgs \cup {None}
    /\ bsub \in Subs \cup {None} /\ bnext \in Subs \cup {None}
    /\ bmsg = None <=> bpc \in {"armed", "get", "submit"}
    /\ bpc \in {"call", "put"} => bsub # None

ThreadTypes ==
    /\ tpc \in [Threads -> ThreadSteps]
    /\ tmsg \in [Threads -> Msgs \cup {None}]
    /\ tsub \in [Threads -> Subs \cup {None}]
    /\ tnext \in [Threads -> Subs \cup {None}]
    /\ \A t \in Threads : Fits(tpc[t], tmsg[t], tsub[t], tnext[t])

HistoryTypes ==
    /\ pubs \in Seq(MsgIds)
    /\ seqno \in [Msgs -> Nat]
    /\ log \in [Subs -> Seq(Nat)]

(* Every variable has its type, a step finds the message and the           *)
(* subscriber it works on, and no msgq holds more than its capacity.       *)
TypeOK ==
    MsgTypes /\ ListTypes /\ QueueTypes /\ BrokerTypes /\ ThreadTypes /\ HistoryTypes

(* The references to m that exist: a queue holds one per entry, and so does *)
(* whoever works on m; one acquired for a queue is in flight until the put. *)
InSeq(q, m) == {i \in 1..Len(q) : q[i] = m}
Entries(queues, S, m) == UNION {{s} \X InSeq(queues[s], m) : s \in S}
Keepers(m) == {s \in Subs : m \in retained[s]}
AtHand(steps, m) == {t \in Threads : tmsg[t] = m /\ tpc[t] \in steps}
ByBroker(m) == IF bmsg # m THEN 0 ELSE IF bpc = "put" THEN 2 ELSE 1
References(m) ==
    Cardinality(InSeq(pubFifo, m)) + Cardinality(Entries(queue, Subs, m))
    + Cardinality(Keepers(m)) + Cardinality(AtHand(ThreadSteps, m))
    + Cardinality(AtHand({"fput", "not a fifo"}, m)) + ByBroker(m)

(* The counter of a message is the number of references in existence, so   *)
(* a message is reclaimed exactly when nobody can reach it any more: no    *)
(* use after free, no double free, no leak, through every interleaving of  *)
(* publisher, broker, forwarding subscribers and kept references.          *)
RefCountExact ==
    \A m \in Msgs :
        /\ ref[m] = References(m)
        /\ m \in free <=> ref[m] = 0

(* A message has one fifo_reserved word: it is linked into at most one     *)
(* k_fifo at a time, the broker's or one fifo subscriber's (process_msg:   *)
(* "A message can only be queued on a single fifo subscriber at a time").  *)
FifoSubs == {s \in Subs : RxType[s] = "fifo"}
OneFifo ==
    \A m \in Msgs :
        Cardinality(InSeq(pubFifo, m)) + Cardinality(Entries(queue, FifoSubs, m)) <= 1

(* README: "Messages are received by subscribers in the order published".  *)
InOrder == \A s \in Subs : \A i, j \in 1..Len(log[s]) : i < j => log[s][i] < log[s][j]

(* What holds of that, whatever is reconfigured meanwhile: the subscribers *)
(* the broker delivers to itself handle in the order published.            *)
InOrderFromBroker ==
    \A s \in Subs \ FifoSubs :
        \A i, j \in 1..Len(log[s]) : i < j => log[s][i] < log[s][j]

(* The publications that are not done with yet.                            *)
Live(n) == \E m \in Msgs \ free : seqno[m] = n
Recipients(n) == {s \in ToSet(list) : pubs[n] \in subscribed[s]}
HandledBy(n) == {s \in Subs : n \in ToSet(log[s])}

(* With a fixed configuration the broker, its queues, locks, threads and   *)
(* counters keep the promises of Delivery: each publication is handled     *)
(* once by each of its subscribers and nobody else, in order or in order   *)
(* along a path of fifos, after the callbacks ahead, no further ahead of a *)
(* msgq than its queue is long, and before its message is reclaimed.       *)
Promise ==
    INSTANCE Delivery WITH
        List <- InitList, Subscribed <- InitSubscribed,
        published <- pubs, handled <- log,
        reclaimed <- {n \in 1..Len(pubs) : ~Live(n)}
ImplementsDelivery == Promise!Spec

(* A subscriber that nobody reconfigures misses no publication because of  *)
(* what is done to others: the message is not reclaimed before it has      *)
(* handled it.                                                             *)
OthersMissNothing ==
    \A n \in 1..Len(pubs) :
        \/ Live(n)
        \/ {s \in ToSet(InitList) \ Managed : pubs[n] \in subscribed[s]} \subseteq HandledBy(n)

(* s has publication n, in its queue, at hand or behind it.                *)
Received(s, n) ==
    \/ n \in ToSet(log[s])
    \/ \E m \in ToSet(queue[s]) \cup Running(s) : seqno[m] = n
    \/ \E t \in Threads : tmsg[t] # None /\ tsub[t] = s /\ seqno[tmsg[t]] = n

(* With a fixed configuration sorted by type, a publication reaches its    *)
(* recipients in the order of the list: all callback subscribers before    *)
(* any msgq, all msgq before any fifo, and by priority within a type.      *)
ReceivedInListOrder ==
    \A n \in 1..Len(pubs) : \A s, u \in Recipients(n) :
        Live(n) /\ Before(list, s, u) /\ Received(u, n) => Received(s, n)

(* No publication is lost between the work item's last k_fifo_get and the  *)
(* moment it polls the fifo again.                                         *)
NoLostWakeup == bpc = "armed" => pubFifo = <<>>

(* The broker holds the lock while it walks the list; so the subscriber it *)
(* is at, and the next one, are in the list, and a forwarding thread's     *)
(* place in the list stays valid while it holds the lock.  This is so as   *)
(* long as the callback handlers, which the broker calls with the lock     *)
(* held, leave the list alone; what happens when they do not is the        *)
(* subject of BrokerWalk.                                                  *)
WalkSteps == {"visit", "call", "put", "unlock"}
SearchSteps == {"search", "fput", "not a fifo"}
OwnerWalks ==
    /\ mutex = WorkQ <=> bpc \in WalkSteps
    /\ \A t \in Threads : mutex = t <=> tpc[t] \in SearchSteps
WalkInList ==
    bsub # None => /\ bpc \in WalkSteps
                   /\ bsub \in ToSet(list)
                   /\ bnext = NextOf(list, bsub)
WalksUnderLock == OwnerWalks /\ WalkInList

(* broker.h: "Removing a subscriber from a broker will stop it receiving   *)
(* any published messages": one that has no broker takes no publication    *)
(* out of its queue, only what was sent to it directly.                    *)
RemovedReceivesNothing ==
    [][\A s \in Subs :
          ~hasBroker[s] /\ Len(queue'[s]) < Len(queue[s]) => seqno[Head(queue[s])] = 0]_vars

(* send_to_next_fifo_subscriber never dereferences a null broker pointer.  *)
NoNullBroker == \A t \in Threads : tpc[t] # "null broker"

(* It never puts a message into something that is not a fifo ("fifo        *)
(* subscribers are at the end of the list").                               *)
ForwardsToFifoOnly == \A t \in Threads : tpc[t] # "not a fifo"

(* README: "The FIFO subscriber can not block the broker's message         *)
(* processing thread".  Here the broker waits for space in a msgq, holding *)
(* the lock the only thread that could make space waits for, on behalf of  *)
(* a fifo subscriber.                                                      *)
FifoNeverBlocksBroker ==
    ~(/\ bpc = "put" /\ RxType[bsub] = "msgq" /\ Len(queue[bsub]) = MsgqLen
      /\ tpc[Server[bsub]] = "lock"
      /\ RxType[tsub[Server[bsub]]] = "fifo")

(* Every publication is handled, in the end, by all subscribers that want  *)
(* it.                                                                     *)
EventuallyHandled ==
    \A n \in 1..MaxPublish :
        (n <= Len(pubs)) ~> (n <= Len(pubs) /\ Recipients(n) \subseteq HandledBy(n))

(* Every allocated message goes back to the allocator.                     *)
EventuallyReclaimed == \A m \in Msgs : (m \notin free) ~> (m \in free)
=============================================================================
