----------------------------- MODULE PubSubProofs -----------------------------
(***************************************************************************)
(* Safety of PubSub for all constants: any number of subscribers, threads, *)
(* messages and publications, any queue length and any configuration.      *)
(* Types, the lock, who works on what, the broker's list; the holders of a *)
(* message, counted: the reference counter is exact, a message is linked   *)
(* into one fifo and is its owner's alone until it is sent; and nothing is *)
(* put into the queue of a subscriber that was removed.                    *)
(***************************************************************************)
EXTENDS PubSub, SubscriberOrderProofs, FiniteSetTheorems

(* What is in a sequence is at some place of it.                           *)
LEMMA InToSet ==
    ASSUME NEW S, NEW q \in Seq(S), NEW x
    PROVE  x \in ToSet(q) <=> \E i \in 1..Len(q) : q[i] = x
<1>1. DOMAIN q = 1..Len(q)
  OBVIOUS
<1>2. x \in ToSet(q) <=> \E i \in DOMAIN q : q[i] = x
  BY Zenon DEF ToSet
<1> QED
  BY <1>1, <1>2, Zenon

-----------------------------------------------------------------------------
(* What the operations shared by the actions keep of the types.            *)

(* Goto gives one thread a step that fits what it works on.                *)
LEMMA GotoTyped ==
    ASSUME ThreadTypes, NEW t \in Threads, NEW pc \in ThreadSteps,
           NEW m \in Msgs \cup {None}, NEW s \in Subs \cup {None},
           NEW next \in Subs \cup {None},
           Fits(pc, m, s, next), Goto(t, pc, m, s, next)
    PROVE  ThreadTypes'
<1>1. /\ tpc' \in [Threads -> ThreadSteps]
      /\ tmsg' \in [Threads -> Msgs \cup {None}]
      /\ tsub' \in [Threads -> Subs \cup {None}]
      /\ tnext' \in [Threads -> Subs \cup {None}]
  BY DEF ThreadTypes, Goto
<1>2. ASSUME NEW u \in Threads
      PROVE  Fits(tpc'[u], tmsg'[u], tsub'[u], tnext'[u])
  <2>1. CASE u = t
    BY <2>1 DEF ThreadTypes, Goto
  <2>2. CASE u # t
    BY <2>2 DEF ThreadTypes, Goto
  <2> QED
    BY <2>1, <2>2
<1> QED
  BY <1>1, <1>2 DEF ThreadTypes

(* An idle thread works on nothing.                                        *)
LEMMA ReturnTyped ==
    ASSUME ThreadTypes, NEW t \in Threads, Return(t)
    PROVE  ThreadTypes'
<1>1. Fits("idle", None, None, None) /\ "idle" \in ThreadSteps
  BY NoneAssumption DEF Fits, ThreadSteps
<1> QED
  BY <1>1, GotoTyped DEF Return

(* A counter that is incremented stays a number.                           *)
LEMMA AcquireTyped ==
    ASSUME MsgTypes, NEW m \in Msgs, Acquire(m), UNCHANGED id,
           retained' \in [Subs -> SUBSET Msgs]
    PROVE  MsgTypes'
BY DEF MsgTypes, Acquire

(* So does one that is decremented, and a block is freed at most.          *)
LEMMA ReleaseTyped ==
    ASSUME MsgTypes, NEW m \in Msgs, Release(m), UNCHANGED id,
           retained' \in [Subs -> SUBSET Msgs]
    PROVE  MsgTypes'
BY DEF MsgTypes, Release

(* A put into a queue that has room stays within its length.               *)
LEMMA PutTyped ==
    ASSUME QueueTypes, NEW s \in Subs, NEW m \in Msgs, HasRoom(s), Put(s, m),
           UNCHANGED pubFifo
    PROVE  QueueTypes'
<1>1. queue' \in [Subs -> Seq(Msgs)]
  BY DEF QueueTypes, Put
<1>2. ASSUME NEW u \in Subs, RxType[u] = "msgq"
      PROVE  Len(queue'[u]) <= MsgqLen
  <2>1. CASE u = s
    <3>1. Len(queue[s]) < MsgqLen /\ Len(queue[s]) \in Nat
      BY <1>2, <2>1 DEF HasRoom, QueueTypes
    <3>2. Len(queue'[u]) = Len(queue[s]) + 1
      BY <2>1 DEF Put, QueueTypes
    <3> QED
      BY <3>1, <3>2, MsgqLenAssumption
  <2>2. CASE u # s
    BY <1>2, <2>2 DEF Put, QueueTypes
  <2> QED
    BY <2>1, <2>2
<1> QED
  BY <1>1, <1>2 DEF QueueTypes

(* A get makes a queue shorter.                                            *)
LEMMA GetTyped ==
    ASSUME QueueTypes, NEW s \in Subs, queue[s] # <<>>,
           queue' = [queue EXCEPT ![s] = Tail(@)], UNCHANGED pubFifo
    PROVE  QueueTypes' /\ Head(queue[s]) \in Msgs
<1>1. /\ queue[s] \in Seq(Msgs) /\ Head(queue[s]) \in Msgs
      /\ Tail(queue[s]) \in Seq(Msgs) /\ Len(Tail(queue[s])) = Len(queue[s]) - 1
      /\ Len(queue[s]) \in Nat
  BY HeadTailProperties DEF QueueTypes
<1>2. queue' \in [Subs -> Seq(Msgs)]
  BY <1>1 DEF QueueTypes
<1>3. ASSUME NEW u \in Subs, RxType[u] = "msgq"
      PROVE  Len(queue'[u]) <= MsgqLen
  BY <1>1, <1>3, MsgqLenAssumption DEF QueueTypes
<1> QED
  BY <1>1, <1>2, <1>3 DEF QueueTypes

(* A handler notes the number of its message.                              *)
LEMMA HandledTyped ==
    ASSUME HistoryTypes, NEW s \in Subs, NEW m \in Msgs, Handled(s, m),
           UNCHANGED <<pubs, seqno>>
    PROVE  HistoryTypes'
BY DEF HistoryTypes, Handled

(* The links of the list lead to subscribers in the list, or end.          *)
LEMMA LinksStayInList ==
    ASSUME NEW l \in Seq(Subs), NEW s
    PROVE  /\ NextOf(l, s) \in ToSet(l) \cup {None}
           /\ HeadOf(l) \in ToSet(l) \cup {None}
           /\ ToSet(l) \subseteq Subs
<1>1. DOMAIN l = 1..Len(l) /\ Len(l) \in Nat
  OBVIOUS
<1>2. ASSUME s \in ToSet(l), IndexOf(l, s) < Len(l)
      PROVE  l[IndexOf(l, s) + 1] \in ToSet(l)
  <2>1. IndexOf(l, s) \in 1..Len(l)
    BY <1>2, RemovedAt
  <2> QED
    BY <1>1, <1>2, <2>1 DEF ToSet
<1>3. l # <<>> => Head(l) \in ToSet(l)
  BY <1>1 DEF ToSet
<1> QED
  BY <1>1, <1>2, <1>3 DEF NextOf, HeadOf, ToSet
-----------------------------------------------------------------------------

(* Every action keeps the types: of what it changes by the lemmas above,   *)
(* of the rest because it leaves it alone.                                 *)
LEMMA NextTyped ==
    ASSUME TypeOK, Next
    PROVE  TypeOK'
<1> USE DEF TypeOK
<1>1. ASSUME NEW t \in Threads, NEW m \in Msgs, NEW i \in MsgIds, NewMsg(t, m, i)
      PROVE  TypeOK'
  <2>1. MsgTypes'
    BY <1>1 DEF NewMsg, MsgTypes
  <2>2. ThreadTypes'
    BY <1>1, NoneAssumption, GotoTyped DEF NewMsg, Fits, ThreadSteps
  <2>3. HistoryTypes'
    BY <1>1 DEF NewMsg, HistoryTypes
  <2>4. ListTypes' /\ QueueTypes' /\ BrokerTypes'
    BY <1>1 DEF NewMsg, ListTypes, QueueTypes, BrokerTypes, configVars, brokerVars
  <2> QED
    BY <2>1, <2>2, <2>3, <2>4
<1>2. ASSUME NEW t \in Threads, Publish(t)
      PROVE  TypeOK'
  <2>1. tmsg[t] \in Msgs
    BY <1>2 DEF Publish, ThreadTypes, Fits
  <2>2. QueueTypes'
    BY <1>2, <2>1 DEF Publish, PubFifoPut, QueueTypes
  <2>3. BrokerTypes'
    BY <1>2 DEF Publish, BrokerTypes, BrokerSteps
  <2>4. ThreadTypes'
    BY <1>2, ReturnTyped DEF Publish
  <2>5. HistoryTypes'
    BY <1>2, <2>1 DEF Publish, HistoryTypes, MsgTypes
  <2>6. MsgTypes' /\ ListTypes'
    BY <1>2 DEF Publish, MsgTypes, ListTypes, msgVars, configVars
  <2> QED
    BY <2>2, <2>3, <2>4, <2>5, <2>6
<1>3. ASSUME NEW t \in Threads, Discard(t)
      PROVE  TypeOK'
  <2>1. tmsg[t] \in Msgs
    BY <1>3 DEF Discard, ThreadTypes, Fits
  <2>2. MsgTypes'
    BY <1>3, <2>1, ReleaseTyped DEF Discard, MsgTypes
  <2>3. ThreadTypes'
    BY <1>3, ReturnTyped DEF Discard
  <2>4. ListTypes' /\ QueueTypes' /\ BrokerTypes' /\ HistoryTypes'
    BY <1>3 DEF Discard, ListTypes, QueueTypes, BrokerTypes, HistoryTypes, configVars,
       brokerVars, history
  <2> QED
    BY <2>2, <2>3, <2>4
<1>4. ASSUME NEW t \in Threads, NEW s \in Subs, PublishTo(t, s)
      PROVE  TypeOK'
  <2>1. tmsg[t] \in Msgs
    BY <1>4 DEF PublishTo, ThreadTypes, Fits
  <2>2. QueueTypes'
    <3>1. CASE RxType[s] = "fifo"
      BY <1>4, <2>1, <3>1, PutTyped DEF PublishTo, HasRoom
    <3>2. CASE RxType[s] # "fifo"
      BY <1>4, <3>2 DEF PublishTo, QueueTypes
    <3> QED
      BY <3>1, <3>2
  <2>3. ThreadTypes'
    <3>1. CASE Return(t)
      BY <3>1, ReturnTyped
    <3>2. CASE Goto(t, "direct", tmsg[t], s, None)
      BY <2>1, <3>2, NoneAssumption, GotoTyped DEF Fits, ThreadSteps
    <3>3. CASE Goto(t, "directput", tmsg[t], s, None)
      BY <2>1, <3>3, NoneAssumption, GotoTyped DEF Fits, ThreadSteps
    <3> QED
      BY <1>4, <3>1, <3>2, <3>3 DEF PublishTo
  <2>4. MsgTypes' /\ ListTypes' /\ BrokerTypes' /\ HistoryTypes'
    BY <1>4 DEF PublishTo, MsgTypes, ListTypes, BrokerTypes, HistoryTypes, msgVars,
       configVars, brokerVars, history
  <2> QED
    BY <2>2, <2>3, <2>4
<1>5. ASSUME NEW t \in Threads, DirectPut(t)
      PROVE  TypeOK'
  <2>1. tmsg[t] \in Msgs /\ tsub[t] \in Subs
    BY <1>5 DEF DirectPut, ThreadTypes, Fits
  <2>2. QueueTypes'
    BY <1>5, <2>1, PutTyped DEF DirectPut
  <2>3. ThreadTypes'
    BY <1>5, ReturnTyped DEF DirectPut
  <2>4. MsgTypes' /\ ListTypes' /\ BrokerTypes' /\ HistoryTypes'
    BY <1>5 DEF DirectPut, MsgTypes, ListTypes, BrokerTypes, HistoryTypes, msgVars,
       configVars, brokerVars, history
  <2> QED
    BY <2>2, <2>3, <2>4
<1>6. ASSUME BrokerGet
      PROVE  TypeOK'
  <2>1. QueueTypes'
    BY <1>6, HeadTailProperties DEF BrokerGet, QueueTypes
  <2>2. BrokerTypes'
    BY <1>6, HeadTailProperties, NoneAssumption DEF BrokerGet, QueueTypes, BrokerTypes,
       BrokerSteps
  <2>3. MsgTypes' /\ ListTypes' /\ ThreadTypes' /\ HistoryTypes'
    BY <1>6 DEF BrokerGet, MsgTypes, ListTypes, ThreadTypes, HistoryTypes, msgVars,
       configVars, threadVars, history
  <2> QED
    BY <2>1, <2>2, <2>3
<1>7. ASSUME BrokerLock
      PROVE  TypeOK'
  <2>1. NextOf(list, HeadOf(list)) \in Subs \cup {None} /\ HeadOf(list) \in Subs \cup {None}
    BY <1>7, LinksStayInList DEF BrokerLock, BrokerTypes, BrokerSteps, ListTypes
  <2>2. ListTypes'
    BY <1>7 DEF BrokerLock, ListTypes, configVars
  <2>3. BrokerTypes'
    BY <1>7, <2>1 DEF BrokerLock, Advance, BrokerTypes, BrokerSteps
  <2>4. MsgTypes' /\ QueueTypes' /\ ThreadTypes' /\ HistoryTypes'
    BY <1>7 DEF BrokerLock, MsgTypes, QueueTypes, ThreadTypes, HistoryTypes, msgVars,
       threadVars, history
  <2> QED
    BY <2>2, <2>3, <2>4
<1>8. ASSUME BrokerVisit
      PROVE  TypeOK'
  <2>1. bmsg \in Msgs /\ NextOf(list, bnext) \in Subs \cup {None}
    BY <1>8, LinksStayInList DEF BrokerVisit, BrokerTypes, BrokerSteps, ListTypes
  <2>2. MsgTypes'
    BY <1>8, <2>1 DEF BrokerVisit, Acquire, MsgTypes
  <2>3. BrokerTypes'
    BY <1>8, <2>1 DEF BrokerVisit, Advance, BrokerTypes, BrokerSteps
  <2>4. ListTypes' /\ QueueTypes' /\ ThreadTypes' /\ HistoryTypes'
    BY <1>8 DEF BrokerVisit, ListTypes, QueueTypes, ThreadTypes, HistoryTypes,
       configVars, threadVars, history
  <2> QED
    BY <2>2, <2>3, <2>4
<1>9. ASSUME BrokerCalled
      PROVE  TypeOK'
  <2>1. bmsg \in Msgs /\ bsub \in Subs /\ NextOf(list, bnext) \in Subs \cup {None}
    BY <1>9, LinksStayInList DEF BrokerCalled, BrokerTypes, BrokerSteps, ListTypes
  <2>2. BrokerTypes'
    BY <1>9, <2>1 DEF BrokerCalled, Advance, BrokerTypes, BrokerSteps
  <2>3. HistoryTypes'
    BY <1>9, <2>1, HandledTyped DEF BrokerCalled
  <2>4. MsgTypes' /\ ListTypes' /\ QueueTypes' /\ ThreadTypes'
    BY <1>9 DEF BrokerCalled, MsgTypes, ListTypes, QueueTypes, ThreadTypes, msgVars,
       configVars, threadVars
  <2> QED
    BY <2>2, <2>3, <2>4
<1>10. ASSUME BrokerPut
      PROVE  TypeOK'
  <2>1. bmsg \in Msgs /\ bsub \in Subs /\ NextOf(list, bnext) \in Subs \cup {None}
    BY <1>10, LinksStayInList DEF BrokerPut, BrokerTypes, BrokerSteps, ListTypes
  <2>2. QueueTypes'
    BY <1>10, <2>1, PutTyped DEF BrokerPut
  <2>3. BrokerTypes'
    BY <1>10, <2>1 DEF BrokerPut, Advance, BrokerTypes, BrokerSteps
  <2>4. MsgTypes' /\ ListTypes' /\ ThreadTypes' /\ HistoryTypes'
    BY <1>10 DEF BrokerPut, MsgTypes, ListTypes, ThreadTypes, HistoryTypes, msgVars,
       configVars, threadVars, history
  <2> QED
    BY <2>2, <2>3, <2>4
<1>11. ASSUME BrokerUnlock
      PROVE  TypeOK'
  <2>1. ListTypes'
    BY <1>11 DEF BrokerUnlock, ListTypes, configVars
  <2>2. BrokerTypes'
    BY <1>11 DEF BrokerUnlock, BrokerTypes, BrokerSteps
  <2>3. MsgTypes' /\ QueueTypes' /\ ThreadTypes' /\ HistoryTypes'
    BY <1>11 DEF BrokerUnlock, MsgTypes, QueueTypes, ThreadTypes, HistoryTypes, msgVars,
       threadVars, history
  <2> QED
    BY <2>1, <2>2, <2>3
<1>12. ASSUME BrokerRelease
      PROVE  TypeOK'
  <2>1. bmsg \in Msgs
    BY <1>12 DEF BrokerRelease, BrokerTypes, BrokerSteps
  <2>2. MsgTypes'
    BY <1>12, <2>1, ReleaseTyped DEF BrokerRelease, MsgTypes
  <2>3. BrokerTypes'
    BY <1>12 DEF BrokerRelease, BrokerTypes, BrokerSteps
  <2>4. ListTypes' /\ QueueTypes' /\ ThreadTypes' /\ HistoryTypes'
    BY <1>12 DEF BrokerRelease, ListTypes, QueueTypes, ThreadTypes, HistoryTypes,
       configVars, threadVars, history
  <2> QED
    BY <2>2, <2>3, <2>4
<1>13. ASSUME BrokerSubmit
      PROVE  TypeOK'
  <2>1. BrokerTypes'
    BY <1>13 DEF BrokerSubmit, Submitted, BrokerTypes, BrokerSteps
  <2>2. MsgTypes' /\ ListTypes' /\ QueueTypes' /\ ThreadTypes' /\ HistoryTypes'
    BY <1>13 DEF BrokerSubmit, MsgTypes, ListTypes, QueueTypes, ThreadTypes,
       HistoryTypes, msgVars, configVars, threadVars, history
  <2> QED
    BY <2>1, <2>2
<1>14. ASSUME NEW t \in Threads, NEW s \in Subs, Get(t, s)
      PROVE  TypeOK'
  <2>1. QueueTypes'
    BY <1>14, GetTyped DEF Get
  <2>2. ThreadTypes'
    <3>1. Head(queue[s]) \in Msgs
      BY <1>14, GetTyped DEF Get
    <3> QED
      BY <1>14, <3>1, NoneAssumption, GotoTyped DEF Get, Fits, ThreadSteps
  <2>3. MsgTypes' /\ ListTypes' /\ BrokerTypes' /\ HistoryTypes'
    BY <1>14 DEF Get, MsgTypes, ListTypes, BrokerTypes, HistoryTypes, msgVars,
       configVars, brokerVars, history
  <2> QED
    BY <2>1, <2>2, <2>3
<1>15. ASSUME NEW t \in Threads, ReadBroker(t)
      PROVE  TypeOK'
  <2>1. tmsg[t] \in Msgs /\ tsub[t] \in Subs
    BY <1>15 DEF ReadBroker, ThreadTypes, Fits
  <2>2. ThreadTypes'
    BY <1>15, <2>1, NoneAssumption, GotoTyped DEF ReadBroker, Fits, ThreadSteps
  <2>3. MsgTypes' /\ ListTypes' /\ QueueTypes' /\ BrokerTypes' /\ HistoryTypes'
    BY <1>15 DEF ReadBroker, MsgTypes, ListTypes, QueueTypes, BrokerTypes, HistoryTypes,
       msgVars, configVars, brokerVars, history
  <2> QED
    BY <2>2, <2>3
<1>16. ASSUME NEW t \in Threads, ForwardLock(t)
      PROVE  TypeOK'
  <2>1. tmsg[t] \in Msgs /\ tsub[t] \in Subs
    BY <1>16 DEF ForwardLock, ThreadTypes, Fits
  <2>2. ListTypes'
    BY <1>16 DEF ForwardLock, ListTypes, configVars
  <2>3. ThreadTypes'
    BY <1>16, <2>1, NoneAssumption, GotoTyped DEF ForwardLock, Fits, ThreadSteps
  <2>4. MsgTypes' /\ QueueTypes' /\ BrokerTypes' /\ HistoryTypes'
    BY <1>16 DEF ForwardLock, MsgTypes, QueueTypes, BrokerTypes, HistoryTypes, msgVars,
       brokerVars, history
  <2> QED
    BY <2>2, <2>3, <2>4
<1>17. ASSUME NEW t \in Threads, Search(t)
      PROVE  TypeOK'
  <2>1. tmsg[t] \in Msgs /\ tsub[t] \in Subs /\ ToSet(list) \subseteq Subs
    BY <1>17, LinksStayInList DEF Search, ThreadTypes, Fits, ListTypes
  <2>2. MsgTypes'
    <3>1. UNCHANGED <<id, retained>> /\ (UNCHANGED <<ref, free>> \/ Acquire(tmsg[t]))
      BY <1>17 DEF Search
    <3> QED
      BY <2>1, <3>1, AcquireTyped DEF MsgTypes
  <2>3. ListTypes'
    BY <1>17 DEF Search, ListTypes, configVars
  <2>4. ThreadTypes'
    BY <1>17, <2>1, NoneAssumption, GotoTyped DEF Search, Fits, ThreadSteps, WantingBehind
  <2>5. QueueTypes' /\ BrokerTypes' /\ HistoryTypes'
    BY <1>17 DEF Search, QueueTypes, BrokerTypes, HistoryTypes, brokerVars, history
  <2> QED
    BY <2>2, <2>3, <2>4, <2>5
<1>18. ASSUME NEW t \in Threads, ForwardPut(t)
      PROVE  TypeOK'
  <2>1. tmsg[t] \in Msgs /\ tsub[t] \in Subs /\ tnext[t] \in Subs /\ RxType[tnext[t]] = "fifo"
    BY <1>18 DEF ForwardPut, ThreadTypes, Fits
  <2>2. ListTypes'
    BY <1>18 DEF ForwardPut, ListTypes, configVars
  <2>3. QueueTypes'
    BY <1>18, <2>1, PutTyped DEF ForwardPut, HasRoom
  <2>4. ThreadTypes'
    BY <1>18, <2>1, NoneAssumption, GotoTyped DEF ForwardPut, Fits, ThreadSteps
  <2>5. MsgTypes' /\ BrokerTypes' /\ HistoryTypes'
    BY <1>18 DEF ForwardPut, MsgTypes, BrokerTypes, HistoryTypes, msgVars, brokerVars,
       history
  <2> QED
    BY <2>2, <2>3, <2>4, <2>5
<1>19. ASSUME NEW t \in Threads, HandlerReturns(t)
      PROVE  TypeOK'
  <2>1. tmsg[t] \in Msgs /\ tsub[t] \in Subs
    BY <1>19 DEF HandlerReturns, ThreadTypes, Fits
  <2>2. MsgTypes'
    BY <1>19, <2>1, ReleaseTyped DEF HandlerReturns, MsgTypes
  <2>3. ThreadTypes'
    BY <1>19, ReturnTyped DEF HandlerReturns
  <2>4. HistoryTypes'
    BY <1>19, <2>1, HandledTyped DEF HandlerReturns, HistoryTypes
  <2>5. ListTypes' /\ QueueTypes' /\ BrokerTypes'
    BY <1>19 DEF HandlerReturns, ListTypes, QueueTypes, BrokerTypes, configVars, brokerVars
  <2> QED
    BY <2>2, <2>3, <2>4, <2>5
<1>20. ASSUME NEW s \in Subs, NEW m \in Msgs, Retain(s, m)
      PROVE  TypeOK'
  <2>1. MsgTypes'
    BY <1>20, AcquireTyped DEF Retain, MsgTypes
  <2>2. ListTypes' /\ QueueTypes' /\ BrokerTypes' /\ ThreadTypes' /\ HistoryTypes'
    BY <1>20 DEF Retain, ListTypes, QueueTypes, BrokerTypes, ThreadTypes, HistoryTypes,
       configVars, brokerVars, threadVars, history
  <2> QED
    BY <2>1, <2>2
<1>21. ASSUME NEW s \in Subs, NEW m \in Msgs, ReleaseRetained(s, m)
      PROVE  TypeOK'
  <2>1. MsgTypes'
    BY <1>21, ReleaseTyped DEF ReleaseRetained, MsgTypes
  <2>2. ListTypes' /\ QueueTypes' /\ BrokerTypes' /\ ThreadTypes' /\ HistoryTypes'
    BY <1>21 DEF ReleaseRetained, ListTypes, QueueTypes, BrokerTypes, ThreadTypes,
       HistoryTypes, configVars, brokerVars, threadVars, history
  <2> QED
    BY <2>1, <2>2
<1>22. ASSUME NEW t \in Threads, NEW s \in Subs, StartRemove(t, s)
      PROVE  TypeOK'
  <2>1. ThreadTypes'
    BY <1>22, NoneAssumption, GotoTyped DEF StartRemove, Fits, ThreadSteps
  <2>2. MsgTypes' /\ ListTypes' /\ QueueTypes' /\ BrokerTypes' /\ HistoryTypes'
    BY <1>22 DEF StartRemove, MsgTypes, ListTypes, QueueTypes, BrokerTypes,
       HistoryTypes, msgVars, configVars, brokerVars, history
  <2> QED
    BY <2>1, <2>2
<1>23. ASSUME NEW t \in Threads, RemoveBroker(t)
      PROVE  TypeOK'
  <2>1. tsub[t] \in Subs
    BY <1>23 DEF RemoveBroker, ThreadTypes, Fits
  <2>2. ListTypes'
    BY <1>23, RemovedAt DEF RemoveBroker, ListTypes, Removed
  <2>3. ThreadTypes'
    BY <1>23, <2>1, NoneAssumption, GotoTyped DEF RemoveBroker, Fits, ThreadSteps
  <2>4. MsgTypes' /\ QueueTypes' /\ BrokerTypes' /\ HistoryTypes'
    BY <1>23 DEF RemoveBroker, MsgTypes, QueueTypes, BrokerTypes, HistoryTypes, msgVars,
       brokerVars, history
  <2> QED
    BY <2>2, <2>3, <2>4
<1>24. ASSUME NEW t \in Threads, ClearBroker(t)
      PROVE  TypeOK'
  <2>1. ListTypes'
    BY <1>24 DEF ClearBroker, ListTypes, configVars
  <2>2. ThreadTypes'
    BY <1>24, ReturnTyped DEF ClearBroker
  <2>3. MsgTypes' /\ QueueTypes' /\ BrokerTypes' /\ HistoryTypes'
    BY <1>24 DEF ClearBroker, MsgTypes, QueueTypes, BrokerTypes, HistoryTypes, msgVars,
       brokerVars, history
  <2> QED
    BY <2>1, <2>2, <2>3
<1>25. ASSUME NEW t \in Threads, NEW s \in Subs, StartAdd(t, s)
      PROVE  TypeOK'
  <2>1. ListTypes'
    BY <1>25 DEF StartAdd, ListTypes, configVars
  <2>2. ThreadTypes'
    BY <1>25, NoneAssumption, GotoTyped DEF StartAdd, Fits, ThreadSteps
  <2>3. MsgTypes' /\ QueueTypes' /\ BrokerTypes' /\ HistoryTypes'
    BY <1>25 DEF StartAdd, MsgTypes, QueueTypes, BrokerTypes, HistoryTypes, msgVars,
       brokerVars, history
  <2> QED
    BY <2>1, <2>2, <2>3
<1>26. ASSUME NEW t \in Threads, AddSubscriber(t)
      PROVE  TypeOK'
  <2>1. tsub[t] \in Subs
    BY <1>26 DEF AddSubscriber, ThreadTypes, Fits
  <2>2. ListTypes'
    BY <1>26, <2>1, InsertedAt DEF AddSubscriber, ListTypes
  <2>3. ThreadTypes'
    BY <1>26, ReturnTyped DEF AddSubscriber
  <2>4. MsgTypes' /\ QueueTypes' /\ BrokerTypes' /\ HistoryTypes'
    BY <1>26 DEF AddSubscriber, MsgTypes, QueueTypes, BrokerTypes, HistoryTypes,
       msgVars, brokerVars, history
  <2> QED
    BY <2>2, <2>3, <2>4
<1>27. ASSUME NEW t \in Threads, NEW s \in Subs, NEW i \in MsgIds, Subscribe(t, s, i)
      PROVE  TypeOK'
  <2>1. ListTypes'
    BY <1>27 DEF Subscribe, ListTypes, configVars
  <2>2. MsgTypes' /\ QueueTypes' /\ BrokerTypes' /\ ThreadTypes' /\ HistoryTypes'
    BY <1>27 DEF Subscribe, MsgTypes, QueueTypes, BrokerTypes, ThreadTypes,
       HistoryTypes, msgVars, brokerVars, threadVars, history
  <2> QED
    BY <2>1, <2>2
<1>28. ASSUME NEW t \in Threads, NEW s \in Subs, NEW i \in MsgIds, Unsubscribe(t, s, i)
      PROVE  TypeOK'
  <2>1. ListTypes'
    BY <1>28 DEF Unsubscribe, ListTypes, configVars
  <2>2. MsgTypes' /\ QueueTypes' /\ BrokerTypes' /\ ThreadTypes' /\ HistoryTypes'
    BY <1>28 DEF Unsubscribe, MsgTypes, QueueTypes, BrokerTypes, ThreadTypes,
       HistoryTypes, msgVars, brokerVars, threadVars, history
  <2> QED
    BY <2>1, <2>2
<1>29. CASE Quiescent
  BY <1>29 DEF Quiescent, vars, msgVars, configVars, brokerVars, threadVars, history,
             MsgTypes, ListTypes, QueueTypes, BrokerTypes, ThreadTypes, HistoryTypes
<1> QED
  BY <1>1, <1>2, <1>3, <1>4, <1>5, <1>6, <1>7, <1>8, <1>9, <1>10, <1>11, <1>12, <1>13,
     <1>14, <1>15, <1>16, <1>17, <1>18, <1>19, <1>20, <1>21, <1>22, <1>23, <1>24, <1>25,
     <1>26, <1>27, <1>28, <1>29
     DEF Next, BrokerStep, ThreadStep, ThreadStart

(* There is an id to initialize the messages with.                         *)
LEMMA FirstMsgId == (CHOOSE i \in MsgIds : TRUE) \in MsgIds
<1>1. MsgIds # {}
  BY SomeMsgIdAssumption
<1>2. \E i \in MsgIds : TRUE
  BY <1>1, Zenon
<1> QED
  BY <1>2, Zenon

(* Whatever the threads do and however they are interleaved, every step    *)
(* finds the message and the subscriber it works on, and no message queue  *)
(* is filled beyond its capacity.                                          *)
THEOREM TypeCorrect == Spec => []TypeOK
<1>1. Init => TypeOK
  <2> SUFFICES ASSUME Init
               PROVE  TypeOK
    OBVIOUS
  <2>1. MsgTypes
    <3> DEFINE first == CHOOSE i \in MsgIds : TRUE
    <3>1. first \in MsgIds
      BY FirstMsgId
    <3>2. id \in [Msgs -> {first}]
      BY DEF Init
    <3> HIDE DEF first
    <3>3. id \in [Msgs -> MsgIds]
      BY <3>1, <3>2
    <3>4. /\ free = Msgs
          /\ ref = [m \in Msgs |-> 0]
          /\ retained = [s \in Subs |-> {}]
      BY DEF Init
    <3> QED
      BY <3>3, <3>4 DEF MsgTypes
  <2>2. ListTypes
    BY InitAssumption DEF Init, ListTypes
  <2>3. QueueTypes
    BY MsgqLenAssumption DEF Init, QueueTypes
  <2>4. BrokerTypes
    BY DEF Init, BrokerTypes, BrokerSteps
  <2>5. ThreadTypes
    BY NoneAssumption DEF Init, ThreadTypes, ThreadSteps, Fits
  <2>6. HistoryTypes
    BY DEF Init, HistoryTypes
  <2> QED
    BY <2>1, <2>2, <2>3, <2>4, <2>5, <2>6 DEF TypeOK
<1>2. TypeOK /\ UNCHANGED vars => TypeOK'
  BY DEF TypeOK, vars, msgVars, configVars, brokerVars, threadVars, history,
         MsgTypes, ListTypes, QueueTypes, BrokerTypes, ThreadTypes, HistoryTypes
<1> QED
  BY <1>1, <1>2, NextTyped, PTL DEF Spec

-----------------------------------------------------------------------------
(* The lock.                                                               *)

(* A step that leaves the lock alone keeps who owns it if nobody enters or *)
(* leaves the steps that are taken with the lock held.                     *)
LEMMA OwnerKept ==
    ASSUME OwnerWalks, ThreadTypes, NEW t \in Threads, NEW pc, NEW m, NEW s, NEW next,
           Goto(t, pc, m, s, next), tpc[t] \in SearchSteps <=> pc \in SearchSteps,
           mutex' = mutex, bpc \in WalkSteps <=> bpc' \in WalkSteps
    PROVE  OwnerWalks'
<1>1. ASSUME NEW u \in Threads
      PROVE  tpc'[u] \in SearchSteps <=> tpc[u] \in SearchSteps
  BY DEF Goto, ThreadTypes
<1> QED
  BY <1>1 DEF OwnerWalks

(* When nobody owns the lock, nobody is at such a step.                    *)
LEMMA NobodyWalks ==
    ASSUME WalksUnderLock, MutexFree
    PROVE  /\ bpc \notin WalkSteps /\ bsub = None
           /\ \A t \in Threads : tpc[t] \notin SearchSteps
BY NoneAssumption DEF WalksUnderLock, OwnerWalks, WalkInList, MutexFree

(* When the broker owns it, no thread is.                                  *)
LEMMA OnlyBrokerWalks ==
    ASSUME WalksUnderLock, bpc \in WalkSteps
    PROVE  mutex = WorkQ /\ \A t \in Threads : tpc[t] \notin SearchSteps
BY WorkQAssumption DEF WalksUnderLock, OwnerWalks

(* When a thread owns it, the broker does not, nor does another thread.    *)
LEMMA OnlyThreadWalks ==
    ASSUME WalksUnderLock, NEW t \in Threads, tpc[t] \in SearchSteps
    PROVE  /\ mutex = t /\ bpc \notin WalkSteps
           /\ \A u \in Threads \ {t} : tpc[u] \notin SearchSteps
BY WorkQAssumption DEF WalksUnderLock, OwnerWalks

(* Advancing to a subscriber of the list, or to its end, stays in it.      *)
LEMMA AdvanceInList ==
    ASSUME NEW sub \in ToSet(list) \cup {None}, Advance(sub), UNCHANGED list,
           bpc' \in WalkSteps
    PROVE  WalkInList'
BY DEF Advance, WalkInList
(* Every action keeps the discipline: those that change the list or walk   *)
(* it do so with the lock held, the others leave the walk alone.           *)
LEMMA NextWalks ==
    ASSUME TypeOK, WalksUnderLock, Next
    PROVE  WalksUnderLock'
<1>0. ListTypes /\ BrokerTypes /\ ThreadTypes /\ OwnerWalks /\ WalkInList
  BY DEF TypeOK, WalksUnderLock
<1> USE <1>0
<1>1. ASSUME NEW t \in Threads, NEW m \in Msgs, NEW i \in MsgIds, NewMsg(t, m, i)
      PROVE  WalksUnderLock'
  <2>1. OwnerWalks'
    BY <1>1, OwnerKept DEF NewMsg, Return, SearchSteps, brokerVars
  <2>2. WalkInList'
    BY <1>1 DEF NewMsg, WalkInList, configVars, brokerVars
  <2> QED
    BY <2>1, <2>2 DEF WalksUnderLock
<1>2. ASSUME NEW t \in Threads, Publish(t)
      PROVE  WalksUnderLock'
  <2>1. OwnerWalks'
    BY <1>2, OwnerKept DEF Publish, Return, SearchSteps, WalkSteps
  <2>2. WalkInList'
    BY <1>2 DEF Publish, WalkInList, WalkSteps, configVars
  <2> QED
    BY <2>1, <2>2 DEF WalksUnderLock
<1>3. ASSUME NEW t \in Threads, Discard(t)
      PROVE  WalksUnderLock'
  <2>1. OwnerWalks'
    BY <1>3, OwnerKept DEF Discard, Return, SearchSteps, brokerVars
  <2>2. WalkInList'
    BY <1>3 DEF Discard, WalkInList, configVars, brokerVars
  <2> QED
    BY <2>1, <2>2 DEF WalksUnderLock
<1>4. ASSUME NEW t \in Threads, NEW s \in Subs, PublishTo(t, s)
      PROVE  WalksUnderLock'
  <2>1. OwnerWalks'
    <3>1. CASE Goto(t, "direct", tmsg[t], s, None)
      BY <1>4, <3>1, OwnerKept DEF PublishTo, SearchSteps, brokerVars
    <3>2. CASE Goto(t, "directput", tmsg[t], s, None)
      BY <1>4, <3>2, OwnerKept DEF PublishTo, SearchSteps, brokerVars
    <3>3. CASE Return(t)
      BY <1>4, <3>3, OwnerKept DEF PublishTo, Return, SearchSteps, brokerVars
    <3> QED
      BY <1>4, <3>1, <3>2, <3>3 DEF PublishTo
  <2>2. WalkInList'
    BY <1>4 DEF PublishTo, WalkInList, configVars, brokerVars
  <2> QED
    BY <2>1, <2>2 DEF WalksUnderLock
<1>5. ASSUME NEW t \in Threads, DirectPut(t)
      PROVE  WalksUnderLock'
  <2>1. OwnerWalks'
    BY <1>5, OwnerKept DEF DirectPut, Return, SearchSteps, brokerVars
  <2>2. WalkInList'
    BY <1>5 DEF DirectPut, WalkInList, configVars, brokerVars
  <2> QED
    BY <2>1, <2>2 DEF WalksUnderLock
<1>6. ASSUME BrokerGet
      PROVE  WalksUnderLock'
  <2>1. OwnerWalks'
    BY <1>6 DEF BrokerGet, OwnerWalks, WalkSteps, threadVars
  <2>2. WalkInList'
    BY <1>6 DEF BrokerGet, WalkInList, WalkSteps, configVars
  <2> QED
    BY <2>1, <2>2 DEF WalksUnderLock
<1>7. ASSUME BrokerLock
      PROVE  WalksUnderLock'
  <2>1. OwnerWalks'
    BY <1>7, NobodyWalks, WorkQAssumption DEF BrokerLock, OwnerWalks, WalkSteps, threadVars
  <2>2. WalkInList'
    BY <1>7, LinksStayInList, AdvanceInList DEF BrokerLock, ListTypes, WalkSteps, configVars
  <2> QED
    BY <2>1, <2>2 DEF WalksUnderLock
<1>8. ASSUME BrokerVisit
      PROVE  WalksUnderLock'
  <2>1. OwnerWalks'
    BY <1>8 DEF BrokerVisit, OwnerWalks, WalkSteps, threadVars
  <2>2. WalkInList'
    <3>1. CASE UNCHANGED <<bsub, bnext>>
      BY <1>8, <3>1 DEF BrokerVisit, WalkInList, WalkSteps, configVars
    <3>2. CASE bsub # None /\ Advance(bnext) /\ UNCHANGED bpc
      <4>1. bnext \in ToSet(list) \cup {None}
        BY <3>2, LinksStayInList DEF WalkInList, ListTypes
      <4> QED
        BY <1>8, <3>2, <4>1, AdvanceInList DEF BrokerVisit, WalkSteps, configVars
    <3> QED
      BY <1>8, <3>1, <3>2 DEF BrokerVisit
  <2> QED
    BY <2>1, <2>2 DEF WalksUnderLock
<1>9. ASSUME BrokerCalled
      PROVE  WalksUnderLock'
  <2>1. OwnerWalks'
    BY <1>9 DEF BrokerCalled, OwnerWalks, WalkSteps, threadVars
  <2>2. bnext \in ToSet(list) \cup {None}
    BY <1>9, NoneAssumption, LinksStayInList DEF BrokerCalled, BrokerTypes, WalkInList,
       ListTypes
  <2>3. WalkInList'
    BY <1>9, <2>2, AdvanceInList DEF BrokerCalled, WalkSteps, configVars
  <2> QED
    BY <2>1, <2>3 DEF WalksUnderLock
<1>10. ASSUME BrokerPut
      PROVE  WalksUnderLock'
  <2>1. OwnerWalks'
    BY <1>10 DEF BrokerPut, OwnerWalks, WalkSteps, threadVars
  <2>2. bnext \in ToSet(list) \cup {None}
    BY <1>10, NoneAssumption, LinksStayInList DEF BrokerPut, BrokerTypes, WalkInList,
       ListTypes
  <2>3. WalkInList'
    <3>1. CASE UNCHANGED <<bsub, bnext>> /\ bpc' = "unlock"
      BY <1>10, <3>1 DEF BrokerPut, WalkInList, WalkSteps, configVars
    <3>2. CASE Advance(bnext) /\ bpc' = "visit"
      BY <1>10, <2>2, <3>2, AdvanceInList DEF BrokerPut, WalkSteps, configVars
    <3> QED
      BY <1>10, <3>1, <3>2 DEF BrokerPut
  <2> QED
    BY <2>1, <2>3 DEF WalksUnderLock
<1>11. ASSUME BrokerUnlock
      PROVE  WalksUnderLock'
  <2>1. OwnerWalks'
    BY <1>11, OnlyBrokerWalks, NoneAssumption
       DEF BrokerUnlock, OwnerWalks, WalkSteps, threadVars
  <2>2. WalkInList'
    BY <1>11 DEF BrokerUnlock, WalkInList
  <2> QED
    BY <2>1, <2>2 DEF WalksUnderLock
<1>12. ASSUME BrokerRelease
      PROVE  WalksUnderLock'
  <2>1. OwnerWalks'
    BY <1>12 DEF BrokerRelease, OwnerWalks, WalkSteps, threadVars
  <2>2. WalkInList'
    BY <1>12 DEF BrokerRelease, WalkInList, WalkSteps, configVars
  <2> QED
    BY <2>1, <2>2 DEF WalksUnderLock
<1>13. ASSUME BrokerSubmit
      PROVE  WalksUnderLock'
  <2>1. OwnerWalks'
    BY <1>13 DEF BrokerSubmit, OwnerWalks, WalkSteps, Submitted, threadVars
  <2>2. WalkInList'
    BY <1>13 DEF BrokerSubmit, WalkInList, WalkSteps, Submitted, configVars
  <2> QED
    BY <2>1, <2>2 DEF WalksUnderLock
<1>14. ASSUME NEW t \in Threads, NEW s \in Subs, Get(t, s)
      PROVE  WalksUnderLock'
  <2>1. OwnerWalks'
    BY <1>14, OwnerKept DEF Get, Return, SearchSteps, brokerVars
  <2>2. WalkInList'
    BY <1>14 DEF Get, WalkInList, configVars, brokerVars
  <2> QED
    BY <2>1, <2>2 DEF WalksUnderLock
<1>15. ASSUME NEW t \in Threads, ReadBroker(t)
      PROVE  WalksUnderLock'
  <2>1. OwnerWalks'
    BY <1>15, OwnerKept DEF ReadBroker, Return, SearchSteps, brokerVars
  <2>2. WalkInList'
    BY <1>15 DEF ReadBroker, WalkInList, configVars, brokerVars
  <2> QED
    BY <2>1, <2>2 DEF WalksUnderLock
<1>16. ASSUME NEW t \in Threads, ForwardLock(t)
      PROVE  WalksUnderLock'
  <2>1. OwnerWalks'
    BY <1>16, NobodyWalks, WorkQAssumption
       DEF ForwardLock, Goto, OwnerWalks, SearchSteps, ThreadTypes, brokerVars
  <2>2. WalkInList'
    BY <1>16 DEF ForwardLock, WalkInList, configVars, brokerVars
  <2> QED
    BY <2>1, <2>2 DEF WalksUnderLock
<1>17. ASSUME NEW t \in Threads, Search(t)
      PROVE  WalksUnderLock'
  <2>1. OwnerWalks'
    <3>1. CASE mutex' = None /\ Goto(t, "handle", tmsg[t], tsub[t], None)
      BY <1>17, <3>1, OnlyThreadWalks, NoneAssumption
         DEF Search, Goto, OwnerWalks, SearchSteps, ThreadTypes, brokerVars
    <3>2. ASSUME UNCHANGED mutex, NEW u, NEW pc \in SearchSteps,
                 Goto(t, pc, tmsg[t], tsub[t], u)
          PROVE  OwnerWalks'
      BY <1>17, <3>2, OwnerKept DEF Search, SearchSteps, brokerVars
    <3> QED
      BY <1>17, <3>1, <3>2 DEF Search, SearchSteps
  <2>2. WalkInList'
    BY <1>17 DEF Search, WalkInList, configVars, brokerVars
  <2> QED
    BY <2>1, <2>2 DEF WalksUnderLock
<1>18. ASSUME NEW t \in Threads, ForwardPut(t)
      PROVE  WalksUnderLock'
  <2>1. OwnerWalks'
    BY <1>18, OnlyThreadWalks, NoneAssumption
       DEF ForwardPut, Goto, OwnerWalks, SearchSteps, ThreadTypes, brokerVars
  <2>2. WalkInList'
    BY <1>18 DEF ForwardPut, WalkInList, configVars, brokerVars
  <2> QED
    BY <2>1, <2>2 DEF WalksUnderLock
<1>19. ASSUME NEW t \in Threads, HandlerReturns(t)
      PROVE  WalksUnderLock'
  <2>1. OwnerWalks'
    BY <1>19, OwnerKept DEF HandlerReturns, Return, SearchSteps, brokerVars
  <2>2. WalkInList'
    BY <1>19 DEF HandlerReturns, WalkInList, configVars, brokerVars
  <2> QED
    BY <2>1, <2>2 DEF WalksUnderLock
<1>20. ASSUME NEW s \in Subs, NEW m \in Msgs, Retain(s, m)
      PROVE  WalksUnderLock'
  BY <1>20 DEF Retain, WalksUnderLock, OwnerWalks, WalkInList, configVars, brokerVars,
     threadVars
<1>21. ASSUME NEW s \in Subs, NEW m \in Msgs, ReleaseRetained(s, m)
      PROVE  WalksUnderLock'
  BY <1>21 DEF ReleaseRetained, WalksUnderLock, OwnerWalks, WalkInList, configVars,
     brokerVars, threadVars
<1>22. ASSUME NEW t \in Threads, NEW s \in Subs, StartRemove(t, s)
      PROVE  WalksUnderLock'
  <2>1. OwnerWalks'
    BY <1>22, OwnerKept DEF StartRemove, Return, SearchSteps, brokerVars
  <2>2. WalkInList'
    BY <1>22 DEF StartRemove, WalkInList, configVars, brokerVars
  <2> QED
    BY <2>1, <2>2 DEF WalksUnderLock
<1>23. ASSUME NEW t \in Threads, RemoveBroker(t)
      PROVE  WalksUnderLock'
  <2>1. OwnerWalks'
    BY <1>23, OwnerKept DEF RemoveBroker, Return, SearchSteps, brokerVars
  <2>2. WalkInList'
    BY <1>23, NobodyWalks DEF RemoveBroker, WalkInList, brokerVars
  <2> QED
    BY <2>1, <2>2 DEF WalksUnderLock
<1>24. ASSUME NEW t \in Threads, AddSubscriber(t)
      PROVE  WalksUnderLock'
  <2>1. OwnerWalks'
    BY <1>24, OwnerKept DEF AddSubscriber, Return, SearchSteps, brokerVars
  <2>2. WalkInList'
    BY <1>24, NobodyWalks DEF AddSubscriber, WalkInList, brokerVars
  <2> QED
    BY <2>1, <2>2 DEF WalksUnderLock
<1>25. ASSUME NEW t \in Threads, ClearBroker(t)
      PROVE  WalksUnderLock'
  <2>1. OwnerWalks'
    BY <1>25, OwnerKept DEF ClearBroker, Return, SearchSteps, brokerVars
  <2>2. WalkInList'
    BY <1>25 DEF ClearBroker, WalkInList, configVars, brokerVars
  <2> QED
    BY <2>1, <2>2 DEF WalksUnderLock
<1>26. ASSUME NEW t \in Threads, NEW s \in Subs, StartAdd(t, s)
      PROVE  WalksUnderLock'
  <2>1. OwnerWalks'
    BY <1>26, OwnerKept DEF StartAdd, Return, SearchSteps, brokerVars
  <2>2. WalkInList'
    BY <1>26 DEF StartAdd, WalkInList, configVars, brokerVars
  <2> QED
    BY <2>1, <2>2 DEF WalksUnderLock
<1>27. ASSUME NEW t \in Threads, NEW s \in Subs, NEW i \in MsgIds, Subscribe(t, s, i)
      PROVE  WalksUnderLock'
  BY <1>27 DEF Subscribe, WalksUnderLock, OwnerWalks, WalkInList, brokerVars, threadVars
<1>28. ASSUME NEW t \in Threads, NEW s \in Subs, NEW i \in MsgIds, Unsubscribe(t, s, i)
      PROVE  WalksUnderLock'
  BY <1>28 DEF Unsubscribe, WalksUnderLock, OwnerWalks, WalkInList, brokerVars, threadVars
<1>29. CASE Quiescent
  BY <1>29 DEF Quiescent, WalksUnderLock, vars, configVars, brokerVars, threadVars,
     OwnerWalks, WalkInList
<1> QED
  BY <1>1, <1>2, <1>3, <1>4, <1>5, <1>6, <1>7, <1>8, <1>9, <1>10, <1>11, <1>12, <1>13,
     <1>14, <1>15, <1>16, <1>17, <1>18, <1>19, <1>20, <1>21, <1>22, <1>23, <1>24, <1>25,
     <1>26, <1>27, <1>28, <1>29
     DEF Next, BrokerStep, ThreadStep, ThreadStart

(* The broker walks the list, and a fifo subscriber's thread searches it,  *)
(* only with sub_list_mutex held, one at a time; the subscriber the broker *)
(* is at and the one it has saved as next are in the list, however others  *)
(* add and remove subscribers meanwhile.                                   *)
THEOREM LockDiscipline == Spec => []WalksUnderLock
<1>1. Init => WalksUnderLock
  BY NoneAssumption, WorkQAssumption
     DEF Init, WalksUnderLock, OwnerWalks, WalkInList, WalkSteps, SearchSteps
<1>2. TypeOK /\ WalksUnderLock /\ [Next]_vars => WalksUnderLock'
  <2>1. WalksUnderLock /\ UNCHANGED vars => WalksUnderLock'
    BY DEF vars, configVars, brokerVars, threadVars, WalksUnderLock, OwnerWalks, WalkInList
  <2> QED
    BY <2>1, NextWalks
<1> QED
  BY <1>1, <1>2, TypeCorrect, PTL DEF Spec
-----------------------------------------------------------------------------
(* The work item.                                                          *)

(* A message put into the publish fifo between the work item's last look   *)
(* at it and the moment it polls the fifo again is not left there: it is   *)
(* armed only while the fifo is empty.                                     *)
THEOREM WorkItemSeesAll == Spec => []NoLostWakeup
<1>1. Init => NoLostWakeup
  BY DEF Init, NoLostWakeup
<1>2. NoLostWakeup /\ [Next]_vars => NoLostWakeup'
  <2> SUFFICES ASSUME NoLostWakeup, [Next]_vars
               PROVE  NoLostWakeup'
    OBVIOUS
  <2>1. ASSUME UNCHANGED <<pubFifo, bpc>> \/ bpc' # "armed"
        PROVE  NoLostWakeup'
    BY <2>1 DEF NoLostWakeup
  <2>2. ASSUME BrokerStep
        PROVE  NoLostWakeup'
    <3>1. CASE BrokerGet
      BY <2>1, <3>1 DEF BrokerGet
    <3>2. CASE BrokerSubmit
      BY <3>2 DEF BrokerSubmit, Submitted, NoLostWakeup
    <3>3. CASE BrokerLock \/ BrokerVisit \/ BrokerCalled
      BY <2>1, <3>3 DEF BrokerLock, BrokerVisit, BrokerCalled
    <3>4. CASE BrokerPut \/ BrokerUnlock \/ BrokerRelease
      BY <2>1, <3>4 DEF BrokerPut, BrokerUnlock, BrokerRelease
    <3> QED
      BY <2>2, <3>1, <3>2, <3>3, <3>4 DEF BrokerStep
  <2>3. ASSUME NEW t \in Threads, ThreadStep(t)
        PROVE  NoLostWakeup'
    <3>1. CASE Publish(t)
      BY <2>1, <3>1 DEF Publish
    <3>2. CASE Discard(t) \/ DirectPut(t) \/ HandlerReturns(t)
      BY <2>1, <3>2 DEF Discard, DirectPut, HandlerReturns, brokerVars
    <3>3. CASE ReadBroker(t) \/ ForwardLock(t) \/ Search(t) \/ ForwardPut(t)
      BY <2>1, <3>3 DEF ReadBroker, ForwardLock, Search, ForwardPut, brokerVars
    <3>4. CASE RemoveBroker(t) \/ ClearBroker(t) \/ AddSubscriber(t)
      BY <2>1, <3>4 DEF RemoveBroker, ClearBroker, AddSubscriber, brokerVars
    <3>5. CASE \E s \in Subs : PublishTo(t, s) \/ Get(t, s)
      BY <2>1, <3>5 DEF PublishTo, Get, brokerVars
    <3> QED
      BY <2>3, <3>1, <3>2, <3>3, <3>4, <3>5 DEF ThreadStep
  <2>4. ASSUME NEW t \in Threads, ThreadStart(t)
        PROVE  NoLostWakeup'
    BY <2>1, <2>4 DEF ThreadStart, NewMsg, StartRemove, StartAdd, Subscribe, Unsubscribe,
                      brokerVars
  <2>5. ASSUME NEW s \in Subs, NEW m \in Msgs, Retain(s, m) \/ ReleaseRetained(s, m)
        PROVE  NoLostWakeup'
    BY <2>1, <2>5 DEF Retain, ReleaseRetained, brokerVars
  <2>6. CASE UNCHANGED vars
    BY <2>1, <2>6 DEF vars, brokerVars
  <2> QED
    BY <2>2, <2>3, <2>4, <2>5, <2>6 DEF Next, Quiescent
<1> QED
  BY <1>1, <1>2, PTL DEF Spec
-----------------------------------------------------------------------------
(* Who does what: of which type and whose the subscriber is that a thread  *)
(* or the broker is busy with.                                             *)

ConfigSteps  == {"remove", "clear", "add"}
PutSteps     == {"fput", "not a fifo"}
ForwardSteps == {"forward", "lock", "search", "null broker"} \cup PutSteps

Role(t, pc, s) ==
    /\ pc \in ConfigSteps => t \in Managers /\ s \in Managed
    /\ pc \in ForwardSteps => RxType[s] = "fifo"
    /\ pc \in ForwardSteps \cup {"handle"} => RxType[s] # "callback" /\ Server[s] = t
    /\ pc = "direct" => RxType[s] = "callback"
    /\ pc = "directput" => RxType[s] = "msgq"

Roles ==
    /\ \A t \in Threads : Role(t, tpc[t], tsub[t])
    /\ \A s \in Subs : RxType[s] = "callback" => queue[s] = <<>>
    /\ bpc = "call" => RxType[bsub] = "callback"
    /\ bpc = "put" => RxType[bsub] # "callback"

(* Threads go from step to step with the subscriber they began with.       *)
LEMMA NextRoles ==
    ASSUME TypeOK, Roles, [Next]_vars
    PROVE  Roles'
<1>1. ThreadTypes /\ QueueTypes
  BY DEF TypeOK
<1>2. ASSUME NEW t \in Threads, NEW pc, NEW m, NEW s, NEW next, Goto(t, pc, m, s, next),
             Role(t, pc, s),
             \A u \in Subs : RxType[u] = "callback" => queue'[u] = <<>>,
             UNCHANGED bsub, bpc' \in {"call", "put"} => bpc' = bpc
      PROVE  Roles'
  <2>1. /\ tpc'[t] = pc /\ tsub'[t] = s
        /\ \A u \in Threads \ {t} : tpc'[u] = tpc[u] /\ tsub'[u] = tsub[u]
    BY <1>1, <1>2 DEF Goto, ThreadTypes
  <2>2. \A u \in Threads : Role(u, tpc'[u], tsub'[u])
    BY <1>2, <2>1 DEF Roles
  <2> QED
    BY <1>2, <2>2 DEF Roles
<1>3. ASSUME NEW s \in Subs, NEW m, Put(s, m), RxType[s] # "callback"
      PROVE  \A u \in Subs : RxType[u] = "callback" => queue'[u] = <<>>
  BY <1>1, <1>3 DEF Put, Roles, QueueTypes
<1>4. ASSUME NEW t \in Threads, NEW pc, NEW m, NEW s, NEW next, Goto(t, pc, m, s, next),
             Role(t, pc, s), UNCHANGED <<queue, bsub, bpc>>
      PROVE  Roles'
  BY <1>2, <1>4 DEF Roles
<1>5. \A t, s : Role(t, "idle", s) /\ Role(t, "owns", s)
  BY DEF Role, ConfigSteps, ForwardSteps, PutSteps
<1>6. ASSUME NEW t \in Threads, ThreadStart(t)
      PROVE  Roles'
  <2>1. ASSUME NEW m \in Msgs, NEW i \in MsgIds, NewMsg(t, m, i)
        PROVE  Roles'
    BY <1>4, <1>5, <2>1 DEF NewMsg, brokerVars
  <2>2. ASSUME NEW s \in Subs, StartRemove(t, s)
        PROVE  Roles'
    <3>1. Role(t, "remove", s)
      BY <2>2 DEF StartRemove, Role, ConfigSteps, ForwardSteps, PutSteps
    <3> QED
      BY <1>4, <2>2, <3>1 DEF StartRemove, brokerVars
  <2>3. ASSUME NEW s \in Subs, StartAdd(t, s)
        PROVE  Roles'
    <3>1. Role(t, "add", s)
      BY <2>3 DEF StartAdd, Role, ConfigSteps, ForwardSteps, PutSteps
    <3> QED
      BY <1>4, <2>3, <3>1 DEF StartAdd, brokerVars
  <2>4. ASSUME NEW s \in Subs, NEW i \in MsgIds, Subscribe(t, s, i) \/ Unsubscribe(t, s, i)
        PROVE  Roles'
    BY <2>4 DEF Subscribe, Unsubscribe, Roles, threadVars, brokerVars
  <2> QED
    BY <1>6, <2>1, <2>2, <2>3, <2>4 DEF ThreadStart
<1>7. ASSUME NEW t \in Threads, ThreadStep(t)
      PROVE  Roles'
  <2>1. CASE Publish(t)
    BY <1>2, <1>5, <2>1 DEF Publish, Return, Roles
  <2>2. CASE Discard(t) \/ HandlerReturns(t) \/ ClearBroker(t) \/ AddSubscriber(t)
    BY <1>4, <1>5, <2>2
       DEF Discard, HandlerReturns, ClearBroker, AddSubscriber, Return, brokerVars
  <2>3. CASE DirectPut(t)
    <3>1. tsub[t] \in Subs /\ RxType[tsub[t]] # "callback"
      BY <1>1, <2>3 DEF DirectPut, ThreadTypes, Fits, Roles, Role
    <3>2. \A u \in Subs : RxType[u] = "callback" => queue'[u] = <<>>
      BY <1>3, <2>3, <3>1 DEF DirectPut
    <3> QED
      BY <1>2, <1>5, <2>3, <3>2 DEF DirectPut, Return, brokerVars
  <2>4. CASE ReadBroker(t)
    <3>1. PICK pc \in ForwardSteps : Goto(t, pc, tmsg[t], tsub[t], None)
      BY <2>4 DEF ReadBroker, ForwardSteps
    <3>2. Role(t, "forward", tsub[t])
      BY <2>4 DEF ReadBroker, Roles
    <3>3. Role(t, pc, tsub[t])
      BY <3>1, <3>2 DEF Role, ForwardSteps, ConfigSteps, PutSteps
    <3> QED
      BY <1>4, <2>4, <3>1, <3>3 DEF ReadBroker, brokerVars
  <2>5. CASE ForwardLock(t)
    <3>1. Role(t, "search", tsub[t])
      BY <2>5 DEF ForwardLock, Roles, Role, ForwardSteps, ConfigSteps, PutSteps
    <3> QED
      BY <1>4, <2>5, <3>1 DEF ForwardLock, brokerVars
  <2>6. CASE Search(t)
    <3>1. Role(t, "search", tsub[t])
      BY <2>6 DEF Search, Roles
    <3>2. \A pc \in PutSteps \cup {"handle"} : Role(t, pc, tsub[t])
      BY <3>1 DEF Role, ForwardSteps, ConfigSteps, PutSteps
    <3>3. PICK pc \in PutSteps \cup {"handle"} : \E u : Goto(t, pc, tmsg[t], tsub[t], u)
      BY <2>6 DEF Search, PutSteps
    <3> QED
      BY <1>4, <2>6, <3>2, <3>3 DEF Search, brokerVars
  <2>7. CASE ForwardPut(t)
    <3>1. Role(t, "handle", tsub[t])
      BY <2>7 DEF ForwardPut, Roles, Role, ForwardSteps, ConfigSteps, PutSteps
    <3>2. tnext[t] \in Subs /\ RxType[tnext[t]] # "callback"
      BY <1>1, <2>7 DEF ForwardPut, ThreadTypes, Fits
    <3>3. \A u \in Subs : RxType[u] = "callback" => queue'[u] = <<>>
      BY <1>3, <2>7, <3>2 DEF ForwardPut
    <3> QED
      BY <1>2, <2>7, <3>1, <3>3 DEF ForwardPut, brokerVars
  <2>8. CASE RemoveBroker(t)
    <3>1. Role(t, "clear", tsub[t])
      BY <2>8 DEF RemoveBroker, Roles, Role, ForwardSteps, ConfigSteps, PutSteps
    <3> QED
      BY <1>4, <2>8, <3>1 DEF RemoveBroker, brokerVars
  <2>9. ASSUME NEW s \in Subs, PublishTo(t, s)
        PROVE  Roles'
    <3>1. CASE RxType[s] = "callback" /\ Goto(t, "direct", tmsg[t], s, None) /\ UNCHANGED queue
      <4>1. Role(t, "direct", s)
        BY <3>1 DEF Role, ForwardSteps, ConfigSteps, PutSteps
      <4> QED
        BY <1>4, <2>9, <3>1, <4>1 DEF PublishTo, brokerVars
    <3>2. CASE RxType[s] = "msgq" /\ Goto(t, "directput", tmsg[t], s, None) /\ UNCHANGED queue
      <4>1. Role(t, "directput", s)
        BY <3>2 DEF Role, ForwardSteps, ConfigSteps, PutSteps
      <4> QED
        BY <1>4, <2>9, <3>2, <4>1 DEF PublishTo, brokerVars
    <3>3. CASE RxType[s] = "fifo" /\ Put(s, tmsg[t]) /\ Return(t)
      <4>1. \A u \in Subs : RxType[u] = "callback" => queue'[u] = <<>>
        BY <1>3, <3>3
      <4> QED
        BY <1>2, <1>5, <2>9, <3>3, <4>1 DEF PublishTo, Return, brokerVars
    <3> QED
      BY <2>9, <3>1, <3>2, <3>3 DEF PublishTo
  <2>10. ASSUME NEW s \in Subs, Get(t, s)
         PROVE  Roles'
    <3>1. RxType[s] # "callback" /\ Server[s] = t
      BY <2>10 DEF Get
    <3>2. PICK pc : Goto(t, pc, Head(queue[s]), s, None)
                    /\ (pc = "handle" \/ (pc = "forward" /\ RxType[s] = "fifo"))
      BY <2>10 DEF Get, Forwards
    <3>3. Role(t, pc, s)
      BY <3>1, <3>2 DEF Role, ForwardSteps, ConfigSteps, PutSteps
    <3>4. \A u \in Subs : RxType[u] = "callback" => queue'[u] = <<>>
      BY <1>1, <2>10, <3>1 DEF Get, Roles, QueueTypes
    <3> QED
      BY <1>2, <2>10, <3>2, <3>3, <3>4 DEF Get, brokerVars
  <2> QED
    BY <1>7, <2>1, <2>2, <2>3, <2>4, <2>5, <2>6, <2>7, <2>8, <2>9, <2>10 DEF ThreadStep
<1>8. ASSUME BrokerStep
      PROVE  Roles'
  <2>1. ASSUME UNCHANGED <<queue, threadVars>>, bpc' \in {"call", "put"} => FALSE
        PROVE  Roles'
    BY <2>1 DEF Roles, threadVars
  <2>2. CASE BrokerGet \/ BrokerLock \/ BrokerUnlock \/ BrokerRelease \/ BrokerSubmit
    BY <2>1, <2>2 DEF BrokerGet, BrokerLock, BrokerUnlock, BrokerRelease, BrokerSubmit, Submitted
  <2>3. CASE BrokerVisit
    BY <2>3 DEF BrokerVisit, Roles, threadVars
  <2>4. CASE BrokerCalled
    BY <2>1, <2>4 DEF BrokerCalled
  <2>5. CASE BrokerPut
    <3>1. bsub \in Subs /\ RxType[bsub] # "callback" /\ Put(bsub, bmsg)
      BY <2>5 DEF BrokerPut, Roles, TypeOK, BrokerTypes
    <3>2. \A u \in Subs : RxType[u] = "callback" => queue'[u] = <<>>
      BY <1>3, <3>1
    <3> QED
      BY <2>5, <3>2 DEF BrokerPut, Roles, threadVars
  <2> QED
    BY <1>8, <2>2, <2>3, <2>4, <2>5 DEF BrokerStep
<1>9. ASSUME UNCHANGED <<queue, threadVars, brokerVars>>
      PROVE  Roles'
  BY <1>9 DEF Roles, threadVars, brokerVars
<1> QED
  BY <1>6, <1>7, <1>8, <1>9 DEF Next, Retain, ReleaseRetained, Quiescent, vars

(* A thread at a step of send_to_next_fifo_subscriber serves a fifo        *)
(* subscriber, one at a step of a reconfiguration is a manager and works   *)
(* on a subscriber it may reconfigure, and each subscriber's messages are  *)
(* handled by the one thread that serves it.                               *)
LEMMA RolesKept == Spec => []Roles
<1>1. Init => Roles
  BY DEF Init, Roles, Role, ConfigSteps, ForwardSteps, PutSteps
<1> QED
  BY <1>1, NextRoles, TypeCorrect, PTL DEF Spec
-----------------------------------------------------------------------------
(* The list and the broker pointers.                                       *)

(* What the code does not check and its users have to see to: that no two  *)
(* threads reconfigure the same subscriber at once.                        *)
OneAtATime ==
    \A t, u \in Threads :
        tpc[t] \in ConfigSteps /\ tpc[u] \in ConfigSteps /\ tsub[t] = tsub[u] => t = u

(* A single thread that reconfigures is enough.                            *)
LEMMA OneManagerIsEnough ==
    ASSUME \A t, u \in Managers : t = u
    PROVE  Spec => []OneAtATime
<1>1. Roles => OneAtATime
  BY DEF Roles, Role, OneAtATime
<1> QED
  BY <1>1, RolesKept, PTL

(* Whoever is in the list has a broker, those that are being taken out or  *)
(* put in are not in the list, and nobody's place is lost while a message  *)
(* is forwarded to it.                                                     *)
Placed(pc, s, next) ==
    /\ pc \in {"clear", "add"} => s \notin ToSet(list)
    /\ pc = "add" => hasBroker[s]
    /\ pc \in PutSteps => next \in ToSet(list)

Configured ==
    /\ NoRepeats(list)
    /\ \A s \in ToSet(list) : hasBroker[s]
    /\ \A t \in Threads : Placed(tpc[t], tsub[t], tnext[t])

(* A subscriber gets into the list, or out of it, by the call that began   *)
(* by setting, or ends by clearing, its broker pointer.                    *)
LEMMA NextConfigured ==
    ASSUME TypeOK, WalksUnderLock, OneAtATime, Configured, [Next]_vars
    PROVE  Configured'
<1>1. ThreadTypes /\ ListTypes
  BY DEF TypeOK
<1>2. ASSUME NEW t \in Threads, NEW pc, NEW m, NEW s, NEW next, Goto(t, pc, m, s, next)
      PROVE  /\ tpc'[t] = pc /\ tsub'[t] = s /\ tnext'[t] = next
             /\ \A u \in Threads \ {t} :
                   tpc'[u] = tpc[u] /\ tsub'[u] = tsub[u] /\ tnext'[u] = tnext[u]
  BY <1>1, <1>2 DEF Goto, ThreadTypes
<1>3. ASSUME NEW t \in Threads, NEW pc, NEW m, NEW s, NEW next, Goto(t, pc, m, s, next),
             Placed(pc, s, next), UNCHANGED <<list, hasBroker>>
      PROVE  Configured'
  <2>1. \A u \in Threads : Placed(tpc[u], tsub[u], tnext[u])'
    BY <1>2, <1>3 DEF Configured, Placed
  <2> QED
    BY <1>3, <2>1 DEF Configured
<1>4. ASSUME NEW t \in Threads, NEW pc, NEW m, NEW s, NEW next, Goto(t, pc, m, s, next),
             pc \notin {"clear", "add"} \cup PutSteps, UNCHANGED <<list, hasBroker>>
      PROVE  Configured'
  BY <1>3, <1>4 DEF Placed
<1>5. ASSUME UNCHANGED <<list, hasBroker, threadVars>>
      PROVE  Configured'
  BY <1>5 DEF Configured, Placed, threadVars
<1>6. CASE BrokerStep
  <2>1. UNCHANGED <<configVars, threadVars>>
    BY <1>6 DEF BrokerStep, BrokerGet, BrokerLock, BrokerVisit, BrokerCalled, BrokerPut,
                BrokerUnlock, BrokerRelease, BrokerSubmit
  <2> QED
    BY <1>5, <2>1 DEF configVars
<1>7. ASSUME NEW t \in Threads, ThreadStart(t)
      PROVE  Configured'
  <2>1. ASSUME NEW m \in Msgs, NEW i \in MsgIds, NewMsg(t, m, i)
        PROVE  Configured'
    BY <1>4, <2>1 DEF NewMsg, configVars, PutSteps
  <2>2. ASSUME NEW s \in Subs, StartRemove(t, s)
        PROVE  Configured'
    BY <1>4, <2>2 DEF StartRemove, configVars, PutSteps
  <2>3. ASSUME NEW s \in Subs, StartAdd(t, s)
        PROVE  Configured'
    <3>1. /\ list' = list /\ s \notin ToSet(list) /\ hasBroker'[s] = TRUE
          /\ \A u \in Subs \ {s} : hasBroker'[u] = hasBroker[u]
          /\ Goto(t, "add", None, s, None)
      BY <1>1, <2>3 DEF StartAdd, Configured, ListTypes
    <3>2. ToSet(list) \subseteq Subs
      BY <1>1, LinksStayInList DEF ListTypes
    <3>3. ASSUME NEW u \in Threads
          PROVE  Placed(tpc[u], tsub[u], tnext[u])'
      <4>1. CASE u = t
        <5>1. tpc'[t] = "add" /\ tsub'[t] = s
          BY <1>2, <3>1
        <5> QED
          BY <3>1, <4>1, <5>1 DEF Placed, PutSteps
      <4>2. CASE u # t
        <5>1. /\ tpc'[u] = tpc[u] /\ tsub'[u] = tsub[u] /\ tnext'[u] = tnext[u]
              /\ Placed(tpc[u], tsub[u], tnext[u])
          BY <1>2, <3>1, <4>2 DEF Configured
        <5>2. tpc[u] = "add" => tsub[u] \in Subs
          BY <1>1 DEF ThreadTypes, Fits
        <5> QED
          BY <3>1, <5>1, <5>2 DEF Placed
      <4> QED
        BY <4>1, <4>2
    <3>4. \A u \in ToSet(list) : hasBroker'[u]
      BY <3>1, <3>2 DEF Configured
    <3> QED
      BY <3>1, <3>3, <3>4 DEF Configured
  <2>4. ASSUME NEW s \in Subs, NEW i \in MsgIds, Subscribe(t, s, i) \/ Unsubscribe(t, s, i)
        PROVE  Configured'
    BY <1>5, <2>4 DEF Subscribe, Unsubscribe
  <2> QED
    BY <1>7, <2>1, <2>2, <2>3, <2>4 DEF ThreadStart
<1>8. ASSUME NEW t \in Threads, ThreadStep(t)
      PROVE  Configured'
  <2>1. CASE Publish(t) \/ Discard(t) \/ DirectPut(t) \/ HandlerReturns(t)
    BY <1>4, <2>1 DEF Publish, Discard, DirectPut, HandlerReturns, Return, configVars, PutSteps
  <2>2. CASE ReadBroker(t)
    BY <1>4, <2>2 DEF ReadBroker, configVars, PutSteps
  <2>3. CASE ForwardLock(t) \/ ForwardPut(t)
    BY <1>4, <2>3 DEF ForwardLock, ForwardPut, configVars, PutSteps
  <2>4. CASE Search(t)
    <3>1. CASE Goto(t, "handle", tmsg[t], tsub[t], None)
      BY <1>4, <2>4, <3>1 DEF Search, configVars, PutSteps
    <3>2. ASSUME NEW u \in WantingBehind(tsub[t], tmsg[t]), NEW pc \in PutSteps,
                 Goto(t, pc, tmsg[t], tsub[t], u)
          PROVE  Configured'
      <4>1. Placed(pc, tsub[t], u)
        BY <3>2 DEF Placed, WantingBehind, PutSteps
      <4> QED
        BY <1>3, <2>4, <3>2, <4>1 DEF Search, configVars
    <3> QED
      BY <2>4, <3>1, <3>2 DEF Search, PutSteps
  <2>5. CASE RemoveBroker(t)
    <3>1. /\ list' = Removed(list, tsub[t]) /\ hasBroker' = hasBroker
          /\ Goto(t, "clear", None, tsub[t], None) /\ MutexFree
      BY <2>5 DEF RemoveBroker
    <3>2. ToSet(list') = ToSet(list) \ {tsub[t]} /\ NoRepeats(list')
      BY <1>1, <3>1, RemovedKeepsOrder DEF Configured, ListTypes
    <3>3. \A u \in Threads : tpc[u] \notin PutSteps
      BY <3>1, NobodyWalks DEF SearchSteps, PutSteps
    <3>4. ASSUME NEW u \in Threads
          PROVE  Placed(tpc[u], tsub[u], tnext[u])'
      <4>1. CASE u = t
        <5>1. tpc'[t] = "clear" /\ tsub'[t] = tsub[t]
          BY <1>2, <3>1
        <5> QED
          BY <3>2, <4>1, <5>1 DEF Placed, PutSteps
      <4>2. CASE u # t
        BY <1>2, <3>1, <3>2, <3>3, <4>2 DEF Placed, Configured
      <4> QED
        BY <4>1, <4>2
    <3> QED
      BY <3>1, <3>2, <3>4 DEF Configured
  <2>6. CASE ClearBroker(t)
    <3>1. /\ tpc[t] = "clear" /\ tsub[t] \in Subs /\ list' = list
          /\ \A u \in Subs \ {tsub[t]} : hasBroker'[u] = hasBroker[u]
          /\ Goto(t, "idle", None, None, None)
      BY <1>1, <2>6 DEF ClearBroker, Return, ListTypes, ThreadTypes, Fits
    <3>2. ASSUME NEW u \in Threads
          PROVE  Placed(tpc[u], tsub[u], tnext[u])'
      <4>1. CASE u = t
        <5>1. tpc'[t] = "idle"
          BY <1>2, <3>1
        <5> QED
          BY <4>1, <5>1 DEF Placed, PutSteps
      <4>2. CASE u # t
        <5>1. /\ tpc'[u] = tpc[u] /\ tsub'[u] = tsub[u] /\ tnext'[u] = tnext[u]
              /\ Placed(tpc[u], tsub[u], tnext[u])
          BY <1>2, <3>1, <4>2 DEF Configured
        <5>2. tpc[u] = "add" => tsub[u] \in Subs /\ tsub[u] # tsub[t]
          BY <1>1, <3>1, <4>2 DEF ThreadTypes, Fits, OneAtATime, ConfigSteps
        <5> QED
          BY <3>1, <5>1, <5>2 DEF Placed
      <4> QED
        BY <4>1, <4>2
    <3>3. \A u \in ToSet(list) : u \in Subs /\ u # tsub[t] /\ hasBroker[u]
      BY <1>1, <3>1, LinksStayInList DEF Configured, Placed, ListTypes
    <3> QED
      BY <3>1, <3>2, <3>3 DEF Configured
  <2>7. CASE AddSubscriber(t)
    <3>1. /\ list' = Inserted(list, Priority, tsub[t]) /\ hasBroker' = hasBroker
          /\ tpc[t] = "add" /\ tsub[t] \in Subs
          /\ tsub[t] \notin ToSet(list) /\ hasBroker[tsub[t]]
          /\ Goto(t, "idle", None, None, None)
      BY <1>1, <2>7 DEF AddSubscriber, Return, ThreadTypes, Fits, Configured, Placed
    <3>2. ToSet(list') = ToSet(list) \cup {tsub[t]} /\ NoRepeats(list')
      BY <1>1, <3>1, InsertedKeepsOrder DEF Configured, ListTypes
    <3>3. ASSUME NEW u \in Threads
          PROVE  Placed(tpc[u], tsub[u], tnext[u])'
      <4>1. CASE u = t
        BY <1>2, <3>1, <4>1 DEF Placed, PutSteps
      <4>2. CASE u # t
        <5>1. /\ tpc'[u] = tpc[u] /\ tsub'[u] = tsub[u] /\ tnext'[u] = tnext[u]
              /\ Placed(tpc[u], tsub[u], tnext[u])
          BY <1>2, <3>1, <4>2 DEF Configured
        <5>2. tpc[u] \in {"clear", "add"} => tsub[u] # tsub[t]
          BY <3>1, <4>2 DEF OneAtATime, ConfigSteps
        <5> QED
          BY <3>1, <3>2, <5>1, <5>2 DEF Placed
      <4> QED
        BY <4>1, <4>2
    <3> QED
      BY <3>1, <3>2, <3>3 DEF Configured
  <2>8. ASSUME NEW s \in Subs, PublishTo(t, s)
        PROVE  Configured'
    BY <1>4, <2>8 DEF PublishTo, Return, configVars, PutSteps
  <2>9. ASSUME NEW s \in Subs, Get(t, s)
        PROVE  Configured'
    BY <1>4, <2>9 DEF Get, configVars, PutSteps
  <2> QED
    BY <1>8, <2>1, <2>2, <2>3, <2>4, <2>5, <2>6, <2>7, <2>8, <2>9 DEF ThreadStep
<1>9. ASSUME UNCHANGED <<configVars, threadVars>>
      PROVE  Configured'
  BY <1>5, <1>9 DEF configVars
<1> QED
  BY <1>6, <1>7, <1>8, <1>9 DEF Next, Retain, ReleaseRetained, Quiescent, vars

(* As long as no two threads reconfigure the same subscriber at once, the  *)
(* list has no cycle and whoever is in it has a broker.                    *)
THEOREM ListAgreesWithBroker == Spec /\ []OneAtATime => []Configured
<1>1. Init => Configured
  <2>1. ASSUME Init
        PROVE  Configured
    <3>1. NoRepeats(list)
      BY <2>1, InitAssumption DEF Init, NoRepeats
    <3>2. ToSet(list) \subseteq Subs
      BY <2>1, InitAssumption, LinksStayInList DEF Init
    <3>3. \A s \in ToSet(list) : hasBroker[s]
      BY <2>1, <3>2 DEF Init
    <3>4. \A t \in Threads : tpc[t] = "idle"
      BY <2>1 DEF Init
    <3> QED
      BY <3>1, <3>3, <3>4 DEF Configured, Placed, PutSteps
  <2> QED
    BY <2>1
<1> QED
  BY <1>1, NextConfigured, TypeCorrect, LockDiscipline, PTL DEF Spec
-----------------------------------------------------------------------------
(* Forwarding, as long as the types are sorted.                            *)

(* Behind a fifo subscriber there are only fifo subscribers.               *)
LEMMA FifosBehindFifo ==
    ASSUME list \in Seq(Subs), IsSortedByType(list), NEW s, NEW u,
           RxType[s] = "fifo", Before(list, s, u)
    PROVE  RxType[u] = "fifo"
<1>1. PICK i, j \in 1..Len(list) : i < j /\ list[i] = s /\ list[j] = u
  BY DEF Before
<1>2. s \in Subs /\ u \in Subs /\ TypeRank(s) <= TypeRank(u)
  BY <1>1 DEF IsSortedByType
<1>3. RxType[u] \in RxTypes
  BY <1>2, RxTypeAssumption
<1> QED
  BY <1>2, <1>3 DEF TypeRank, RxTypes

(* In a list sorted by type only fifo subscribers are behind a fifo        *)
(* subscriber.                                                             *)
LEMMA NextForwards ==
    ASSUME TypeOK, Roles, IsSortedByType(list), ForwardsToFifoOnly, [Next]_vars
    PROVE  ForwardsToFifoOnly'
<1>1. ThreadTypes /\ ListTypes
  BY DEF TypeOK
<1>2. ASSUME NEW t \in Threads, NEW pc, NEW m, NEW s, NEW next, Goto(t, pc, m, s, next),
             pc # "not a fifo"
      PROVE  ForwardsToFifoOnly'
  BY <1>1, <1>2 DEF Goto, ThreadTypes, ForwardsToFifoOnly
<1>3. ASSUME UNCHANGED threadVars
      PROVE  ForwardsToFifoOnly'
  BY <1>3 DEF ForwardsToFifoOnly, threadVars
<1>4. CASE BrokerStep
  BY <1>3, <1>4 DEF BrokerStep, BrokerGet, BrokerLock, BrokerVisit, BrokerCalled, BrokerPut,
                    BrokerUnlock, BrokerRelease, BrokerSubmit
<1>5. ASSUME NEW t \in Threads, ThreadStart(t)
      PROVE  ForwardsToFifoOnly'
  BY <1>2, <1>3, <1>5 DEF ThreadStart, NewMsg, StartRemove, StartAdd, Subscribe, Unsubscribe
<1>6. ASSUME NEW t \in Threads, ThreadStep(t)
      PROVE  ForwardsToFifoOnly'
  <2>1. CASE Publish(t) \/ Discard(t) \/ DirectPut(t) \/ HandlerReturns(t)
    BY <1>2, <2>1 DEF Publish, Discard, DirectPut, HandlerReturns, Return
  <2>2. CASE ReadBroker(t) \/ ForwardLock(t) \/ ForwardPut(t)
    BY <1>2, <2>2 DEF ReadBroker, ForwardLock, ForwardPut
  <2>3. CASE Search(t)
    <3>1. RxType[tsub[t]] = "fifo"
      BY <2>3 DEF Search, Roles, Role, ForwardSteps
    <3>2. \A u \in WantingBehind(tsub[t], tmsg[t]) : RxType[u] = "fifo"
      BY <1>1, <3>1, FifosBehindFifo DEF WantingBehind, ListTypes
    <3> QED
      BY <1>2, <2>3, <3>2 DEF Search
  <2>4. CASE RemoveBroker(t) \/ ClearBroker(t) \/ AddSubscriber(t)
    BY <1>2, <2>4 DEF RemoveBroker, ClearBroker, AddSubscriber, Return
  <2>5. CASE \E s \in Subs : PublishTo(t, s) \/ Get(t, s)
    BY <1>2, <2>5 DEF PublishTo, Get, Return
  <2> QED
    BY <1>6, <2>1, <2>2, <2>3, <2>4, <2>5 DEF ThreadStep
<1> QED
  BY <1>3, <1>4, <1>5, <1>6 DEF Next, Retain, ReleaseRetained, Quiescent, vars

(* The loop of send_to_next_fifo_subscriber writes to a fifo as long as    *)
(* "fifo subscribers are at the end of the list": sorted types, whatever   *)
(* else is reconfigured, are all it needs.                                 *)
THEOREM SortedTypesForwardToFifos == Spec /\ []IsSortedByType(list) => []ForwardsToFifoOnly
<1>1. Init => ForwardsToFifoOnly
  BY DEF Init, ForwardsToFifoOnly
<1> QED
  BY <1>1, NextForwards, TypeCorrect, RolesKept, PTL DEF Spec

(* Which types are sorted for good: the list is sorted after the           *)
(* initialization phase and every subscriber that may be added again finds *)
(* one of its own type that is never taken out, or is a fifo subscriber    *)
(* that nothing of a larger type can be in front of.                       *)
TypesStaySorted ==
    /\ IsSortedByType(InitList)
    /\ \A s \in Managed : RxType[s] = "fifo"
                          \/ \E u \in ToSet(InitList) \ Managed : SameType(s, u)

SortedAndKept ==
    /\ IsSortedByType(list)
    /\ ToSet(InitList) \ Managed \subseteq ToSet(list)

(* Adding keeps the types sorted as long as a subscriber of the type is in *)
(* the list or all others come before it.                                  *)
LEMMA AddedStaysSorted ==
    ASSUME TypesStaySorted, SortedAndKept, list \in Seq(Subs), NEW s \in Managed,
           NEW new, new = Inserted(list, Priority, s)
    PROVE  IsSortedByType(new) /\ ToSet(list) \subseteq ToSet(new)
<1>1. s \in Subs
  BY ManagedAssumption
<1>2. ToSet(list) \subseteq Subs
  BY LinksStayInList
<1>3. CASE \E u \in ToSet(list) : SameType(s, u)
  BY <1>1, <1>3, InsertedSortedByType, InsertedKeepsOrder DEF SortedAndKept
<1>4. CASE \A u \in ToSet(list) : ~SameType(s, u)
  <2>1. RxType[s] = "fifo"
    BY <1>4 DEF TypesStaySorted, SortedAndKept
  <2>2. ASSUME NEW u \in ToSet(list)
        PROVE  TypeRank(u) < TypeRank(s)
    <3>1. u \in Subs /\ TypeRank(u) \in 0..2 /\ TypeRank(u) # TypeRank(s)
      BY <1>1, <1>2, <1>4, TypeRanks
    <3>2. TypeRank(s) = 2
      BY <2>1 DEF TypeRank
    <3> QED
      BY <3>1, <3>2
  <2> QED
    BY <1>1, <2>2, InsertedSortedByType, InsertedKeepsOrder DEF SortedAndKept
<1> QED
  BY <1>3, <1>4

(* So it is with every action.                                             *)
LEMMA NextSorted ==
    ASSUME TypeOK, Roles, TypesStaySorted, SortedAndKept, [Next]_vars
    PROVE  SortedAndKept'
<1>1. ListTypes
  BY DEF TypeOK
<1>2. ASSUME NEW t \in Threads, RemoveBroker(t)
      PROVE  SortedAndKept'
  <2>1. tsub[t] \in Managed /\ list' = Removed(list, tsub[t])
    BY <1>2 DEF RemoveBroker, Roles, Role, ConfigSteps
  <2>2. IsSortedByType(list') /\ ToSet(list) \ {tsub[t]} \subseteq ToSet(list')
    BY <1>1, <2>1, RemovedSorted, RemovedKeepsOthers DEF SortedAndKept, ListTypes
  <2> QED
    BY <2>1, <2>2 DEF SortedAndKept
<1>3. ASSUME NEW t \in Threads, AddSubscriber(t)
      PROVE  SortedAndKept'
  <2>1. tsub[t] \in Managed /\ list' = Inserted(list, Priority, tsub[t])
    BY <1>3 DEF AddSubscriber, Roles, Role, ConfigSteps
  <2>2. IsSortedByType(list') /\ ToSet(list) \subseteq ToSet(list')
    BY <1>1, <2>1, AddedStaysSorted DEF ListTypes
  <2> QED
    BY <2>2 DEF SortedAndKept
<1>4. ASSUME UNCHANGED list
      PROVE  SortedAndKept'
  BY <1>4 DEF SortedAndKept
<1>5. CASE BrokerStep
  BY <1>4, <1>5 DEF BrokerStep, BrokerGet, BrokerLock, BrokerVisit, BrokerCalled, BrokerPut,
                    BrokerUnlock, BrokerRelease, BrokerSubmit, configVars
<1>6. ASSUME NEW t \in Threads, ThreadStart(t)
      PROVE  SortedAndKept'
  BY <1>4, <1>6 DEF ThreadStart, NewMsg, StartRemove, StartAdd, Subscribe, Unsubscribe, configVars
<1>7. ASSUME NEW t \in Threads, ThreadStep(t)
      PROVE  SortedAndKept'
  <2>1. RemoveBroker(t) \/ AddSubscriber(t) \/ UNCHANGED list
    BY <1>7 DEF ThreadStep, Publish, Discard, DirectPut, HandlerReturns, ReadBroker, ForwardLock,
                Search, ForwardPut, ClearBroker, PublishTo, Get, configVars
  <2> QED
    BY <1>2, <1>3, <1>4, <1>7, <2>1
<1> QED
  BY <1>4, <1>5, <1>6, <1>7 DEF Next, Retain, ReleaseRetained, Quiescent, vars, configVars

(* Subscribers are taken out and added back, and a message is never        *)
(* forwarded into something that is not a fifo: pub_sub_add_subscriber_to_ *)
(* broker and pub_sub_subscriber_remove_broker keep the order of the types *)
(* that send_to_next_fifo_subscriber relies on, as long as no queue type   *)
(* that is added back has lost its last subscriber.                        *)
THEOREM ForwardedToFifos ==
    ASSUME TypesStaySorted
    PROVE  Spec => []ForwardsToFifoOnly
<1>1. Init => SortedAndKept
  BY DEF Init, SortedAndKept, TypesStaySorted
<1>2. TypeOK /\ Roles /\ SortedAndKept /\ [Next]_vars => SortedAndKept'
  BY NextSorted
<1>3. SortedAndKept => IsSortedByType(list)
  BY DEF SortedAndKept
<1> QED
  BY <1>1, <1>2, <1>3, SortedTypesForwardToFifos, TypeCorrect, RolesKept, PTL DEF Spec
-----------------------------------------------------------------------------
(* Counting the entries of one queue.                                      *)

(* A queue has finitely many entries.                                      *)
LEMMA InSeqFinite ==
    ASSUME NEW q \in Seq(Msgs), NEW m
    PROVE  IsFiniteSet(InSeq(q, m)) /\ Cardinality(InSeq(q, m)) \in Nat
<1>1. Len(q) \in Nat /\ InSeq(q, m) \in SUBSET (1..Len(q))
  BY DEF InSeq
<1>2. IsFiniteSet(1..Len(q))
  BY <1>1, FS_Interval
<1>3. IsFiniteSet(InSeq(q, m))
  BY <1>1, <1>2, FS_Subset
<1> QED
  BY <1>3, FS_CardinalityType

(* A put adds one entry, of the message put.                               *)
LEMMA InSeqAppend ==
    ASSUME NEW q \in Seq(Msgs), NEW x \in Msgs, NEW m
    PROVE  Cardinality(InSeq(Append(q, x), m)) =
               Cardinality(InSeq(q, m)) + (IF x = m THEN 1 ELSE 0)
<1>1. /\ Append(q, x) \in Seq(Msgs) /\ Len(Append(q, x)) = Len(q) + 1 /\ Len(q) \in Nat
      /\ Append(q, x)[Len(q) + 1] = x
      /\ \A i \in 1..Len(q) : Append(q, x)[i] = q[i]
  BY AppendProperties
<1>2. Len(q) + 1 \notin InSeq(q, m)
  BY <1>1 DEF InSeq
<1>3. CASE x = m
  <2>1. InSeq(Append(q, x), m) = InSeq(q, m) \cup {Len(q) + 1}
    BY <1>1, <1>3 DEF InSeq
  <2> QED
    BY <1>2, <1>3, <2>1, InSeqFinite, FS_AddElement
<1>4. CASE x # m
  <2>1. InSeq(Append(q, x), m) = InSeq(q, m)
    BY <1>1, <1>4 DEF InSeq
  <2> QED
    BY <1>4, <2>1, InSeqFinite
<1> QED
  BY <1>3, <1>4

(* A get removes one, of the first message.                                *)
LEMMA InSeqTail ==
    ASSUME NEW q \in Seq(Msgs), q # <<>>, NEW m
    PROVE  Cardinality(InSeq(Tail(q), m)) =
               Cardinality(InSeq(q, m)) - (IF Head(q) = m THEN 1 ELSE 0)
<1>1. /\ Tail(q) \in Seq(Msgs) /\ Len(Tail(q)) = Len(q) - 1 /\ Len(q) \in Nat /\ Len(q) # 0
      /\ \A i \in 1..Len(Tail(q)) : Tail(q)[i] = q[i + 1]
      /\ Head(q) = q[1]
  BY HeadTailProperties, EmptySeq
<1> DEFINE T == InSeq(q, m) \ {1}
           shift == [i \in T |-> i - 1]
<1>2. IsFiniteSet(T) /\ Cardinality(T) = Cardinality(InSeq(q, m)) - (IF Head(q) = m THEN 1 ELSE 0)
  <2>1. 1 \in InSeq(q, m) <=> Head(q) = m
    BY <1>1 DEF InSeq
  <2>2. IsFiniteSet(InSeq(q, m)) /\ Cardinality(InSeq(q, m)) \in Nat
    BY InSeqFinite
  <2> QED
    BY <2>1, <2>2, FS_RemoveElement
<1>3. shift \in Bijection(T, InSeq(Tail(q), m))
  <2>1. \A i \in T : i \in 2..Len(q) /\ q[i] = m
    BY <1>1 DEF InSeq
  <2>2. \A i \in T : i - 1 \in InSeq(Tail(q), m)
    BY <1>1, <2>1 DEF InSeq
  <2>3. \A j \in InSeq(Tail(q), m) : j + 1 \in T /\ (j + 1) - 1 = j
    BY <1>1 DEF InSeq
  <2>4. \A i, j \in T : i - 1 = j - 1 => i = j
    BY <1>1, <2>1
  <2>5. shift \in Injection(T, InSeq(Tail(q), m))
    BY <2>2, <2>4 DEF Injection, IsInjective
  <2>6. shift \in Surjection(T, InSeq(Tail(q), m))
    BY <2>2, <2>3 DEF Surjection
  <2> QED
    BY <2>5, <2>6 DEF Bijection
<1> HIDE DEF T, shift
<1>4. ExistsBijection(T, InSeq(Tail(q), m))
  BY <1>3 DEF ExistsBijection
<1> QED
  BY <1>2, <1>4, FS_Bijection
-----------------------------------------------------------------------------
(* Counting the entries of all queues of a set of subscribers.             *)

(* The entries of several queues are those of each.                        *)
LEMMA EntryOf ==
    ASSUME NEW f, NEW S, NEW m
    PROVE  \A p : p \in Entries(f, S, m) <=>
               \E s \in S : \E i \in 1..Len(f[s]) : f[s][i] = m /\ p = <<s, i>>
BY DEF Entries, InSeq

(* A put into one queue adds one entry to all of them.                     *)
LEMMA EntriesPut ==
    ASSUME queue \in [Subs -> Seq(Msgs)], NEW S \in SUBSET Subs, NEW m,
           NEW s \in Subs, NEW x \in Msgs, queue' \in [Subs -> Seq(Msgs)],
           queue'[s] = Append(queue[s], x), \A u \in Subs \ {s} : queue'[u] = queue[u],
           IsFiniteSet(Entries(queue, S, m))
    PROVE  /\ IsFiniteSet(Entries(queue', S, m))
           /\ Cardinality(Entries(queue', S, m)) =
                  Cardinality(Entries(queue, S, m)) + (IF x = m /\ s \in S THEN 1 ELSE 0)
<1>1. PICK n : n = Len(queue[s]) + 1
  OBVIOUS
<1>2. /\ Len(queue[s]) \in Nat /\ Len(queue'[s]) = n /\ queue'[s][n] = x
      /\ \A i \in 1..Len(queue[s]) : queue'[s][i] = queue[s][i]
  BY <1>1, AppendProperties
<1>3. Cardinality(Entries(queue, S, m)) \in Nat
  BY FS_CardinalityType
<1>f. \A p : p \in Entries(queue, S, m) <=>
               \E u \in S : \E i \in 1..Len(queue[u]) : queue[u][i] = m /\ p = <<u, i>>
  BY EntryOf
<1>g. \A p : p \in Entries(queue', S, m) <=>
               \E u \in S : \E i \in 1..Len(queue'[u]) : queue'[u][i] = m /\ p = <<u, i>>
  BY EntryOf
<1>4. <<s, n>> \notin Entries(queue, S, m)
  BY <1>1, <1>2, <1>f
<1>5. CASE x = m /\ s \in S
  <2>1. ASSUME NEW p
        PROVE  p \in Entries(queue', S, m) <=> p \in Entries(queue, S, m) \cup {<<s, n>>}
    <3>1. ASSUME p \in Entries(queue, S, m)
          PROVE  p \in Entries(queue', S, m)
      <4>10. PICK u \in S : \E i \in 1..Len(queue[u]) : queue[u][i] = m /\ p = <<u, i>>
        BY <3>1, <1>f
      <4>1. PICK i \in 1..Len(queue[u]) : queue[u][i] = m /\ p = <<u, i>>
        BY <4>10
      <4>2. i \in 1..Len(queue'[u]) /\ queue'[u][i] = m
        <5>1. CASE u = s
          BY <1>1, <1>2, <4>1, <5>1
        <5>2. CASE u # s
          BY <4>1, <5>2
        <5> QED
          BY <5>1, <5>2
      <4> QED
        BY <4>1, <4>2, <1>g
    <3>2. <<s, n>> \in Entries(queue', S, m)
      <4>1. n \in 1..Len(queue'[s])
        BY <1>1, <1>2
      <4> QED
        BY <1>2, <1>5, <4>1, <1>g
    <3>3. ASSUME p \in Entries(queue', S, m), p # <<s, n>>
          PROVE  p \in Entries(queue, S, m)
      <4>10. PICK u \in S : \E i \in 1..Len(queue'[u]) : queue'[u][i] = m /\ p = <<u, i>>
        BY <3>3, <1>g
      <4>1. PICK i \in 1..Len(queue'[u]) : queue'[u][i] = m /\ p = <<u, i>>
        BY <4>10
      <4>2. i \in 1..Len(queue[u]) /\ queue[u][i] = m
        <5>1. CASE u = s
          <6>1. i \in 1..n /\ queue'[s][i] = m /\ i # n
            BY <1>2, <3>3, <4>1, <5>1
          <6>2. i \in 1..Len(queue[s])
            BY <1>1, <1>2, <6>1
          <6> QED
            BY <1>2, <5>1, <6>1, <6>2
        <5>2. CASE u # s
          BY <4>1, <5>2
        <5> QED
          BY <5>1, <5>2
      <4> QED
        BY <4>1, <4>2, <1>f
    <3> QED
      BY <3>1, <3>2, <3>3
  <2>2. Entries(queue', S, m) = Entries(queue, S, m) \cup {<<s, n>>}
    BY <2>1
  <2>3. PICK F, p : F = Entries(queue, S, m) /\ p = <<s, n>>
    OBVIOUS
  <2>4. IsFiniteSet(F \cup {p}) /\ Cardinality(F \cup {p}) = Cardinality(F) + 1
    BY <1>4, <2>3, FS_AddElement
  <2> QED
    BY <1>5, <2>2, <2>3, <2>4
<1>6. CASE ~(x = m /\ s \in S)
  <2>1. ASSUME NEW u \in S
        PROVE  InSeq(queue'[u], m) = InSeq(queue[u], m)
    <3>1. CASE u = s
      BY <1>1, <1>2, <1>6, <3>1 DEF InSeq
    <3>2. CASE u # s
      BY <3>2
    <3> QED
      BY <3>1, <3>2
  <2>2. Entries(queue', S, m) = Entries(queue, S, m)
    BY <2>1 DEF Entries
  <2> QED
    BY <1>3, <1>6, <2>2
<1> QED
  BY <1>5, <1>6

(* A get removes one.                                                      *)
LEMMA EntriesGet ==
    ASSUME queue \in [Subs -> Seq(Msgs)], NEW S \in SUBSET Subs, NEW m,
           NEW s \in Subs, queue[s] # <<>>, queue' \in [Subs -> Seq(Msgs)],
           queue'[s] = Tail(queue[s]), \A u \in Subs \ {s} : queue'[u] = queue[u],
           IsFiniteSet(Entries(queue, S, m))
    PROVE  /\ IsFiniteSet(Entries(queue', S, m))
           /\ Cardinality(Entries(queue', S, m)) =
                  Cardinality(Entries(queue, S, m))
                  - (IF Head(queue[s]) = m /\ s \in S THEN 1 ELSE 0)
<1>1. /\ Len(queue[s]) \in Nat /\ Len(queue[s]) # 0
      /\ Len(queue'[s]) = Len(queue[s]) - 1
      /\ \A i \in 1..Len(queue'[s]) : queue'[s][i] = queue[s][i + 1]
      /\ Head(queue[s]) = queue[s][1]
  BY HeadTailProperties, EmptySeq
<1> DEFINE T == Entries(queue, S, m) \ {<<s, 1>>}
           moved(p) == IF p[1] = s THEN <<p[1], p[2] - 1>> ELSE p
           shift == [p \in T |-> moved(p)]
<1>f. \A p : p \in Entries(queue, S, m) <=>
               \E u \in S : \E i \in 1..Len(queue[u]) : queue[u][i] = m /\ p = <<u, i>>
  BY EntryOf
<1>g. \A p : p \in Entries(queue', S, m) <=>
               \E u \in S : \E i \in 1..Len(queue'[u]) : queue'[u][i] = m /\ p = <<u, i>>
  BY EntryOf
<1>2. /\ IsFiniteSet(T)
      /\ Cardinality(T) = Cardinality(Entries(queue, S, m))
                          - (IF Head(queue[s]) = m /\ s \in S THEN 1 ELSE 0)
  <2>1. <<s, 1>> \in Entries(queue, S, m) <=> Head(queue[s]) = m /\ s \in S
    BY <1>1, <1>f
  <2>2. PICK F, p : F = Entries(queue, S, m) /\ p = <<s, 1>>
    OBVIOUS
  <2>3. /\ IsFiniteSet(F \ {p}) /\ Cardinality(F) \in Nat
        /\ Cardinality(F \ {p}) = IF p \in F THEN Cardinality(F) - 1 ELSE Cardinality(F)
    BY <2>2, FS_RemoveElement, FS_CardinalityType
  <2> QED
    BY <2>1, <2>2, <2>3
<1>3. ASSUME NEW p \in T
      PROVE  \E u \in S : \E i \in 1..Len(queue[u]) :
                queue[u][i] = m /\ p = <<u, i>> /\ (u = s => i # 1)
  BY <1>f
<1>4. ASSUME NEW p \in T
      PROVE  moved(p) \in Entries(queue', S, m)
  <2>10. PICK u \in S : \E i \in 1..Len(queue[u]) : queue[u][i] = m /\ p = <<u, i>> /\ (u = s => i # 1)
    BY <1>3
  <2>1. PICK i \in 1..Len(queue[u]) : queue[u][i] = m /\ p = <<u, i>> /\ (u = s => i # 1)
    BY <2>10
  <2>2. CASE u = s
    <3>1. i - 1 \in 1..Len(queue'[s]) /\ queue'[s][i - 1] = m /\ moved(p) = <<s, i - 1>>
      BY <1>1, <2>1, <2>2
    <3> QED
      BY <2>1, <2>2, <3>1, <1>g
  <2>3. CASE u # s
    <3>1. moved(p) = <<u, i>> /\ queue'[u] = queue[u]
      BY <1>1, <2>1, <2>3
    <3> QED
      BY <2>1, <3>1, <1>g
  <2> QED
    BY <2>2, <2>3
<1>5. ASSUME NEW p \in Entries(queue', S, m)
      PROVE  \E o \in T : moved(o) = p
  <2>10. PICK u \in S : \E i \in 1..Len(queue'[u]) : queue'[u][i] = m /\ p = <<u, i>>
    BY <1>g
  <2>1. PICK i \in 1..Len(queue'[u]) : queue'[u][i] = m /\ p = <<u, i>>
    BY <2>10
  <2>2. CASE u = s
    <3>3. i \in 1..Len(queue'[s]) /\ queue'[s][i] = m
      BY <2>1, <2>2
    <3>1. /\ i + 1 \in 1..Len(queue[s]) /\ queue[s][i + 1] = m /\ i + 1 # 1
          /\ moved(<<s, i + 1>>) = <<s, i>>
      BY <1>1, <3>3
    <3>2. <<s, i + 1>> \in T
      BY <2>1, <2>2, <3>1, <1>f
    <3> QED
      BY <2>1, <2>2, <3>1, <3>2
  <2>3. CASE u # s
    <3>1. <<u, i>> \in T /\ moved(<<u, i>>) = <<u, i>>
      BY <1>1, <2>1, <2>3, <1>f
    <3> QED
      BY <2>1, <3>1
  <2> QED
    BY <2>2, <2>3
<1>6. ASSUME NEW o \in T, NEW p \in T, moved(o) = moved(p)
      PROVE  o = p
  <2>10. PICK u \in S : \E i \in 1..Len(queue[u]) : o = <<u, i>>
    BY <1>3
  <2>1. PICK i \in 1..Len(queue[u]) : o = <<u, i>>
    BY <2>10
  <2>20. PICK v \in S : \E j \in 1..Len(queue[v]) : p = <<v, j>>
    BY <1>3
  <2>2. PICK j \in 1..Len(queue[v]) : p = <<v, j>>
    BY <2>20
  <2>3. u = v /\ i \in Int /\ j \in Int
    BY <1>6, <2>1, <2>2
  <2>4. i = j
    BY <1>6, <2>1, <2>2, <2>3
  <2> QED
    BY <2>1, <2>2, <2>3, <2>4
<1> HIDE DEF T, moved
<1>7. shift \in Bijection(T, Entries(queue', S, m))
  <2>1. shift \in Injection(T, Entries(queue', S, m))
    BY <1>4, <1>6 DEF Injection, IsInjective
  <2>2. shift \in Surjection(T, Entries(queue', S, m))
    BY <1>4, <1>5 DEF Surjection
  <2> QED
    BY <2>1, <2>2 DEF Bijection
<1> HIDE DEF shift
<1>8. ExistsBijection(T, Entries(queue', S, m))
  BY <1>7 DEF ExistsBijection
<1> QED
  BY <1>2, <1>8, FS_Bijection
-----------------------------------------------------------------------------
(* Counting threads and kept references.                                   *)

(* A thread that goes from one step to another leaves one set of threads   *)
(* and enters another.                                                     *)
LEMMA AtHandGoto ==
    ASSUME ThreadTypes, NEW t \in Threads, NEW pc, NEW x, NEW s, NEW next,
           Goto(t, pc, x, s, next), NEW steps, NEW m, IsFiniteSet(AtHand(steps, m))
    PROVE  /\ IsFiniteSet(AtHand(steps, m)')
           /\ Cardinality(AtHand(steps, m)') =
                  Cardinality(AtHand(steps, m))
                  - (IF tmsg[t] = m /\ tpc[t] \in steps THEN 1 ELSE 0)
                  + (IF x = m /\ pc \in steps THEN 1 ELSE 0)
<1>1. /\ tmsg'[t] = x /\ tpc'[t] = pc
      /\ \A u \in Threads \ {t} : tmsg'[u] = tmsg[u] /\ tpc'[u] = tpc[u]
  BY DEF Goto, ThreadTypes
<1>2. PICK R : R = AtHand(steps, m) \ {t}
  OBVIOUS
<1>3. /\ IsFiniteSet(R) /\ t \notin R
      /\ Cardinality(R) = Cardinality(AtHand(steps, m))
                          - (IF tmsg[t] = m /\ tpc[t] \in steps THEN 1 ELSE 0)
  <2>1. t \in AtHand(steps, m) <=> tmsg[t] = m /\ tpc[t] \in steps
    BY DEF AtHand
  <2>2. Cardinality(AtHand(steps, m)) \in Nat
    BY FS_CardinalityType
  <2> QED
    BY <1>2, <2>1, <2>2, FS_RemoveElement
<1>4. Cardinality(R) \in Nat
  BY <1>3, FS_CardinalityType
<1>5. CASE x = m /\ pc \in steps
  <2>1. AtHand(steps, m)' = R \cup {t}
    BY <1>1, <1>2, <1>5 DEF AtHand
  <2> QED
    BY <1>3, <1>5, <2>1, FS_AddElement
<1>6. CASE ~(x = m /\ pc \in steps)
  <2>1. AtHand(steps, m)' = R
    BY <1>1, <1>2, <1>6 DEF AtHand
  <2> QED
    BY <1>3, <1>4, <1>6, <2>1
<1> QED
  BY <1>5, <1>6

(* Threads at some of the steps are threads.                               *)
LEMMA AtHandSubset ==
    ASSUME NEW steps \in SUBSET ThreadSteps, NEW m, IsFiniteSet(AtHand(ThreadSteps, m))
    PROVE  /\ IsFiniteSet(AtHand(steps, m))
           /\ Cardinality(AtHand(steps, m)) \in Nat
           /\ Cardinality(AtHand(steps, m)) <= Cardinality(AtHand(ThreadSteps, m))
<1>1. AtHand(steps, m) \in SUBSET AtHand(ThreadSteps, m)
  BY DEF AtHand
<1> QED
  BY <1>1, FS_Subset, FS_CardinalityType

(* Some of the queues have no more entries than all.                       *)
LEMMA EntriesSubset ==
    ASSUME NEW f, NEW S, NEW m, IsFiniteSet(Entries(f, Subs, m)), S \subseteq Subs
    PROVE  /\ IsFiniteSet(Entries(f, S, m))
           /\ Cardinality(Entries(f, S, m)) \in Nat
           /\ Cardinality(Entries(f, S, m)) <= Cardinality(Entries(f, Subs, m))
<1>1. Entries(f, S, m) \in SUBSET Entries(f, Subs, m)
  BY DEF Entries
<1> QED
  BY <1>1, FS_Subset, FS_CardinalityType
-----------------------------------------------------------------------------
(* The inductive invariant.                                                *)

InFifo(m)      == Cardinality(InSeq(pubFifo, m))
InQueues(S, m) == Cardinality(Entries(queue, S, m))
Kept(m)        == Cardinality(Keepers(m))
By(steps, m)   == Cardinality(AtHand(steps, m))

(* The steps at which a thread has yet to give its message away, if it     *)
(* ever does, and those at which it has another reference for the put.     *)
LinkSteps == ThreadSteps \ {"handle"}

(* So has the broker until its loop ends.                                  *)
LinkedByBroker(m) == IF bmsg = m /\ bpc \in {"lock", "visit", "call", "put"} THEN 1 ELSE 0

(* Who has linked m into a fifo or may still do so.                        *)
Claims(m) == InFifo(m) + InQueues(FifoSubs, m) + By(LinkSteps, m) + LinkedByBroker(m)

Finite(m) ==
    /\ IsFiniteSet(Entries(queue, Subs, m))
    /\ IsFiniteSet(Keepers(m))
    /\ IsFiniteSet(AtHand(ThreadSteps, m))

Counted(m) ==
    /\ Finite(m)
    /\ ref[m] = References(m) /\ (m \in free <=> ref[m] = 0)
    /\ Claims(m) <= 1

(* The terms of a counted message are numbers.                             *)
LEMMA CountsNat ==
    ASSUME TypeOK, NEW m \in Msgs, Finite(m)
    PROVE  /\ InFifo(m) \in Nat
           /\ InQueues(Subs, m) \in Nat /\ InQueues(FifoSubs, m) \in Nat
           /\ InQueues(FifoSubs, m) <= InQueues(Subs, m)
           /\ Kept(m) \in Nat
           /\ By(ThreadSteps, m) \in Nat
           /\ By(LinkSteps, m) \in Nat /\ By(LinkSteps, m) <= By(ThreadSteps, m)
           /\ By(PutSteps, m) \in Nat /\ By(PutSteps, m) <= By(ThreadSteps, m)
           /\ ref[m] \in Int
           /\ References(m) = InFifo(m) + InQueues(Subs, m) + Kept(m) + By(ThreadSteps, m)
                              + By(PutSteps, m) + ByBroker(m)
<1>1. InFifo(m) \in Nat
  BY InSeqFinite DEF TypeOK, QueueTypes, InFifo
<1>2. FifoSubs \subseteq Subs /\ LinkSteps \in SUBSET ThreadSteps /\ PutSteps \in SUBSET ThreadSteps
  BY DEF FifoSubs, LinkSteps, PutSteps, ThreadSteps
<1>3. InQueues(Subs, m) \in Nat /\ InQueues(FifoSubs, m) \in Nat
      /\ InQueues(FifoSubs, m) <= InQueues(Subs, m)
  BY <1>2, EntriesSubset DEF Finite, InQueues
<1>4. Kept(m) \in Nat
  BY FS_CardinalityType DEF Finite, Kept
<1>5. /\ By(ThreadSteps, m) \in Nat
      /\ By(LinkSteps, m) \in Nat /\ By(LinkSteps, m) <= By(ThreadSteps, m)
      /\ By(PutSteps, m) \in Nat /\ By(PutSteps, m) <= By(ThreadSteps, m)
  BY <1>2, AtHandSubset DEF Finite, By
<1>6. ref[m] \in Int
  BY DEF TypeOK, MsgTypes
<1> QED
  BY <1>1, <1>3, <1>4, <1>5, <1>6
     DEF References, InFifo, InQueues, Kept, By, PutSteps

(* What a thread has at hand when it goes on.                              *)
LEMMA GotoCounts ==
    ASSUME TypeOK, NEW t \in Threads, NEW pc \in ThreadSteps, NEW x, NEW s, NEW next,
           Goto(t, pc, x, s, next), NEW m \in Msgs, Finite(m)
    PROVE  /\ IsFiniteSet(AtHand(ThreadSteps, m)')
           /\ By(ThreadSteps, m)' = By(ThreadSteps, m)
                  - (IF tmsg[t] = m THEN 1 ELSE 0) + (IF x = m THEN 1 ELSE 0)
           /\ By(LinkSteps, m)' = By(LinkSteps, m)
                  - (IF tmsg[t] = m /\ tpc[t] # "handle" THEN 1 ELSE 0)
                  + (IF x = m /\ pc # "handle" THEN 1 ELSE 0)
           /\ By(PutSteps, m)' = By(PutSteps, m)
                  - (IF tmsg[t] = m /\ tpc[t] \in PutSteps THEN 1 ELSE 0)
                  + (IF x = m /\ pc \in PutSteps THEN 1 ELSE 0)
<1>1. tpc[t] \in ThreadSteps /\ ThreadTypes
  BY DEF TypeOK, ThreadTypes
<1>2. ASSUME NEW steps \in SUBSET ThreadSteps
      PROVE  /\ IsFiniteSet(AtHand(steps, m)')
             /\ By(steps, m)' = By(steps, m)
                    - (IF tmsg[t] = m /\ tpc[t] \in steps THEN 1 ELSE 0)
                    + (IF x = m /\ pc \in steps THEN 1 ELSE 0)
  <2>1. IsFiniteSet(AtHand(steps, m))
    BY AtHandSubset DEF Finite
  <2> QED
    BY <1>1, <2>1, AtHandGoto DEF By
<1>3. /\ ThreadSteps \in SUBSET ThreadSteps /\ LinkSteps \in SUBSET ThreadSteps
      /\ PutSteps \in SUBSET ThreadSteps
      /\ \A p \in ThreadSteps : p \in LinkSteps <=> p # "handle"
  BY DEF LinkSteps, PutSteps, ThreadSteps
<1>4. /\ IsFiniteSet(AtHand(ThreadSteps, m)')
      /\ By(ThreadSteps, m)' = By(ThreadSteps, m)
             - (IF tmsg[t] = m /\ tpc[t] \in ThreadSteps THEN 1 ELSE 0)
             + (IF x = m /\ pc \in ThreadSteps THEN 1 ELSE 0)
  BY <1>2, <1>3
<1>5. By(LinkSteps, m)' = By(LinkSteps, m)
             - (IF tmsg[t] = m /\ tpc[t] \in LinkSteps THEN 1 ELSE 0)
             + (IF x = m /\ pc \in LinkSteps THEN 1 ELSE 0)
  BY <1>2, <1>3
<1>6. By(PutSteps, m)' = By(PutSteps, m)
             - (IF tmsg[t] = m /\ tpc[t] \in PutSteps THEN 1 ELSE 0)
             + (IF x = m /\ pc \in PutSteps THEN 1 ELSE 0)
  BY <1>2, <1>3
<1> QED
  BY <1>1, <1>3, <1>4, <1>5, <1>6

(* What a put into a queue, or a get from it, adds or takes away.           *)
LEMMA PutCounts ==
    ASSUME TypeOK, NEW s \in Subs, NEW x \in Msgs, Put(s, x), NEW m \in Msgs, Finite(m)
    PROVE  /\ IsFiniteSet(Entries(queue, Subs, m)')
           /\ InQueues(Subs, m)' = InQueues(Subs, m) + (IF x = m THEN 1 ELSE 0)
           /\ InQueues(FifoSubs, m)' = InQueues(FifoSubs, m)
                  + (IF x = m /\ RxType[s] = "fifo" THEN 1 ELSE 0)
<1>1. queue \in [Subs -> Seq(Msgs)]
  BY DEF TypeOK, QueueTypes
<1>2. /\ queue' \in [Subs -> Seq(Msgs)] /\ queue'[s] = Append(queue[s], x)
      /\ \A u \in Subs \ {s} : queue'[u] = queue[u]
  BY <1>1 DEF Put
<1>3. Subs \in SUBSET Subs /\ FifoSubs \in SUBSET Subs
  BY DEF FifoSubs
<1>4. IsFiniteSet(Entries(queue, Subs, m)) /\ IsFiniteSet(Entries(queue, FifoSubs, m))
  BY <1>3, EntriesSubset DEF Finite
<1>5. ASSUME NEW S \in SUBSET Subs, IsFiniteSet(Entries(queue, S, m))
      PROVE  /\ IsFiniteSet(Entries(queue', S, m))
             /\ Cardinality(Entries(queue', S, m)) =
                    Cardinality(Entries(queue, S, m)) + (IF x = m /\ s \in S THEN 1 ELSE 0)
  BY <1>1, <1>2, <1>5, EntriesPut
<1> QED
  BY <1>3, <1>4, <1>5 DEF InQueues, FifoSubs, Entries, InSeq

(* The thread that gets a message from a queue takes over the reference of *)
(* the entry.                                                              *)
LEMMA GetCounts ==
    ASSUME TypeOK, NEW s \in Subs, queue[s] # <<>>,
           queue' = [queue EXCEPT ![s] = Tail(@)], NEW m \in Msgs, Finite(m)
    PROVE  /\ IsFiniteSet(Entries(queue, Subs, m)')
           /\ InQueues(Subs, m)' = InQueues(Subs, m) - (IF Head(queue[s]) = m THEN 1 ELSE 0)
           /\ InQueues(FifoSubs, m)' = InQueues(FifoSubs, m)
                  - (IF Head(queue[s]) = m /\ RxType[s] = "fifo" THEN 1 ELSE 0)
<1>1. queue \in [Subs -> Seq(Msgs)]
  BY DEF TypeOK, QueueTypes
<1>2. /\ queue' \in [Subs -> Seq(Msgs)] /\ queue'[s] = Tail(queue[s])
      /\ \A u \in Subs \ {s} : queue'[u] = queue[u]
  <2>1. Tail(queue[s]) \in Seq(Msgs)
    BY <1>1, HeadTailProperties
  <2> QED
    BY <1>1, <2>1
<1>3. Subs \in SUBSET Subs /\ FifoSubs \in SUBSET Subs
  BY DEF FifoSubs
<1>4. IsFiniteSet(Entries(queue, Subs, m)) /\ IsFiniteSet(Entries(queue, FifoSubs, m))
  BY <1>3, EntriesSubset DEF Finite
<1>5. ASSUME NEW S \in SUBSET Subs, IsFiniteSet(Entries(queue, S, m))
      PROVE  /\ IsFiniteSet(Entries(queue', S, m))
             /\ Cardinality(Entries(queue', S, m)) =
                    Cardinality(Entries(queue, S, m))
                    - (IF Head(queue[s]) = m /\ s \in S THEN 1 ELSE 0)
  BY <1>1, <1>2, <1>5, EntriesGet
<1> QED
  BY <1>3, <1>4, <1>5 DEF InQueues, FifoSubs, Entries, InSeq

(* Whoever changes a counter holds the message, so it is not free.         *)
LEMMA ReleaseCounts ==
    ASSUME TypeOK, NEW x \in Msgs, Release(x), NEW m \in Msgs,
           m \in free <=> ref[m] = 0, x = m => ref[m] >= 1
    PROVE  /\ ref'[m] = ref[m] - (IF x = m THEN 1 ELSE 0)
           /\ m \in free' <=> ref'[m] = 0
BY DEF TypeOK, MsgTypes, Release

(* The counter of the acquired message grows by one, no other changes.     *)
LEMMA AcquireCounts ==
    ASSUME TypeOK, NEW x \in Msgs, Acquire(x), NEW m \in Msgs,
           m \in free <=> ref[m] = 0, x = m => ref[m] >= 1
    PROVE  /\ ref'[m] = ref[m] + (IF x = m THEN 1 ELSE 0)
           /\ m \in free' <=> ref'[m] = 0
BY DEF TypeOK, MsgTypes, Acquire
-----------------------------------------------------------------------------
(* Every action keeps the count of every message: what one holder gives away  *)
(* the next one gets.                                                      *)
LEMMA NextCounts ==
    ASSUME TypeOK, NEW m \in Msgs, Counted(m), [Next]_vars
    PROVE  Counted(m)'
<1> DEFINE is(x) == IF x = m THEN 1 ELSE 0
<1>T. /\ MsgTypes /\ QueueTypes /\ BrokerTypes /\ ThreadTypes
      /\ Finite(m) /\ ref[m] = References(m) /\ (m \in free <=> ref[m] = 0) /\ Claims(m) <= 1
      /\ m # None
  BY NoneAssumption DEF TypeOK, Counted
<1>N. /\ InFifo(m) \in Nat
      /\ InQueues(Subs, m) \in Nat /\ InQueues(FifoSubs, m) \in Nat
      /\ InQueues(FifoSubs, m) <= InQueues(Subs, m)
      /\ Kept(m) \in Nat
      /\ By(ThreadSteps, m) \in Nat
      /\ By(LinkSteps, m) \in Nat /\ By(LinkSteps, m) <= By(ThreadSteps, m)
      /\ By(PutSteps, m) \in Nat /\ By(PutSteps, m) <= By(ThreadSteps, m)
      /\ ref[m] \in Int
      /\ References(m) = InFifo(m) + InQueues(Subs, m) + Kept(m) + By(ThreadSteps, m)
                         + By(PutSteps, m) + ByBroker(m)
  BY <1>T, CountsNat
<1>S. ASSUME IsFiniteSet(Entries(queue, Subs, m)'), IsFiniteSet(Keepers(m)'),
             IsFiniteSet(AtHand(ThreadSteps, m)'),
             ref'[m] = InFifo(m)' + InQueues(Subs, m)' + Kept(m)' + By(ThreadSteps, m)'
                       + By(PutSteps, m)' + ByBroker(m)',
             m \in free' <=> ref'[m] = 0,
             Claims(m)' <= 1
      PROVE  Counted(m)'
  BY <1>S DEF Counted, Finite, References, InFifo, InQueues, Kept, By, PutSteps
<1>C. /\ Claims(m) = InFifo(m) + InQueues(FifoSubs, m) + By(LinkSteps, m) + LinkedByBroker(m)
      /\ Claims(m)' = InFifo(m)' + InQueues(FifoSubs, m)' + By(LinkSteps, m)'
                      + LinkedByBroker(m)'
  BY DEF Claims
<1>F. ASSUME UNCHANGED pubFifo
      PROVE  InFifo(m)' = InFifo(m)
  BY <1>F DEF InFifo, InSeq
<1>Q. ASSUME UNCHANGED queue
      PROVE  /\ IsFiniteSet(Entries(queue, Subs, m)')
             /\ InQueues(Subs, m)' = InQueues(Subs, m)
             /\ InQueues(FifoSubs, m)' = InQueues(FifoSubs, m)
  BY <1>T, <1>Q DEF Finite, InQueues, Entries, InSeq, FifoSubs
<1>K. ASSUME UNCHANGED retained
      PROVE  IsFiniteSet(Keepers(m)') /\ Kept(m)' = Kept(m)
  BY <1>T, <1>K DEF Finite, Kept, Keepers
<1>H. ASSUME UNCHANGED threadVars
      PROVE  /\ IsFiniteSet(AtHand(ThreadSteps, m)')
             /\ By(ThreadSteps, m)' = By(ThreadSteps, m)
             /\ By(LinkSteps, m)' = By(LinkSteps, m)
             /\ By(PutSteps, m)' = By(PutSteps, m)
  BY <1>T, <1>H DEF Finite, By, AtHand, threadVars
<1>B. ASSUME UNCHANGED bmsg,
             \/ UNCHANGED bpc
             \/ bmsg = None
             \/ bpc \in {"lock", "visit", "call"} /\ bpc' \in {"lock", "visit", "call"}
      PROVE  ByBroker(m)' = ByBroker(m) /\ LinkedByBroker(m)' = LinkedByBroker(m)
  BY <1>T, <1>B DEF ByBroker, LinkedByBroker
<1>R. ASSUME UNCHANGED <<ref, free>>
      PROVE  ref'[m] = ref[m] /\ (m \in free' <=> ref'[m] = 0)
  BY <1>T, <1>R
<1>G. ASSUME NEW t \in Threads, NEW pc \in ThreadSteps, NEW x, NEW s, NEW next,
             Goto(t, pc, x, s, next)
      PROVE  /\ IsFiniteSet(AtHand(ThreadSteps, m)')
             /\ By(ThreadSteps, m)' = By(ThreadSteps, m) - is(tmsg[t]) + is(x)
             /\ By(LinkSteps, m)' = By(LinkSteps, m)
                    - (IF tmsg[t] = m /\ tpc[t] # "handle" THEN 1 ELSE 0)
                    + (IF x = m /\ pc # "handle" THEN 1 ELSE 0)
             /\ By(PutSteps, m)' = By(PutSteps, m)
                    - (IF tmsg[t] = m /\ tpc[t] \in PutSteps THEN 1 ELSE 0)
                    + (IF x = m /\ pc \in PutSteps THEN 1 ELSE 0)
  BY <1>G, <1>T, GotoCounts
<1>h. ASSUME NEW t \in Threads, tmsg[t] = m
      PROVE  By(ThreadSteps, m) >= 1 /\ (tpc[t] # "handle" => By(LinkSteps, m) >= 1)
  <2>1. ASSUME NEW steps \in SUBSET ThreadSteps, tpc[t] \in steps
        PROVE  By(steps, m) >= 1
    <3>1. t \in AtHand(steps, m) /\ IsFiniteSet(AtHand(steps, m))
      BY <1>T, <1>h, <2>1, AtHandSubset DEF AtHand, Finite
    <3>2. Cardinality(AtHand(steps, m)) \in Nat /\ Cardinality(AtHand(steps, m)) # 0
      BY <3>1, FS_EmptySet, FS_CardinalityType
    <3> QED
      BY <3>2 DEF By
  <2>2. tpc[t] \in ThreadSteps /\ ThreadSteps \in SUBSET ThreadSteps
        /\ LinkSteps \in SUBSET ThreadSteps /\ (tpc[t] # "handle" => tpc[t] \in LinkSteps)
    BY <1>T DEF ThreadTypes, LinkSteps
  <2> QED
    BY <2>1, <2>2
<1>W. ASSUME NEW t \in Threads, tpc[t] \notin {"idle", "remove", "clear", "add"}
      PROVE  tmsg[t] \in Msgs
  BY <1>T, <1>W DEF ThreadTypes, Fits
<1>I. (\A x : is(x) \in {0, 1}) /\ ByBroker(m) \in Nat /\ LinkedByBroker(m) \in Nat
  BY DEF ByBroker, LinkedByBroker
<1> HIDE DEF is

<1>1. ASSUME NEW t \in Threads, NEW n \in Msgs, NEW i \in MsgIds, NewMsg(t, n, i)
      PROVE  Counted(m)'
  <2>1. /\ IsFiniteSet(AtHand(ThreadSteps, m)')
        /\ By(ThreadSteps, m)' = By(ThreadSteps, m) + is(n)
        /\ By(LinkSteps, m)' = By(LinkSteps, m) + is(n)
        /\ By(PutSteps, m)' = By(PutSteps, m)
    <3>1. tmsg[t] = None /\ "owns" \in ThreadSteps /\ "owns" # "handle" /\ "owns" \notin PutSteps
      BY <1>1, <1>T DEF NewMsg, ThreadTypes, Fits, ThreadSteps, PutSteps
    <3>2. Goto(t, "owns", n, None, None)
      BY <1>1 DEF NewMsg
    <3> QED
      BY <1>T, <1>G, <1>N, <3>1, <3>2 DEF is
  <2>2. ByBroker(m)' = ByBroker(m) /\ LinkedByBroker(m)' = LinkedByBroker(m)
    BY <1>1, <1>B DEF NewMsg, brokerVars
  <2>3. CASE n = m
    <3>1. ref[m] = 0 /\ ref'[m] = 1 /\ m \notin free'
      BY <1>1, <1>T, <2>3 DEF NewMsg, MsgTypes
    <3>2. /\ InFifo(m) = 0 /\ InQueues(Subs, m) = 0 /\ InQueues(FifoSubs, m) = 0 /\ Kept(m) = 0
          /\ By(ThreadSteps, m) = 0 /\ By(LinkSteps, m) = 0 /\ By(PutSteps, m) = 0
          /\ ByBroker(m) = 0 /\ LinkedByBroker(m) = 0
      <4>1. ByBroker(m) \in Nat /\ (ByBroker(m) = 0 => LinkedByBroker(m) = 0)
        BY DEF ByBroker, LinkedByBroker
      <4>2. InFifo(m) + InQueues(Subs, m) + Kept(m) + By(ThreadSteps, m)
            + By(PutSteps, m) + ByBroker(m) = 0
        BY <1>T, <1>N, <3>1
      <4>3. /\ InFifo(m) \in Nat /\ InQueues(Subs, m) \in Nat /\ Kept(m) \in Nat
            /\ By(ThreadSteps, m) \in Nat /\ By(PutSteps, m) \in Nat
        BY <1>N
      <4>4. /\ InFifo(m) = 0 /\ InQueues(Subs, m) = 0 /\ Kept(m) = 0
            /\ By(ThreadSteps, m) = 0 /\ By(PutSteps, m) = 0 /\ ByBroker(m) = 0
        BY <4>1, <4>2, <4>3
      <4> QED
        BY <1>N, <1>I, <4>1, <4>4
    <3> QED
      BY <1>1, <1>S, <1>C, <1>F, <1>Q, <1>K, <2>1, <2>2, <2>3, <3>1, <3>2 DEF NewMsg, is
  <2>4. CASE n # m
    <3>1. ref'[m] = ref[m] /\ (m \in free' <=> ref'[m] = 0)
      BY <1>1, <1>T, <2>4 DEF NewMsg, MsgTypes
    <3> QED
      BY <1>1, <1>T, <1>N, <1>S, <1>C, <1>F, <1>Q, <1>K, <2>1, <2>2, <2>4, <3>1 DEF NewMsg, is
  <2> QED
    BY <2>3, <2>4
<1>2. ASSUME NEW t \in Threads, Publish(t)
      PROVE  Counted(m)'
  <2>1. /\ IsFiniteSet(AtHand(ThreadSteps, m)')
        /\ By(ThreadSteps, m)' = By(ThreadSteps, m) - is(tmsg[t])
        /\ By(LinkSteps, m)' = By(LinkSteps, m) - is(tmsg[t])
        /\ By(PutSteps, m)' = By(PutSteps, m)
    <3>1. tpc[t] = "owns" /\ tpc[t] \notin PutSteps /\ "idle" \in ThreadSteps
      BY <1>2 DEF Publish, PutSteps, ThreadSteps
    <3>2. Goto(t, "idle", None, None, None)
      BY <1>2 DEF Publish, Return
    <3> QED
      BY <1>T, <1>G, <1>N, <3>1, <3>2 DEF is
  <2>2. InFifo(m)' = InFifo(m) + is(tmsg[t])
    <3>1. tmsg[t] \in Msgs /\ pubFifo \in Seq(Msgs) /\ pubFifo' = Append(pubFifo, tmsg[t])
      BY <1>2, <1>T, <1>W DEF Publish, PubFifoPut, QueueTypes
    <3>2. Cardinality(InSeq(pubFifo', m)) = Cardinality(InSeq(pubFifo, m)) + is(tmsg[t])
      BY <3>1, InSeqAppend DEF is
    <3> QED
      BY <3>2 DEF InFifo, InSeq
  <2>3. ByBroker(m)' = ByBroker(m) /\ LinkedByBroker(m)' = LinkedByBroker(m)
    BY <1>2, <1>T, <1>B DEF Publish, BrokerTypes
  <2>4. UNCHANGED <<ref, free, retained, queue>>
    BY <1>2 DEF Publish, msgVars
  <2> QED
    BY <1>T, <1>N, <1>S, <1>C, <1>Q, <1>K, <1>R, <1>I, <2>1, <2>2, <2>3, <2>4
<1>3. ASSUME NEW t \in Threads, Discard(t)
      PROVE  Counted(m)'
  <2>1. /\ IsFiniteSet(AtHand(ThreadSteps, m)')
        /\ By(ThreadSteps, m)' = By(ThreadSteps, m) - is(tmsg[t])
        /\ By(LinkSteps, m)' = By(LinkSteps, m) - is(tmsg[t])
        /\ By(PutSteps, m)' = By(PutSteps, m)
    <3>1. tpc[t] = "owns" /\ tpc[t] \notin PutSteps /\ "idle" \in ThreadSteps
      BY <1>3 DEF Discard, PutSteps, ThreadSteps
    <3>2. Goto(t, "idle", None, None, None)
      BY <1>3 DEF Discard, Return
    <3> QED
      BY <1>T, <1>G, <1>N, <3>1, <3>2 DEF is
  <2>2. ref'[m] = ref[m] - is(tmsg[t]) /\ (m \in free' <=> ref'[m] = 0)
    <3>1. tmsg[t] \in Msgs /\ Release(tmsg[t]) /\ (tmsg[t] = m => ref[m] >= 1)
      BY <1>3, <1>T, <1>N, <1>W, <1>h DEF Discard, ByBroker
    <3> QED
      BY <1>T, <3>1, ReleaseCounts DEF is
  <2>3. ByBroker(m)' = ByBroker(m) /\ LinkedByBroker(m)' = LinkedByBroker(m)
    BY <1>3, <1>B DEF Discard, brokerVars
  <2>4. UNCHANGED <<retained, pubFifo, queue>>
    BY <1>3 DEF Discard
  <2> QED
    BY <1>T, <1>N, <1>S, <1>C, <1>F, <1>Q, <1>K, <1>I, <2>1, <2>2, <2>3, <2>4
<1>4. ASSUME NEW t \in Threads, NEW s \in Subs, PublishTo(t, s)
      PROVE  Counted(m)'
  <2>1. ByBroker(m)' = ByBroker(m) /\ LinkedByBroker(m)' = LinkedByBroker(m)
    BY <1>4, <1>B DEF PublishTo, brokerVars
  <2>2. UNCHANGED <<ref, free, retained, pubFifo>> /\ tpc[t] = "owns" /\ tmsg[t] \in Msgs
    BY <1>4, <1>W DEF PublishTo, msgVars
  <2>3. ASSUME NEW pc \in {"direct", "directput"}, Goto(t, pc, tmsg[t], s, None), UNCHANGED queue
        PROVE  Counted(m)'
    <3>1. /\ IsFiniteSet(AtHand(ThreadSteps, m)')
          /\ By(ThreadSteps, m)' = By(ThreadSteps, m)
          /\ By(LinkSteps, m)' = By(LinkSteps, m)
          /\ By(PutSteps, m)' = By(PutSteps, m)
      <4>1. pc \in ThreadSteps /\ pc # "handle" /\ pc \notin PutSteps /\ tpc[t] \notin PutSteps
        BY <2>2, <2>3 DEF PutSteps, ThreadSteps
      <4>2. Goto(t, pc, tmsg[t], s, None)
        BY <2>3
      <4> QED
        BY <1>T, <1>G, <1>N, <2>2, <4>1, <4>2 DEF is
    <3> QED
      BY <1>T, <1>N, <1>S, <1>C, <1>F, <1>Q, <1>K, <1>R, <2>1, <2>2, <2>3, <3>1
  <2>4. ASSUME RxType[s] = "fifo", Put(s, tmsg[t]), Return(t)
        PROVE  Counted(m)'
    <3>1. /\ IsFiniteSet(AtHand(ThreadSteps, m)')
          /\ By(ThreadSteps, m)' = By(ThreadSteps, m) - is(tmsg[t])
          /\ By(LinkSteps, m)' = By(LinkSteps, m) - is(tmsg[t])
          /\ By(PutSteps, m)' = By(PutSteps, m)
      <4>1. "idle" \in ThreadSteps /\ tpc[t] \notin PutSteps
        BY <2>2 DEF PutSteps, ThreadSteps
      <4>2. Goto(t, "idle", None, None, None)
        BY <2>4 DEF Return
      <4> QED
        BY <1>T, <1>G, <1>N, <2>2, <4>1, <4>2 DEF is
    <3>2. /\ IsFiniteSet(Entries(queue, Subs, m)')
          /\ InQueues(Subs, m)' = InQueues(Subs, m) + is(tmsg[t])
          /\ InQueues(FifoSubs, m)' = InQueues(FifoSubs, m) + is(tmsg[t])
      BY <1>T, <2>2, <2>4, PutCounts DEF is
    <3> QED
      BY <1>T, <1>N, <1>S, <1>C, <1>F, <1>K, <1>R, <1>I, <2>1, <2>2, <3>1, <3>2
  <2> QED
    BY <1>4, <2>3, <2>4 DEF PublishTo
<1>5. ASSUME NEW t \in Threads, DirectPut(t)
      PROVE  Counted(m)'
  <2>1. /\ IsFiniteSet(AtHand(ThreadSteps, m)')
        /\ By(ThreadSteps, m)' = By(ThreadSteps, m) - is(tmsg[t])
        /\ By(LinkSteps, m)' = By(LinkSteps, m) - is(tmsg[t])
        /\ By(PutSteps, m)' = By(PutSteps, m)
    <3>1. tpc[t] = "directput" /\ tpc[t] \notin PutSteps /\ "idle" \in ThreadSteps
      BY <1>5 DEF DirectPut, PutSteps, ThreadSteps
    <3>2. Goto(t, "idle", None, None, None)
      BY <1>5 DEF DirectPut, Return
    <3> QED
      BY <1>T, <1>G, <1>N, <3>1, <3>2 DEF is
  <2>2. /\ IsFiniteSet(Entries(queue, Subs, m)')
        /\ InQueues(Subs, m)' = InQueues(Subs, m) + is(tmsg[t])
        /\ InQueues(FifoSubs, m)' <= InQueues(FifoSubs, m) + is(tmsg[t])
        /\ InQueues(FifoSubs, m)' \in Int
    <3>1. tmsg[t] \in Msgs /\ tsub[t] \in Subs /\ Put(tsub[t], tmsg[t])
      BY <1>5, <1>T DEF DirectPut, ThreadTypes, Fits
    <3> QED
      BY <1>T, <1>N, <3>1, PutCounts DEF is
  <2>3. ByBroker(m)' = ByBroker(m) /\ LinkedByBroker(m)' = LinkedByBroker(m)
    BY <1>5, <1>B DEF DirectPut, brokerVars
  <2>4. UNCHANGED <<ref, free, retained, pubFifo>>
    BY <1>5 DEF DirectPut, msgVars
  <2>5. LinkedByBroker(m) \in Int
    BY DEF LinkedByBroker
  <2> QED
    BY <1>T, <1>N, <1>S, <1>C, <1>F, <1>K, <1>R, <1>I, <2>1, <2>2, <2>3, <2>4, <2>5
<1>6. ASSUME BrokerGet
      PROVE  Counted(m)'
  <2>1. bmsg = None /\ UNCHANGED <<ref, free, retained, queue, threadVars>>
    BY <1>6, <1>T DEF BrokerGet, BrokerTypes, msgVars
  <2>2. CASE UNCHANGED <<pubFifo, bmsg>>
    BY <1>T, <1>N, <1>S, <1>C, <1>F, <1>Q, <1>K, <1>H, <1>R, <1>B, <2>1, <2>2
  <2>3. CASE pubFifo # <<>> /\ bmsg' = Head(pubFifo) /\ pubFifo' = Tail(pubFifo) /\ bpc' = "lock"
    <3>1. InFifo(m)' = InFifo(m) - is(Head(pubFifo))
      <4>1. Cardinality(InSeq(Tail(pubFifo), m)) = Cardinality(InSeq(pubFifo, m)) - is(Head(pubFifo))
        BY <1>T, <2>3, InSeqTail DEF QueueTypes, is
      <4> QED
        BY <2>3, <4>1 DEF InFifo, InSeq
    <3>2. /\ ByBroker(m) = 0 /\ LinkedByBroker(m) = 0
          /\ ByBroker(m)' = is(Head(pubFifo)) /\ LinkedByBroker(m)' = is(Head(pubFifo))
      BY <1>T, <2>1, <2>3 DEF ByBroker, LinkedByBroker, is
    <3> QED
      BY <1>T, <1>N, <1>S, <1>C, <1>Q, <1>K, <1>H, <1>R, <1>I, <2>1, <3>1, <3>2
  <2> QED
    BY <1>6, <2>2, <2>3 DEF BrokerGet
<1>7. ASSUME BrokerLock
      PROVE  Counted(m)'
  <2>1. ByBroker(m)' = ByBroker(m) /\ LinkedByBroker(m)' = LinkedByBroker(m)
    BY <1>7, <1>B DEF BrokerLock
  <2>2. UNCHANGED <<ref, free, retained, pubFifo, queue, threadVars>>
    BY <1>7 DEF BrokerLock, msgVars
  <2> QED
    BY <1>T, <1>N, <1>S, <1>C, <1>F, <1>Q, <1>K, <1>H, <1>R, <2>1, <2>2
<1>8. ASSUME BrokerVisit
      PROVE  Counted(m)'
  <2>1. /\ bpc = "visit" /\ UNCHANGED <<bmsg, retained, pubFifo, queue, threadVars>>
        /\ bmsg \in Msgs
    BY <1>8, <1>T DEF BrokerVisit, BrokerTypes
  <2>2. CASE bpc' \in {"unlock", "visit", "call"} /\ UNCHANGED <<ref, free>>
    <3>1. /\ ByBroker(m)' = ByBroker(m) /\ LinkedByBroker(m)' <= LinkedByBroker(m)
          /\ LinkedByBroker(m) \in Int /\ LinkedByBroker(m)' \in Int
      BY <2>1, <2>2 DEF ByBroker, LinkedByBroker
    <3> QED
      BY <1>T, <1>N, <1>S, <1>C, <1>F, <1>Q, <1>K, <1>H, <1>R, <2>1, <2>2, <3>1
  <2>3. CASE Acquire(bmsg) /\ bpc' = "put"
    <3>1. /\ ByBroker(m)' = ByBroker(m) + is(bmsg) /\ LinkedByBroker(m)' = LinkedByBroker(m)
          /\ ByBroker(m) \in Int
      BY <2>1, <2>3 DEF ByBroker, LinkedByBroker, is
    <3>2. ref'[m] = ref[m] + is(bmsg) /\ (m \in free' <=> ref'[m] = 0)
      <4>1. bmsg = m => ref[m] >= 1
        BY <1>T, <1>N, <2>1 DEF ByBroker
      <4> QED
        BY <1>T, <2>1, <2>3, <4>1, AcquireCounts DEF is
    <3> QED
      BY <1>T, <1>N, <1>S, <1>C, <1>F, <1>Q, <1>K, <1>H, <1>I, <2>1, <3>1, <3>2
  <2> QED
    BY <1>8, <2>2, <2>3 DEF BrokerVisit
<1>9. ASSUME BrokerCalled
      PROVE  Counted(m)'
  <2>1. ByBroker(m)' = ByBroker(m) /\ LinkedByBroker(m)' = LinkedByBroker(m)
    BY <1>9, <1>B DEF BrokerCalled
  <2>2. UNCHANGED <<ref, free, retained, pubFifo, queue, threadVars>>
    BY <1>9 DEF BrokerCalled, msgVars
  <2> QED
    BY <1>T, <1>N, <1>S, <1>C, <1>F, <1>Q, <1>K, <1>H, <1>R, <2>1, <2>2
<1>10. ASSUME BrokerPut
      PROVE  Counted(m)'
  <2>1. /\ bpc = "put" /\ UNCHANGED <<bmsg, ref, free, retained, pubFifo, threadVars>>
        /\ bmsg \in Msgs /\ bsub \in Subs /\ Put(bsub, bmsg)
        /\ bpc' = IF RxType[bsub] = "fifo" THEN "unlock" ELSE "visit"
    BY <1>10, <1>T DEF BrokerPut, BrokerTypes, msgVars, FifoSubHandled
  <2>2. /\ IsFiniteSet(Entries(queue, Subs, m)')
        /\ InQueues(Subs, m)' = InQueues(Subs, m) + is(bmsg)
        /\ InQueues(FifoSubs, m)' = InQueues(FifoSubs, m)
               + (IF bmsg = m /\ RxType[bsub] = "fifo" THEN 1 ELSE 0)
    BY <1>T, <2>1, PutCounts DEF is
  <2>3. /\ ByBroker(m)' = ByBroker(m) - is(bmsg) /\ ByBroker(m) \in Int
        /\ LinkedByBroker(m)' = LinkedByBroker(m)
               - (IF bmsg = m /\ RxType[bsub] = "fifo" THEN 1 ELSE 0)
        /\ LinkedByBroker(m) \in Int
    BY <2>1 DEF ByBroker, LinkedByBroker, is
  <2> QED
    BY <1>T, <1>N, <1>S, <1>C, <1>F, <1>K, <1>H, <1>R, <1>I, <2>1, <2>2, <2>3
<1>11. ASSUME BrokerUnlock
      PROVE  Counted(m)'
  <2>1. ByBroker(m)' = ByBroker(m) /\ LinkedByBroker(m)' = LinkedByBroker(m)
    BY <1>11 DEF BrokerUnlock, ByBroker, LinkedByBroker
  <2>2. UNCHANGED <<ref, free, retained, pubFifo, queue, threadVars>>
    BY <1>11 DEF BrokerUnlock, msgVars
  <2> QED
    BY <1>T, <1>N, <1>S, <1>C, <1>F, <1>Q, <1>K, <1>H, <1>R, <2>1, <2>2
<1>12. ASSUME BrokerRelease
      PROVE  Counted(m)'
  <2>1. /\ bpc = "release" /\ bmsg \in Msgs /\ Release(bmsg) /\ bmsg' = None
        /\ UNCHANGED <<retained, pubFifo, queue, threadVars>>
    BY <1>12, <1>T DEF BrokerRelease, BrokerTypes
  <2>2. /\ ByBroker(m) = is(bmsg) /\ LinkedByBroker(m) = 0
        /\ ByBroker(m)' = 0 /\ LinkedByBroker(m)' = 0
    BY <1>T, <2>1 DEF ByBroker, LinkedByBroker, is
  <2>3. ref'[m] = ref[m] - is(bmsg) /\ (m \in free' <=> ref'[m] = 0)
    <3>1. bmsg = m => ref[m] >= 1
      BY <1>T, <1>N, <2>2 DEF is
    <3> QED
      BY <1>T, <2>1, <3>1, ReleaseCounts DEF is
  <2> QED
    BY <1>T, <1>N, <1>S, <1>C, <1>F, <1>Q, <1>K, <1>H, <1>I, <2>1, <2>2, <2>3
<1>13. ASSUME BrokerSubmit
      PROVE  Counted(m)'
  <2>1. ByBroker(m)' = ByBroker(m) /\ LinkedByBroker(m)' = LinkedByBroker(m)
    BY <1>13, <1>T, <1>B DEF BrokerSubmit, BrokerTypes
  <2>2. UNCHANGED <<ref, free, retained, pubFifo, queue, threadVars>>
    BY <1>13 DEF BrokerSubmit, msgVars
  <2> QED
    BY <1>T, <1>N, <1>S, <1>C, <1>F, <1>Q, <1>K, <1>H, <1>R, <2>1, <2>2
<1>14. ASSUME NEW t \in Threads, NEW s \in Subs, Get(t, s)
      PROVE  Counted(m)'
  <2>1. PICK x : x = Head(queue[s])
    OBVIOUS
  <2>2. /\ IsFiniteSet(AtHand(ThreadSteps, m)')
        /\ By(ThreadSteps, m)' = By(ThreadSteps, m) + is(x)
        /\ By(LinkSteps, m)' <= By(LinkSteps, m)
               + (IF x = m /\ RxType[s] = "fifo" THEN 1 ELSE 0)
        /\ By(LinkSteps, m)' \in Int
        /\ By(PutSteps, m)' = By(PutSteps, m)
    <3>1. PICK pc \in {"forward", "handle"} :
             Goto(t, pc, x, s, None) /\ (pc = "forward" => RxType[s] = "fifo")
      BY <1>14, <2>1 DEF Get, Forwards
    <3>2. pc \in ThreadSteps /\ pc \notin PutSteps /\ tmsg[t] = None
      BY <1>14, <1>T DEF Get, ThreadTypes, Fits, PutSteps, ThreadSteps
    <3>3. /\ IsFiniteSet(AtHand(ThreadSteps, m)')
          /\ By(ThreadSteps, m)' = By(ThreadSteps, m) - is(tmsg[t]) + is(x)
          /\ By(LinkSteps, m)' = By(LinkSteps, m)
                 - (IF tmsg[t] = m /\ tpc[t] # "handle" THEN 1 ELSE 0)
                 + (IF x = m /\ pc # "handle" THEN 1 ELSE 0)
          /\ By(PutSteps, m)' = By(PutSteps, m)
                 - (IF tmsg[t] = m /\ tpc[t] \in PutSteps THEN 1 ELSE 0)
                 + (IF x = m /\ pc \in PutSteps THEN 1 ELSE 0)
      BY <1>G, <3>1, <3>2
    <3> QED
      BY <1>T, <1>N, <3>1, <3>2, <3>3 DEF is
  <2>3. /\ IsFiniteSet(Entries(queue, Subs, m)')
        /\ InQueues(Subs, m)' = InQueues(Subs, m) - is(x)
        /\ InQueues(FifoSubs, m)' = InQueues(FifoSubs, m)
               - (IF x = m /\ RxType[s] = "fifo" THEN 1 ELSE 0)
    BY <1>14, <1>T, <2>1, GetCounts DEF Get, is
  <2>4. ByBroker(m)' = ByBroker(m) /\ LinkedByBroker(m)' = LinkedByBroker(m)
    BY <1>14, <1>B DEF Get, brokerVars
  <2>5. UNCHANGED <<ref, free, retained, pubFifo>> /\ LinkedByBroker(m) \in Int
    BY <1>14 DEF Get, msgVars, LinkedByBroker
  <2> QED
    BY <1>T, <1>N, <1>S, <1>C, <1>F, <1>K, <1>R, <1>I, <2>2, <2>3, <2>4, <2>5
<1>15. ASSUME NEW t \in Threads, ReadBroker(t)
      PROVE  Counted(m)'
  <2>1. /\ IsFiniteSet(AtHand(ThreadSteps, m)')
        /\ By(ThreadSteps, m)' = By(ThreadSteps, m)
        /\ By(LinkSteps, m)' = By(LinkSteps, m)
        /\ By(PutSteps, m)' = By(PutSteps, m)
    <3>1. PICK pc \in ThreadSteps : /\ pc = "lock" \/ pc = "null broker"
                                   /\ Goto(t, pc, tmsg[t], tsub[t], None)
      BY <1>15 DEF ReadBroker, ThreadSteps
    <3>2. /\ pc # "handle" /\ pc \notin PutSteps
          /\ tpc[t] = "forward" /\ tpc[t] \notin PutSteps
      BY <1>15, <3>1 DEF ReadBroker, PutSteps
    <3>3. /\ IsFiniteSet(AtHand(ThreadSteps, m)')
          /\ By(ThreadSteps, m)' = By(ThreadSteps, m) - is(tmsg[t]) + is(tmsg[t])
          /\ By(LinkSteps, m)' = By(LinkSteps, m)
                 - (IF tmsg[t] = m /\ tpc[t] # "handle" THEN 1 ELSE 0)
                 + (IF tmsg[t] = m /\ pc # "handle" THEN 1 ELSE 0)
          /\ By(PutSteps, m)' = By(PutSteps, m)
                 - (IF tmsg[t] = m /\ tpc[t] \in PutSteps THEN 1 ELSE 0)
                 + (IF tmsg[t] = m /\ pc \in PutSteps THEN 1 ELSE 0)
      BY <1>G, <3>1
    <3> QED
      BY <1>N, <3>2, <3>3 DEF is
  <2>2. ByBroker(m)' = ByBroker(m) /\ LinkedByBroker(m)' = LinkedByBroker(m)
    BY <1>15, <1>B DEF ReadBroker, brokerVars
  <2>3. UNCHANGED <<ref, free, retained, pubFifo, queue>>
    BY <1>15 DEF ReadBroker, msgVars
  <2> QED
    BY <1>T, <1>N, <1>S, <1>C, <1>F, <1>Q, <1>K, <1>R, <2>1, <2>2, <2>3
<1>16. ASSUME NEW t \in Threads, ForwardLock(t)
      PROVE  Counted(m)'
  <2>1. /\ IsFiniteSet(AtHand(ThreadSteps, m)')
        /\ By(ThreadSteps, m)' = By(ThreadSteps, m)
        /\ By(LinkSteps, m)' = By(LinkSteps, m)
        /\ By(PutSteps, m)' = By(PutSteps, m)
    <3>1. /\ "search" \in ThreadSteps /\ "search" \notin PutSteps
          /\ tpc[t] = "lock" /\ tpc[t] \notin PutSteps
      BY <1>16 DEF ForwardLock, PutSteps, ThreadSteps
    <3>2. Goto(t, "search", tmsg[t], tsub[t], None)
      BY <1>16 DEF ForwardLock
    <3> QED
      BY <1>T, <1>G, <1>N, <3>1, <3>2 DEF is
  <2>2. ByBroker(m)' = ByBroker(m) /\ LinkedByBroker(m)' = LinkedByBroker(m)
    BY <1>16, <1>B DEF ForwardLock, brokerVars
  <2>3. UNCHANGED <<ref, free, retained, pubFifo, queue>>
    BY <1>16 DEF ForwardLock, msgVars
  <2> QED
    BY <1>T, <1>N, <1>S, <1>C, <1>F, <1>Q, <1>K, <1>R, <2>1, <2>2, <2>3
<1>17. ASSUME NEW t \in Threads, Search(t)
      PROVE  Counted(m)'
  <2>1. ByBroker(m)' = ByBroker(m) /\ LinkedByBroker(m)' = LinkedByBroker(m)
    BY <1>17, <1>B DEF Search, brokerVars
  <2>2. /\ UNCHANGED <<retained, pubFifo, queue>> /\ tpc[t] = "search" /\ tmsg[t] \in Msgs
        /\ tpc[t] \notin PutSteps
    BY <1>17, <1>T DEF Search, PutSteps, ThreadTypes, Fits
  <2>3. CASE Goto(t, "handle", tmsg[t], tsub[t], None) /\ UNCHANGED <<ref, free>>
    <3>1. /\ IsFiniteSet(AtHand(ThreadSteps, m)')
          /\ By(ThreadSteps, m)' = By(ThreadSteps, m)
          /\ By(LinkSteps, m)' = By(LinkSteps, m) - is(tmsg[t])
          /\ By(PutSteps, m)' = By(PutSteps, m)
      <4>1. "handle" \in ThreadSteps /\ "handle" \notin PutSteps
        BY DEF PutSteps, ThreadSteps
      <4>2. Goto(t, "handle", tmsg[t], tsub[t], None)
        BY <2>3
      <4> QED
        BY <1>T, <1>G, <1>N, <2>2, <4>1, <4>2 DEF is
    <3> QED
      BY <1>T, <1>N, <1>S, <1>C, <1>F, <1>Q, <1>K, <1>R, <1>I, <2>1, <2>2, <2>3, <3>1
  <2>4. ASSUME NEW pc \in PutSteps, NEW u, Goto(t, pc, tmsg[t], tsub[t], u), Acquire(tmsg[t])
        PROVE  Counted(m)'
    <3>1. /\ IsFiniteSet(AtHand(ThreadSteps, m)')
          /\ By(ThreadSteps, m)' = By(ThreadSteps, m)
          /\ By(LinkSteps, m)' = By(LinkSteps, m)
          /\ By(PutSteps, m)' = By(PutSteps, m) + is(tmsg[t])
      <4>1. pc \in ThreadSteps /\ pc # "handle"
        BY <2>4 DEF PutSteps, ThreadSteps
      <4>2. Goto(t, pc, tmsg[t], tsub[t], u)
        BY <2>4
      <4> QED
        BY <1>T, <1>G, <1>N, <2>2, <2>4, <4>1, <4>2 DEF is
    <3>2. ref'[m] = ref[m] + is(tmsg[t]) /\ (m \in free' <=> ref'[m] = 0)
      <4>1. tmsg[t] = m => ref[m] >= 1
        BY <1>T, <1>N, <1>h DEF ByBroker
      <4> QED
        BY <1>T, <2>2, <2>4, <4>1, AcquireCounts DEF is
    <3> QED
      BY <1>T, <1>N, <1>S, <1>C, <1>F, <1>Q, <1>K, <1>I, <2>1, <2>2, <3>1, <3>2
  <2> QED
    BY <1>17, <2>3, <2>4 DEF Search, PutSteps
<1>18. ASSUME NEW t \in Threads, ForwardPut(t)
      PROVE  Counted(m)'
  <2>1. /\ IsFiniteSet(AtHand(ThreadSteps, m)')
        /\ By(ThreadSteps, m)' = By(ThreadSteps, m)
        /\ By(LinkSteps, m)' = By(LinkSteps, m) - is(tmsg[t])
        /\ By(PutSteps, m)' = By(PutSteps, m) - is(tmsg[t])
    <3>1. /\ tpc[t] = "fput" /\ tpc[t] \in PutSteps /\ tpc[t] # "handle"
          /\ "handle" \in ThreadSteps /\ "handle" \notin PutSteps
      BY <1>18 DEF ForwardPut, PutSteps, ThreadSteps
    <3>2. Goto(t, "handle", tmsg[t], tsub[t], None)
      BY <1>18 DEF ForwardPut
    <3>3. /\ IsFiniteSet(AtHand(ThreadSteps, m)')
          /\ By(ThreadSteps, m)' = By(ThreadSteps, m) - is(tmsg[t]) + is(tmsg[t])
          /\ By(LinkSteps, m)' = By(LinkSteps, m)
                 - (IF tmsg[t] = m /\ tpc[t] # "handle" THEN 1 ELSE 0)
                 + (IF tmsg[t] = m /\ "handle" # "handle" THEN 1 ELSE 0)
          /\ By(PutSteps, m)' = By(PutSteps, m)
                 - (IF tmsg[t] = m /\ tpc[t] \in PutSteps THEN 1 ELSE 0)
                 + (IF tmsg[t] = m /\ "handle" \in PutSteps THEN 1 ELSE 0)
      BY <1>G, <3>1, <3>2
    <3>4. is(tmsg[t]) = IF tmsg[t] = m THEN 1 ELSE 0
      BY DEF is
    <3> QED
      BY <1>N, <3>1, <3>3, <3>4
  <2>2. /\ IsFiniteSet(Entries(queue, Subs, m)')
        /\ InQueues(Subs, m)' = InQueues(Subs, m) + is(tmsg[t])
        /\ InQueues(FifoSubs, m)' = InQueues(FifoSubs, m) + is(tmsg[t])
    <3>1. /\ tmsg[t] \in Msgs /\ tnext[t] \in Subs /\ RxType[tnext[t]] = "fifo"
          /\ Put(tnext[t], tmsg[t])
      BY <1>18, <1>T DEF ForwardPut, ThreadTypes, Fits
    <3> QED
      BY <1>T, <3>1, PutCounts DEF is
  <2>3. ByBroker(m)' = ByBroker(m) /\ LinkedByBroker(m)' = LinkedByBroker(m)
    BY <1>18, <1>B DEF ForwardPut, brokerVars
  <2>4. UNCHANGED <<ref, free, retained, pubFifo>>
    BY <1>18 DEF ForwardPut, msgVars
  <2> QED
    BY <1>T, <1>N, <1>S, <1>C, <1>F, <1>K, <1>R, <1>I, <2>1, <2>2, <2>3, <2>4
<1>19. ASSUME NEW t \in Threads, HandlerReturns(t)
      PROVE  Counted(m)'
  <2>1. /\ IsFiniteSet(AtHand(ThreadSteps, m)')
        /\ By(ThreadSteps, m)' = By(ThreadSteps, m) - is(tmsg[t])
        /\ By(LinkSteps, m)' <= By(LinkSteps, m)
        /\ By(LinkSteps, m)' \in Int
        /\ By(PutSteps, m)' = By(PutSteps, m)
    <3>1. /\ tpc[t] \in {"handle", "direct"} /\ tpc[t] \notin PutSteps
          /\ "idle" \in ThreadSteps
      BY <1>19 DEF HandlerReturns, PutSteps, ThreadSteps
    <3>2. Goto(t, "idle", None, None, None)
      BY <1>19 DEF HandlerReturns, Return
    <3> QED
      BY <1>T, <1>G, <1>N, <3>1, <3>2 DEF is
  <2>2. ref'[m] = ref[m] - is(tmsg[t]) /\ (m \in free' <=> ref'[m] = 0)
    <3>1. tmsg[t] \in Msgs /\ Release(tmsg[t]) /\ (tmsg[t] = m => ref[m] >= 1)
      BY <1>19, <1>T, <1>N, <1>W, <1>h DEF HandlerReturns, ByBroker
    <3> QED
      BY <1>T, <3>1, ReleaseCounts DEF is
  <2>3. /\ ByBroker(m)' = ByBroker(m) /\ LinkedByBroker(m)' = LinkedByBroker(m)
        /\ LinkedByBroker(m) \in Int
    BY <1>19, <1>B DEF HandlerReturns, brokerVars, LinkedByBroker
  <2>4. UNCHANGED <<retained, pubFifo, queue>>
    BY <1>19 DEF HandlerReturns
  <2> QED
    BY <1>T, <1>N, <1>S, <1>C, <1>F, <1>Q, <1>K, <1>I, <2>1, <2>2, <2>3, <2>4
<1>20. ASSUME NEW s \in Subs, NEW n \in Msgs, Retain(s, n)
      PROVE  Counted(m)'
  <2>1. Acquire(n) /\ UNCHANGED <<pubFifo, queue, brokerVars, threadVars>>
    BY <1>20 DEF Retain
  <2>2. IsFiniteSet(Keepers(m)') /\ Kept(m)' = Kept(m) + is(n)
    <3>1. IsFiniteSet(Keepers(m)) /\ (n = m => s \notin Keepers(m))
      BY <1>20, <1>T DEF Retain, Keepers, Finite
    <3>2. Keepers(m)' = IF n = m THEN Keepers(m) \cup {s} ELSE Keepers(m)
      BY <1>20, <1>T DEF Retain, Keepers, MsgTypes
    <3>3. /\ IsFiniteSet(Keepers(m) \cup {s})
          /\ n = m => Cardinality(Keepers(m) \cup {s}) = Cardinality(Keepers(m)) + 1
      BY <3>1, FS_AddElement
    <3> QED
      BY <1>N, <3>1, <3>2, <3>3 DEF Kept, is
  <2>3. ref'[m] = ref[m] + is(n) /\ (m \in free' <=> ref'[m] = 0)
    <3>1. ASSUME n = m
          PROVE  ref[m] >= 1
      <4>1. n = bmsg \/ \E t \in Threads : tmsg[t] = n
        BY <1>20 DEF Retain, Running, Serving
      <4>2. ByBroker(m) \in Nat /\ (bmsg = m => ByBroker(m) >= 1)
        BY DEF ByBroker
      <4> QED
        BY <1>T, <1>N, <1>h, <3>1, <4>1, <4>2
    <3> QED
      BY <1>T, <2>1, <3>1, AcquireCounts DEF is
  <2>4. ByBroker(m)' = ByBroker(m) /\ LinkedByBroker(m)' = LinkedByBroker(m)
    BY <2>1, <1>B DEF brokerVars
  <2> QED
    BY <1>T, <1>N, <1>S, <1>C, <1>F, <1>Q, <1>H, <1>I, <2>1, <2>2, <2>3, <2>4
<1>21. ASSUME NEW s \in Subs, NEW n \in Msgs, ReleaseRetained(s, n)
      PROVE  Counted(m)'
  <2>1. Release(n) /\ UNCHANGED <<pubFifo, queue, brokerVars, threadVars>>
    BY <1>21 DEF ReleaseRetained
  <2>2. IsFiniteSet(Keepers(m)') /\ Kept(m)' = Kept(m) - is(n) /\ (n = m => Kept(m) >= 1)
    <3>1. IsFiniteSet(Keepers(m)) /\ (n = m => s \in Keepers(m))
      BY <1>21, <1>T DEF ReleaseRetained, Keepers, Finite
    <3>2. Keepers(m)' = IF n = m THEN Keepers(m) \ {s} ELSE Keepers(m)
      BY <1>21, <1>T DEF ReleaseRetained, Keepers, MsgTypes
    <3>3. /\ IsFiniteSet(Keepers(m) \ {s})
          /\ n = m => Cardinality(Keepers(m) \ {s}) = Cardinality(Keepers(m)) - 1
      BY <3>1, FS_RemoveElement
    <3>4. n = m => Kept(m) # 0
      BY <3>1, FS_EmptySet DEF Kept
    <3> QED
      BY <1>N, <3>1, <3>2, <3>3, <3>4 DEF Kept, is
  <2>3. ref'[m] = ref[m] - is(n) /\ (m \in free' <=> ref'[m] = 0)
    <3>1. ByBroker(m) \in Nat
      BY DEF ByBroker
    <3>2. n = m => ref[m] >= 1
      BY <1>T, <1>N, <2>2, <3>1
    <3> QED
      BY <1>T, <2>1, <3>2, ReleaseCounts DEF is
  <2>4. ByBroker(m)' = ByBroker(m) /\ LinkedByBroker(m)' = LinkedByBroker(m)
    BY <2>1, <1>B DEF brokerVars
  <2> QED
    BY <1>T, <1>N, <1>S, <1>C, <1>F, <1>Q, <1>H, <1>I, <2>1, <2>2, <2>3, <2>4
<1>22. ASSUME NEW t \in Threads, NEW pc \in {"idle", "remove", "clear", "add"}, NEW s,
              tpc[t] \in {"idle", "remove", "clear", "add"}, Goto(t, pc, None, s, None),
              UNCHANGED <<msgVars, pubFifo, queue, brokerVars>>
      PROVE  Counted(m)'
  <2>1. /\ IsFiniteSet(AtHand(ThreadSteps, m)')
        /\ By(ThreadSteps, m)' = By(ThreadSteps, m)
        /\ By(LinkSteps, m)' = By(LinkSteps, m)
        /\ By(PutSteps, m)' = By(PutSteps, m)
    <3>1. /\ tmsg[t] = None /\ pc \in ThreadSteps
      BY <1>22, <1>T DEF ThreadTypes, Fits, ThreadSteps
    <3>2. Goto(t, pc, None, s, None)
      BY <1>22
    <3> QED
      BY <1>T, <1>G, <1>N, <3>1, <3>2 DEF is
  <2>2. ByBroker(m)' = ByBroker(m) /\ LinkedByBroker(m)' = LinkedByBroker(m)
    BY <1>22, <1>B DEF brokerVars
  <2>3. UNCHANGED <<ref, free, retained, pubFifo, queue>>
    BY <1>22 DEF msgVars
  <2> QED
    BY <1>T, <1>N, <1>S, <1>C, <1>F, <1>Q, <1>K, <1>R, <2>1, <2>2, <2>3
<1>23. ASSUME NEW t \in Threads, NEW s \in Subs, StartRemove(t, s) \/ StartAdd(t, s)
      PROVE  Counted(m)'
  BY <1>22, <1>23 DEF StartRemove, StartAdd
<1>24. ASSUME NEW t \in Threads, RemoveBroker(t) \/ ClearBroker(t) \/ AddSubscriber(t)
      PROVE  Counted(m)'
  BY <1>22, <1>24 DEF RemoveBroker, ClearBroker, AddSubscriber, Return
<1>25. ASSUME UNCHANGED <<msgVars, pubFifo, queue, brokerVars, threadVars>>
      PROVE  Counted(m)'
  <2>1. ByBroker(m)' = ByBroker(m) /\ LinkedByBroker(m)' = LinkedByBroker(m)
    BY <1>25, <1>B DEF brokerVars
  <2>2. UNCHANGED <<ref, free, retained, pubFifo, queue, threadVars>>
    BY <1>25 DEF msgVars
  <2> QED
    BY <1>T, <1>N, <1>S, <1>C, <1>F, <1>Q, <1>K, <1>H, <1>R, <2>1, <2>2
<1>26. ASSUME NEW t \in Threads, NEW s \in Subs, NEW i \in MsgIds,
              Subscribe(t, s, i) \/ Unsubscribe(t, s, i)
      PROVE  Counted(m)'
  BY <1>25, <1>26 DEF Subscribe, Unsubscribe
<1>27. CASE UNCHANGED vars
  BY <1>25, <1>27 DEF vars
<1> QED
  BY <1>1, <1>2, <1>3, <1>4, <1>5, <1>6, <1>7, <1>8, <1>9, <1>10, <1>11, <1>12, <1>13,
     <1>14, <1>15, <1>16, <1>17, <1>18, <1>19, <1>20, <1>21, <1>23, <1>24, <1>26, <1>27
     DEF Next, BrokerStep, ThreadStep, ThreadStart, Quiescent
-----------------------------------------------------------------------------
(* The invariants, of the specification.                                   *)

AllCounted == \A m \in Msgs : Counted(m)

(* At first every message is free and nobody holds one.                    *)
LEMMA InitCounts ==
    ASSUME Init
    PROVE  AllCounted
<1> SUFFICES ASSUME NEW m \in Msgs
             PROVE  Counted(m)
  BY DEF AllCounted
<1>1. /\ InSeq(pubFifo, m) = {} /\ Entries(queue, Subs, m) = {}
      /\ Entries(queue, FifoSubs, m) = {} /\ Keepers(m) = {}
  <2>1. \A s \in Subs : queue[s] = <<>> /\ retained[s] = {}
    BY DEF Init
  <2> QED
    BY <2>1 DEF Init, InSeq, Entries, Keepers, FifoSubs
<1>2. \A steps : AtHand(steps, m) = {}
  BY NoneAssumption DEF Init, AtHand
<1>3. ByBroker(m) = 0 /\ LinkedByBroker(m) = 0
  BY NoneAssumption DEF Init, ByBroker, LinkedByBroker
<1>4. ref[m] = 0 /\ m \in free
  BY DEF Init
<1>5. /\ InFifo(m) = 0 /\ InQueues(Subs, m) = 0 /\ InQueues(FifoSubs, m) = 0 /\ Kept(m) = 0
      /\ \A steps : By(steps, m) = 0
  BY <1>1, <1>2, FS_EmptySet DEF InFifo, InQueues, Kept, By
<1>6. References(m) = 0 /\ Claims(m) = 0
  <2>1. Claims(m) = 0
    BY <1>3, <1>5 DEF Claims
  <2>2. References(m) = InFifo(m) + InQueues(Subs, m) + Kept(m) + By(ThreadSteps, m)
                        + By(PutSteps, m) + ByBroker(m)
    BY DEF References, InFifo, InQueues, Kept, By, PutSteps
  <2> QED
    BY <1>3, <1>5, <2>1, <2>2
<1>7. Finite(m)
  BY <1>1, <1>2, FS_EmptySet DEF Finite
<1> QED
  BY <1>4, <1>6, <1>7 DEF Counted

(* The inductive invariant: the counts agree and every message has at most *)
(* one claim to a fifo.                                                    *)
THEOREM CountsHold == Spec => []AllCounted
<1>1. TypeOK /\ AllCounted /\ [Next]_vars => AllCounted'
  BY NextCounts DEF AllCounted
<1> QED
  BY <1>1, InitCounts, TypeCorrect, PTL DEF Spec

(* The counter of every message is the number of references to it that     *)
(* exist and the message is free exactly when there is none, however many  *)
(* publishers, subscribers and keepers there are: pub_sub_release_msg      *)
(* frees it once and nobody who still has it finds it freed.               *)
THEOREM ReferencesCounted == Spec => []RefCountExact
<1>1. AllCounted => RefCountExact
  BY DEF AllCounted, Counted, RefCountExact
<1> QED
  BY <1>1, CountsHold, PTL

(* No message is ever linked into two fifos, or twice into one: the word   *)
(* fifo_reserved of its header is never overwritten while it is a link.    *)
THEOREM LinkedOnce == Spec => []OneFifo
<1>1. TypeOK /\ AllCounted => OneFifo
  <2> SUFFICES ASSUME TypeOK, NEW m \in Msgs, Counted(m)
               PROVE  InFifo(m) + InQueues(FifoSubs, m) <= 1
    BY DEF AllCounted, OneFifo, InFifo, InQueues
  <2>1. /\ InFifo(m) \in Nat /\ InQueues(FifoSubs, m) \in Nat /\ By(LinkSteps, m) \in Nat
        /\ LinkedByBroker(m) \in Nat
    BY CountsNat DEF Counted, LinkedByBroker
  <2>2. InFifo(m) + InQueues(FifoSubs, m) + By(LinkSteps, m) + LinkedByBroker(m) <= 1
    BY DEF Counted, Claims
  <2> QED
    BY <2>1, <2>2
<1> QED
  BY <1>1, CountsHold, TypeCorrect, PTL
-----------------------------------------------------------------------------
(* Who has a message alone.                                                *)

(* No entry, no message in any queue.                                      *)
LEMMA NotQueued ==
    ASSUME NEW m, Entries(queue, Subs, m) = {}, NEW s \in Subs, NEW i \in 1..Len(queue[s])
    PROVE  queue[s][i] # m
<1>1. ASSUME queue[s][i] = m
      PROVE  FALSE
  <2>1. <<s, i>> \in Entries(queue, Subs, m)
    BY <1>1 DEF Entries, InSeq
  <2> QED
    BY <2>1
<1> QED
  BY <1>1

(* The holders of a message are counted: a counter of 0 means that there   *)
(* are none.                                                               *)
LEMMA FreeUnheld ==
    ASSUME TypeOK, AllCounted, NEW m \in free
    PROVE  /\ \A i \in 1..Len(pubFifo) : pubFifo[i] # m
           /\ \A s \in Subs : \A i \in 1..Len(queue[s]) : queue[s][i] # m
           /\ \A s \in Subs : m \notin retained[s]
           /\ \A t \in Threads : tmsg[t] # m
           /\ bmsg # m
<1>1. m \in Msgs /\ Counted(m) /\ Finite(m)
  BY DEF TypeOK, MsgTypes, AllCounted, Counted
<1>2. /\ InFifo(m) \in Nat /\ InQueues(Subs, m) \in Nat /\ Kept(m) \in Nat
      /\ By(ThreadSteps, m) \in Nat /\ By(PutSteps, m) \in Nat /\ ByBroker(m) \in Nat
  BY <1>1, CountsNat DEF ByBroker
<1>3. InFifo(m) + InQueues(Subs, m) + Kept(m) + By(ThreadSteps, m) + By(PutSteps, m)
      + ByBroker(m) = 0
  BY <1>1, CountsNat DEF Counted
<1>4. /\ InFifo(m) = 0 /\ InQueues(Subs, m) = 0 /\ Kept(m) = 0
      /\ By(ThreadSteps, m) = 0 /\ ByBroker(m) = 0
  BY <1>2, <1>3
<1>5. InSeq(pubFifo, m) = {}
  BY <1>1, <1>4, InSeqFinite, FS_EmptySet DEF InFifo, TypeOK, QueueTypes
<1>6. Entries(queue, Subs, m) = {} /\ Keepers(m) = {} /\ AtHand(ThreadSteps, m) = {}
  BY <1>1, <1>4, FS_EmptySet DEF Finite, InQueues, Kept, By
<1>7. \A s \in Subs : \A i \in 1..Len(queue[s]) : queue[s][i] # m
  BY <1>6, NotQueued
<1>8. \A t \in Threads : tmsg[t] # m
  BY <1>6 DEF AtHand, TypeOK, ThreadTypes
<1> QED
  BY <1>4, <1>5, <1>6, <1>7, <1>8 DEF InSeq, Keepers, ByBroker

(* A counter of 1 means that there is no other than the one who has it.    *)
LEMMA OwnerAlone ==
    ASSUME TypeOK, AllCounted, NEW t \in Threads, NEW m \in Msgs, tmsg[t] = m, ref[m] = 1
    PROVE  /\ \A i \in 1..Len(pubFifo) : pubFifo[i] # m
           /\ \A s \in Subs : \A i \in 1..Len(queue[s]) : queue[s][i] # m
           /\ \A s \in Subs : m \notin retained[s]
           /\ \A u \in Threads \ {t} : tmsg[u] # m
           /\ bmsg # m
<1>1. Counted(m) /\ Finite(m)
  BY DEF AllCounted, Counted
<1>2. /\ InFifo(m) \in Nat /\ InQueues(Subs, m) \in Nat /\ Kept(m) \in Nat
      /\ By(ThreadSteps, m) \in Nat /\ By(PutSteps, m) \in Nat /\ ByBroker(m) \in Nat
  BY <1>1, CountsNat DEF ByBroker
<1>3. InFifo(m) + InQueues(Subs, m) + Kept(m) + By(ThreadSteps, m) + By(PutSteps, m)
      + ByBroker(m) = 1
  BY <1>1, CountsNat DEF Counted
<1>4. t \in AtHand(ThreadSteps, m) /\ IsFiniteSet(AtHand(ThreadSteps, m))
  BY <1>1 DEF AtHand, Finite, TypeOK, ThreadTypes
<1>5. By(ThreadSteps, m) # 0
  BY <1>4, FS_EmptySet DEF By
<1>6. /\ InFifo(m) = 0 /\ InQueues(Subs, m) = 0 /\ Kept(m) = 0
      /\ By(ThreadSteps, m) = 1 /\ ByBroker(m) = 0
  BY <1>2, <1>3, <1>5
<1>7. InSeq(pubFifo, m) = {}
  BY <1>6, InSeqFinite, FS_EmptySet DEF InFifo, TypeOK, QueueTypes
<1>8. Entries(queue, Subs, m) = {} /\ Keepers(m) = {}
  BY <1>1, <1>6, FS_EmptySet DEF Finite, InQueues, Kept
<1>9. \A s \in Subs : \A i \in 1..Len(queue[s]) : queue[s][i] # m
  BY <1>8, NotQueued
<1>10. ASSUME NEW u \in Threads \ {t}
       PROVE  tmsg[u] # m
  <2>1. /\ IsFiniteSet(AtHand(ThreadSteps, m) \ {t})
        /\ Cardinality(AtHand(ThreadSteps, m) \ {t}) = 0
    BY <1>4, <1>6, FS_RemoveElement DEF By
  <2>2. AtHand(ThreadSteps, m) \ {t} = {}
    BY <2>1, FS_EmptySet
  <2> QED
    BY <2>2 DEF AtHand, TypeOK, ThreadTypes
<1> QED
  BY <1>6, <1>7, <1>8, <1>9, <1>10 DEF InSeq, Keepers, ByBroker

(* A thread that has allocated a message and not yet published it has the  *)
(* only reference, and what it sends to a subscriber directly is no        *)
(* publication.                                                            *)
Alone(t) == tpc[t] = "owns" => ref[tmsg[t]] = 1
Unnumbered(t) == tpc[t] \in {"owns", "direct", "directput"} => seqno[tmsg[t]] = 0
Owned == \A t \in Threads : Alone(t) /\ Unnumbered(t)

(* What a thread has allocated nobody else gets before it is published or  *)
(* sent, so its counter stays 1.                                           *)
LEMMA NextOwned ==
    ASSUME TypeOK, AllCounted, Owned, [Next]_vars
    PROVE  Owned'
<1>1. ThreadTypes /\ BrokerTypes /\ MsgTypes /\ HistoryTypes
  BY DEF TypeOK
<1>2. ASSUME NEW t \in Threads, tpc[t] = "owns"
      PROVE  /\ tmsg[t] \in Msgs /\ bmsg # tmsg[t]
             /\ \A u \in Threads \ {t} : tmsg[u] # tmsg[t]
             /\ \A s \in Subs : tmsg[t] \notin retained[s]
  <2>1. tmsg[t] \in Msgs /\ ref[tmsg[t]] = 1
    BY <1>1, <1>2 DEF ThreadTypes, Fits, Owned, Alone
  <2> QED
    BY <2>1, OwnerAlone
<1>3. ASSUME NEW t \in Threads, NEW pc, NEW m, NEW s, NEW next, Goto(t, pc, m, s, next)
      PROVE  /\ tpc'[t] = pc /\ tmsg'[t] = m
             /\ \A u \in Threads \ {t} : tpc'[u] = tpc[u] /\ tmsg'[u] = tmsg[u]
  BY <1>1, <1>3 DEF Goto, ThreadTypes
<1>4. ASSUME NEW t \in Threads, NEW pc, NEW m, NEW s, NEW next, Goto(t, pc, m, s, next),
             pc \notin {"owns", "direct", "directput"},
             \A u \in Threads \ {t} : tpc[u] = "owns" => ref'[tmsg[u]] = ref[tmsg[u]],
             UNCHANGED seqno
      PROVE  Owned'
  BY <1>3, <1>4 DEF Owned, Alone, Unnumbered
<1>5. ASSUME UNCHANGED <<threadVars, seqno>>,
             \A u \in Threads : tpc[u] = "owns" => ref'[tmsg[u]] = ref[tmsg[u]]
      PROVE  Owned'
  BY <1>5 DEF Owned, Alone, Unnumbered, threadVars
<1>6. ASSUME NEW x \in Msgs, Acquire(x) \/ Release(x)
      PROVE  \A m \in Msgs \ {x} : ref'[m] = ref[m]
  BY <1>1, <1>6 DEF Acquire, Release, MsgTypes
<1>7. CASE BrokerStep
  <2>1. UNCHANGED <<threadVars, seqno>>
    BY <1>7 DEF BrokerStep, BrokerGet, BrokerLock, BrokerVisit, BrokerCalled, BrokerPut,
                BrokerUnlock, BrokerRelease, BrokerSubmit, history
  <2>2. UNCHANGED ref \/ (bmsg \in Msgs /\ (Acquire(bmsg) \/ Release(bmsg)))
    BY <1>1, <1>7 DEF BrokerStep, BrokerGet, BrokerLock, BrokerVisit, BrokerCalled, BrokerPut,
                BrokerUnlock, BrokerRelease, BrokerSubmit, msgVars, BrokerTypes
  <2>3. \A u \in Threads : tpc[u] = "owns" => ref'[tmsg[u]] = ref[tmsg[u]]
    BY <1>2, <1>6, <2>2
  <2> QED
    BY <1>5, <2>1, <2>3
<1>8. ASSUME NEW t \in Threads, ThreadStart(t)
      PROVE  Owned'
  <2>1. ASSUME NEW m \in Msgs, NEW i \in MsgIds, NewMsg(t, m, i)
        PROVE  Owned'
    <3>1. /\ m \in free /\ ref' = [ref EXCEPT ![m] = 1] /\ seqno' = [seqno EXCEPT ![m] = 0]
          /\ Goto(t, "owns", m, None, None)
      BY <2>1 DEF NewMsg
    <3>2. \A u \in Threads : tmsg[u] # m
      BY <3>1, FreeUnheld
    <3>3. \A u \in Threads : tpc[u] \in {"owns", "direct", "directput"} => tmsg[u] \in Msgs
      BY <1>1 DEF ThreadTypes, Fits
    <3>4. ASSUME NEW u \in Threads
          PROVE  Alone(u)' /\ Unnumbered(u)'
      <4>1. CASE u = t
        <5>1. tmsg'[u] = m /\ ref'[m] = 1 /\ seqno'[m] = 0
          BY <1>1, <1>3, <3>1, <4>1 DEF MsgTypes, HistoryTypes
        <5> QED
          BY <5>1 DEF Alone, Unnumbered
      <4>2. CASE u # t
        <5>1. tpc'[u] = tpc[u] /\ tmsg'[u] = tmsg[u]
          BY <1>3, <3>1, <4>2
        <5> QED
          BY <1>1, <3>1, <3>2, <3>3, <5>1 DEF Alone, Unnumbered, Owned, MsgTypes, HistoryTypes
      <4> QED
        BY <4>1, <4>2
    <3> QED
      BY <3>4 DEF Owned
  <2>2. ASSUME NEW s \in Subs, StartRemove(t, s) \/ StartAdd(t, s)
        PROVE  Owned'
    BY <1>4, <2>2 DEF StartRemove, StartAdd, msgVars, history
  <2>3. ASSUME NEW s \in Subs, NEW i \in MsgIds, Subscribe(t, s, i) \/ Unsubscribe(t, s, i)
        PROVE  Owned'
    BY <1>5, <2>3 DEF Subscribe, Unsubscribe, msgVars, history
  <2> QED
    BY <1>8, <2>1, <2>2, <2>3 DEF ThreadStart
<1>9. ASSUME NEW t \in Threads, ThreadStep(t)
      PROVE  Owned'
  <2>1. CASE Publish(t)
    <3>1. /\ tpc[t] = "owns" /\ Goto(t, "idle", None, None, None) /\ UNCHANGED ref
          /\ seqno' = [seqno EXCEPT ![tmsg[t]] = Len(pubs) + 1]
      BY <2>1 DEF Publish, Return, msgVars
    <3>2. \A u \in Threads : tpc[u] \in {"owns", "direct", "directput"} => tmsg[u] \in Msgs
      BY <1>1 DEF ThreadTypes, Fits
    <3>3. ASSUME NEW u \in Threads
          PROVE  Alone(u)' /\ Unnumbered(u)'
      <4>1. CASE u = t
        <5>1. tpc'[u] = "idle"
          BY <1>3, <3>1, <4>1
        <5> QED
          BY <5>1 DEF Alone, Unnumbered
      <4>2. CASE u # t
        <5>1. tpc'[u] = tpc[u] /\ tmsg'[u] = tmsg[u] /\ tmsg[u] # tmsg[t]
          BY <1>2, <1>3, <3>1, <4>2
        <5>2. \A m \in Msgs \ {tmsg[t]} : seqno'[m] = seqno[m]
          BY <1>1, <3>1 DEF HistoryTypes
        <5> QED
          BY <3>1, <3>2, <5>1, <5>2 DEF Alone, Unnumbered, Owned
      <4> QED
        BY <4>1, <4>2
    <3> QED
      BY <3>3 DEF Owned
  <2>2. CASE Discard(t) \/ HandlerReturns(t) \/ Search(t)
    <3>1. tmsg[t] \in Msgs
      BY <1>1, <2>2 DEF Discard, HandlerReturns, Search, ThreadTypes, Fits
    <3>2. UNCHANGED ref \/ Acquire(tmsg[t]) \/ Release(tmsg[t])
      BY <2>2 DEF Discard, HandlerReturns, Search
    <3>3. \A u \in Threads \ {t} : tpc[u] = "owns" => ref'[tmsg[u]] = ref[tmsg[u]]
      BY <1>2, <1>6, <3>1, <3>2
    <3> QED
      BY <1>4, <2>2, <3>3 DEF Discard, HandlerReturns, Search, Return, history
  <2>3. CASE DirectPut(t) \/ ReadBroker(t) \/ ForwardLock(t) \/ ForwardPut(t)
    BY <1>4, <2>3 DEF DirectPut, ReadBroker, ForwardLock, ForwardPut, Return, msgVars, history
  <2>4. CASE RemoveBroker(t) \/ ClearBroker(t) \/ AddSubscriber(t)
    BY <1>4, <2>4 DEF RemoveBroker, ClearBroker, AddSubscriber, Return, msgVars, history
  <2>5. ASSUME NEW s \in Subs, Get(t, s)
        PROVE  Owned'
    BY <1>4, <2>5 DEF Get, msgVars, history
  <2>6. ASSUME NEW s \in Subs, PublishTo(t, s)
        PROVE  Owned'
    <3>1. tpc[t] = "owns" /\ UNCHANGED <<ref, seqno>>
      BY <2>6 DEF PublishTo, msgVars, history
    <3>2. CASE Return(t)
      BY <1>4, <3>1, <3>2 DEF Return
    <3>3. ASSUME Goto(t, "direct", tmsg[t], s, None) \/ Goto(t, "directput", tmsg[t], s, None)
          PROVE  Owned'
      BY <1>3, <3>1, <3>3 DEF Owned, Alone, Unnumbered
    <3> QED
      BY <2>6, <3>2, <3>3 DEF PublishTo
  <2> QED
    BY <1>9, <2>1, <2>2, <2>3, <2>4, <2>5, <2>6 DEF ThreadStep
<1>10. ASSUME NEW s \in Subs, NEW m \in Msgs, Retain(s, m) \/ ReleaseRetained(s, m)
       PROVE  Owned'
  <2>1. UNCHANGED <<threadVars, seqno>> /\ (Acquire(m) \/ Release(m))
    BY <1>10 DEF Retain, ReleaseRetained, history
  <2>2. \/ m \in retained[s] \/ m = bmsg
        \/ \E u \in Threads : tmsg[u] = m /\ tpc[u] # "owns"
    BY <1>10 DEF Retain, ReleaseRetained, Running, Serving
  <2>3. \A u \in Threads : tpc[u] = "owns" => tmsg[u] \in Msgs \ {m}
    BY <1>2, <2>2
  <2> QED
    BY <1>5, <1>6, <2>1, <2>3
<1> QED
  BY <1>5, <1>7, <1>8, <1>9, <1>10 DEF Next, Quiescent, vars, msgVars, history

(* Between pub_sub_new_msg and the call that publishes it a message is its *)
(* owner's alone: it may still be filled in, and nobody sees a message     *)
(* before it is complete.                                                  *)
THEOREM OwnerHasItAlone == Spec => []Owned
<1>1. Init => Owned
  BY DEF Init, Owned, Alone, Unnumbered
<1> QED
  BY <1>1, NextOwned, TypeCorrect, CountsHold, PTL DEF Spec
-----------------------------------------------------------------------------
(* What one step may do to each part of the state.                         *)

SameAt(t) ==
    /\ tpc'[t] = tpc[t] /\ tmsg'[t] = tmsg[t]
    /\ tsub'[t] = tsub[t] /\ tnext'[t] = tnext[t]

(* Goto changes one thread.                                                *)
LEMMA GotoAt ==
    ASSUME ThreadTypes, NEW t \in Threads, NEW pc, NEW m, NEW s, NEW next, Goto(t, pc, m, s, next)
    PROVE  /\ tpc'[t] = pc /\ tmsg'[t] = m /\ tsub'[t] = s /\ tnext'[t] = next
           /\ \A u \in Threads \ {t} : SameAt(u)
BY DEF Goto, ThreadTypes, SameAt

(* A thread goes on by a step of its own only.                             *)
LEMMA ThreadFrame ==
    ASSUME TypeOK, [Next]_vars, NEW t \in Threads
    PROVE  SameAt(t) \/ ThreadStep(t) \/ ThreadStart(t)
<1>1. ThreadTypes
  BY DEF TypeOK
<1>2. ASSUME NEW u \in Threads, NEW pc, NEW m, NEW s, NEW next, Goto(u, pc, m, s, next), u # t
      PROVE  SameAt(t)
  BY <1>1, <1>2, GotoAt
<1>3. ASSUME NEW u \in Threads, ThreadStep(u), u # t
      PROVE  SameAt(t)
  <2>1. CASE Publish(u) \/ Discard(u) \/ DirectPut(u) \/ HandlerReturns(u) \/ ClearBroker(u)
             \/ AddSubscriber(u)
    BY <1>2, <1>3, <2>1 DEF Publish, Discard, DirectPut, HandlerReturns, ClearBroker,
                            AddSubscriber, Return
  <2>2. CASE ReadBroker(u) \/ ForwardLock(u) \/ ForwardPut(u) \/ RemoveBroker(u)
    BY <1>2, <1>3, <2>2 DEF ReadBroker, ForwardLock, ForwardPut, RemoveBroker
  <2>3. CASE Search(u)
    BY <1>2, <1>3, <2>3 DEF Search
  <2>4. ASSUME NEW s \in Subs, PublishTo(u, s) \/ Get(u, s)
        PROVE  SameAt(t)
    BY <1>2, <1>3, <2>4 DEF PublishTo, Get, Return
  <2> QED
    BY <1>3, <2>1, <2>2, <2>3, <2>4 DEF ThreadStep
<1>4. ASSUME NEW u \in Threads, ThreadStart(u), u # t
      PROVE  SameAt(t)
  <2>1. ASSUME NEW m \in Msgs, NEW i \in MsgIds, NewMsg(u, m, i)
        PROVE  SameAt(t)
    BY <1>2, <1>4, <2>1 DEF NewMsg
  <2>2. ASSUME NEW s \in Subs, StartRemove(u, s) \/ StartAdd(u, s)
        PROVE  SameAt(t)
    BY <1>2, <1>4, <2>2 DEF StartRemove, StartAdd
  <2>3. ASSUME NEW s \in Subs, NEW i \in MsgIds, Subscribe(u, s, i) \/ Unsubscribe(u, s, i)
        PROVE  SameAt(t)
    BY <2>3 DEF Subscribe, Unsubscribe, threadVars, SameAt
  <2> QED
    BY <1>4, <2>1, <2>2, <2>3 DEF ThreadStart
<1>5. ASSUME UNCHANGED threadVars
      PROVE  SameAt(t)
  BY <1>5 DEF threadVars, SameAt
<1>6. CASE BrokerStep
  BY <1>5, <1>6 DEF BrokerStep, BrokerGet, BrokerLock, BrokerVisit, BrokerCalled, BrokerPut,
                    BrokerUnlock, BrokerRelease, BrokerSubmit
<1>7. CASE Quiescent \/ UNCHANGED vars \/ \E s \in Subs, m \in Msgs : Retain(s, m) \/ ReleaseRetained(s, m)
  BY <1>5, <1>7 DEF Quiescent, vars, Retain, ReleaseRetained
<1> QED
  BY <1>3, <1>4, <1>6, <1>7 DEF Next

(* How a thread goes on that serves a subscriber.                          *)
ServeSteps == ForwardSteps \cup {"handle"}

(* A thread that has a message of its subscriber's can only forward it or  *)
(* return from the handler.                                                *)
LEMMA ServingFrame ==
    ASSUME TypeOK, [Next]_vars, NEW t \in Threads, tpc[t] \in ServeSteps
    PROVE  SameAt(t) \/ ReadBroker(t) \/ ForwardLock(t) \/ Search(t) \/ ForwardPut(t)
           \/ HandlerReturns(t)
<1>1. tpc[t] \notin {"idle", "owns", "directput", "remove", "clear", "add"}
  BY DEF ServeSteps, ForwardSteps, PutSteps
<1>2. ~ThreadStart(t)
  BY <1>1 DEF ThreadStart, NewMsg, StartRemove, StartAdd, Subscribe, Unsubscribe
<1> QED
  BY <1>1, <1>2, ThreadFrame DEF ThreadStep, Publish, Discard, DirectPut, RemoveBroker, ClearBroker,
         AddSubscriber, PublishTo, Get

(* What is put into a queue goes behind the rest, by whom it may be put,   *)
(* and its server gets what is in front.                                   *)
PutBy(s, m) ==
    \/ BrokerPut /\ bsub = s /\ bmsg = m
    \/ \E t \in Threads :
          /\ tmsg[t] = m
          /\ \/ ForwardPut(t) /\ tnext[t] = s
             \/ DirectPut(t) \/ PublishTo(t, s)

(* A queue changes by one message put at its end or by its server taking   *)
(* the first.                                                              *)
LEMMA QueueFrame ==
    ASSUME TypeOK, [Next]_vars, NEW s \in Subs
    PROVE  \/ queue'[s] = queue[s]
           \/ \E m \in Msgs : queue'[s] = Append(queue[s], m) /\ PutBy(s, m)
           \/ \E t \in Threads : Get(t, s)
<1>1. ThreadTypes /\ BrokerTypes /\ queue \in [Subs -> Seq(Msgs)]
  BY DEF TypeOK, QueueTypes
<1>2. ASSUME NEW u \in Subs, NEW m \in Msgs, Put(u, m), PutBy(u, m)
      PROVE  \/ queue'[s] = queue[s]
             \/ queue'[s] = Append(queue[s], m) /\ PutBy(s, m)
  <2>1. CASE u = s
    BY <1>1, <1>2, <2>1 DEF Put
  <2>2. CASE u # s
    BY <1>1, <1>2, <2>2 DEF Put
  <2> QED
    BY <2>1, <2>2
<1>3. ASSUME UNCHANGED queue
      PROVE  queue'[s] = queue[s]
  BY <1>3
<1>4. ASSUME BrokerStep
      PROVE  UNCHANGED queue \/ \E u \in Subs, m \in Msgs : Put(u, m) /\ PutBy(u, m)
  <2>1. CASE BrokerPut
    <3>1. bsub \in Subs /\ bmsg \in Msgs /\ Put(bsub, bmsg) /\ PutBy(bsub, bmsg)
      BY <1>1, <2>1 DEF BrokerPut, BrokerTypes, PutBy
    <3> QED
      BY <3>1
  <2> QED
    BY <1>4, <2>1 DEF BrokerStep, BrokerGet, BrokerLock, BrokerVisit, BrokerCalled, BrokerUnlock,
                      BrokerRelease, BrokerSubmit
<1>5. ASSUME NEW t \in Threads, ThreadStep(t)
      PROVE  \/ UNCHANGED queue \/ \E u \in Subs, m \in Msgs : Put(u, m) /\ PutBy(u, m)
             \/ \E u \in Subs : Get(t, u)
  <2>1. CASE DirectPut(t)
    <3>1. tsub[t] \in Subs /\ tmsg[t] \in Msgs /\ Put(tsub[t], tmsg[t]) /\ PutBy(tsub[t], tmsg[t])
      BY <1>1, <2>1 DEF DirectPut, ThreadTypes, Fits, PutBy
    <3> QED
      BY <3>1
  <2>2. CASE ForwardPut(t)
    <3>1. tnext[t] \in Subs /\ tmsg[t] \in Msgs /\ Put(tnext[t], tmsg[t]) /\ PutBy(tnext[t], tmsg[t])
      BY <1>1, <2>2 DEF ForwardPut, ThreadTypes, Fits, PutBy
    <3> QED
      BY <3>1
  <2>3. ASSUME NEW u \in Subs, PublishTo(t, u)
        PROVE  UNCHANGED queue \/ \E v \in Subs, m \in Msgs : Put(v, m) /\ PutBy(v, m)
    <3>1. tmsg[t] \in Msgs /\ PutBy(u, tmsg[t])
      BY <1>1, <2>3 DEF PublishTo, ThreadTypes, Fits, PutBy
    <3>2. UNCHANGED queue \/ Put(u, tmsg[t])
      BY <2>3 DEF PublishTo
    <3> QED
      BY <3>1, <3>2
  <2> QED
    BY <1>5, <2>1, <2>2, <2>3 DEF ThreadStep, Publish, Discard, HandlerReturns, ReadBroker,
           ForwardLock, Search, RemoveBroker, ClearBroker, AddSubscriber
<1>6. ASSUME NEW t \in Threads, NEW u \in Subs, Get(t, u), u # s
      PROVE  queue'[s] = queue[s]
  BY <1>1, <1>6 DEF Get
<1>7. ASSUME NEW t \in Threads, ThreadStart(t)
      PROVE  UNCHANGED queue
  BY <1>7 DEF ThreadStart, NewMsg, StartRemove, StartAdd, Subscribe, Unsubscribe
<1> QED
  BY <1>2, <1>3, <1>4, <1>5, <1>6, <1>7 DEF Next, Retain, ReleaseRetained, Quiescent, vars

(* The broker's fifo: publishing threads put, the work item gets.          *)
LEMMA PubFifoFrame ==
    ASSUME [Next]_vars
    PROVE  \/ pubFifo' = pubFifo
           \/ \E t \in Threads : Publish(t) /\ pubFifo' = Append(pubFifo, tmsg[t])
           \/ BrokerGet /\ pubFifo # <<>>
<1>1. ASSUME BrokerStep
      PROVE  pubFifo' = pubFifo \/ (BrokerGet /\ pubFifo # <<>>)
  BY <1>1 DEF BrokerStep, BrokerGet, BrokerLock, BrokerVisit, BrokerCalled, BrokerPut,
              BrokerUnlock, BrokerRelease, BrokerSubmit
<1>2. ASSUME NEW t \in Threads, ThreadStep(t)
      PROVE  pubFifo' = pubFifo \/ (Publish(t) /\ pubFifo' = Append(pubFifo, tmsg[t]))
  <2>1. CASE Publish(t)
    BY <2>1 DEF Publish, PubFifoPut
  <2> QED
    BY <1>2, <2>1 DEF ThreadStep, Discard, DirectPut, HandlerReturns, ReadBroker, ForwardLock,
           Search, ForwardPut, RemoveBroker, ClearBroker, AddSubscriber, PublishTo, Get
<1>3. ASSUME NEW t \in Threads, ThreadStart(t)
      PROVE  pubFifo' = pubFifo
  BY <1>3 DEF ThreadStart, NewMsg, StartRemove, StartAdd, Subscribe, Unsubscribe
<1> QED
  BY <1>1, <1>2, <1>3 DEF Next, Retain, ReleaseRetained, Quiescent, vars

(* What is handled is noted, by the broker or by a thread.                 *)
LEMMA LogFrame ==
    ASSUME TypeOK, [Next]_vars, NEW s \in Subs
    PROVE  \/ log'[s] = log[s]
           \/ /\ log'[s] = Append(log[s], seqno[bmsg])
              /\ bsub = s /\ BrokerCalled
           \/ \E t \in Threads :
                 /\ log'[s] = Append(log[s], seqno[tmsg[t]])
                 /\ tsub[t] = s /\ seqno[tmsg[t]] > 0 /\ HandlerReturns(t)
<1>1. log \in [Subs -> Seq(Nat)]
  BY DEF TypeOK, HistoryTypes
<1>2. ASSUME NEW u, NEW m, Handled(u, m)
      PROVE  log'[s] = log[s] \/ (u = s /\ log'[s] = Append(log[s], seqno[m]))
  BY <1>1, <1>2 DEF Handled
<1>3. CASE BrokerCalled
  BY <1>2, <1>3 DEF BrokerCalled
<1>4. ASSUME NEW t \in Threads, HandlerReturns(t)
      PROVE  \/ log'[s] = log[s]
             \/ log'[s] = Append(log[s], seqno[tmsg[t]]) /\ tsub[t] = s /\ seqno[tmsg[t]] > 0
  BY <1>2, <1>4 DEF HandlerReturns
<1>5. ASSUME BrokerStep
      PROVE  BrokerCalled \/ log' = log
  BY <1>5 DEF BrokerStep, BrokerGet, BrokerLock, BrokerVisit, BrokerPut,
              BrokerUnlock, BrokerRelease, BrokerSubmit, history
<1>6. ASSUME NEW t \in Threads, ThreadStep(t)
      PROVE  HandlerReturns(t) \/ log' = log
  BY <1>6 DEF ThreadStep, Publish, Discard, DirectPut, ReadBroker, ForwardLock,
           Search, ForwardPut, RemoveBroker, ClearBroker, AddSubscriber, PublishTo, Get, history
<1>7. ASSUME NEW t \in Threads, ThreadStart(t)
      PROVE  log' = log
  BY <1>7 DEF ThreadStart, NewMsg, StartRemove, StartAdd, Subscribe, Unsubscribe, history
<1> QED
  BY <1>3, <1>4, <1>5, <1>6, <1>7 DEF Next, Retain, ReleaseRetained, Quiescent, vars, history

(* The broker goes on by steps of its own, but for a publication, which    *)
(* may set it going.                                                       *)
LEMMA BrokerFrame ==
    ASSUME [Next]_vars
    PROVE  \/ UNCHANGED brokerVars
           \/ bpc = "armed" /\ bpc' = "get" /\ UNCHANGED <<bmsg, bsub, bnext>>
           \/ BrokerStep
<1>1. ASSUME NEW t \in Threads, ThreadStep(t)
      PROVE  \/ UNCHANGED brokerVars
             \/ bpc = "armed" /\ bpc' = "get" /\ UNCHANGED <<bmsg, bsub, bnext>>
  <2>1. CASE Publish(t)
    BY <2>1 DEF Publish, brokerVars
  <2> QED
    BY <1>1, <2>1 DEF ThreadStep, Discard, DirectPut, HandlerReturns, ReadBroker, ForwardLock,
           Search, ForwardPut, RemoveBroker, ClearBroker, AddSubscriber, PublishTo, Get
<1>2. ASSUME NEW t \in Threads, ThreadStart(t)
      PROVE  UNCHANGED brokerVars
  BY <1>2 DEF ThreadStart, NewMsg, StartRemove, StartAdd, Subscribe, Unsubscribe
<1> QED
  BY <1>1, <1>2 DEF Next, Retain, ReleaseRetained, Quiescent, vars, brokerVars

(* The configuration is changed by managers, and by them only that of the  *)
(* managed; the list only while nobody is in it.                           *)
LEMMA ConfigFrame ==
    ASSUME TypeOK, Roles, [Next]_vars
    PROVE  /\ \/ list' = list
              \/ /\ MutexFree
                 /\ \E s \in Managed :
                       list' = Removed(list, s) \/ list' = Inserted(list, Priority, s)
           /\ \A s \in Subs \ Managed :
                 subscribed'[s] = subscribed[s] /\ hasBroker'[s] = hasBroker[s]
<1>1. /\ subscribed \in [Subs -> SUBSET MsgIds] /\ hasBroker \in [Subs -> BOOLEAN]
      /\ ThreadTypes
  BY DEF TypeOK, ListTypes
<1>2. CASE UNCHANGED configVars
  BY <1>2 DEF configVars
<1>3. ASSUME NEW t \in Threads, tpc[t] \in ConfigSteps
      PROVE  tsub[t] \in Managed
  BY <1>3 DEF Roles, Role
<1>4. ASSUME NEW t \in Threads, RemoveBroker(t) \/ AddSubscriber(t) \/ ClearBroker(t)
      PROVE  tsub[t] \in Managed
  BY <1>3, <1>4 DEF RemoveBroker, AddSubscriber, ClearBroker, ConfigSteps
<1>5. ASSUME NEW t \in Threads, RemoveBroker(t) \/ AddSubscriber(t)
      PROVE  /\ MutexFree /\ UNCHANGED <<subscribed, hasBroker>>
             /\ \E s \in Managed : list' = Removed(list, s) \/ list' = Inserted(list, Priority, s)
  <2>1. tsub[t] \in Managed
    BY <1>4, <1>5
  <2> QED
    BY <1>5, <2>1 DEF RemoveBroker, AddSubscriber
<1>6. ASSUME NEW t \in Threads, ClearBroker(t)
      PROVE  /\ UNCHANGED <<list, subscribed>>
             /\ \A s \in Subs \ Managed : hasBroker'[s] = hasBroker[s]
  BY <1>1, <1>4, <1>6 DEF ClearBroker
<1>7. ASSUME NEW t \in Threads, ThreadStart(t)
      PROVE  list' = list /\ \A s \in Subs \ Managed :
                 subscribed'[s] = subscribed[s] /\ hasBroker'[s] = hasBroker[s]
  BY <1>1, <1>7 DEF ThreadStart, NewMsg, StartRemove, StartAdd, Subscribe, Unsubscribe, configVars
<1>8. ASSUME NEW t \in Threads, ThreadStep(t)
      PROVE  RemoveBroker(t) \/ AddSubscriber(t) \/ ClearBroker(t) \/ UNCHANGED configVars
  BY <1>8 DEF ThreadStep, Publish, Discard, DirectPut, HandlerReturns, ReadBroker, ForwardLock,
           Search, ForwardPut, PublishTo, Get
<1>9. CASE BrokerStep
  BY <1>2, <1>9 DEF BrokerStep, BrokerGet, BrokerLock, BrokerVisit, BrokerCalled, BrokerPut,
              BrokerUnlock, BrokerRelease, BrokerSubmit
<1>10. ASSUME NEW t \in Threads, ThreadStep(t)
       PROVE  /\ \/ list' = list
                 \/ /\ MutexFree
                    /\ \E s \in Managed :
                          list' = Removed(list, s) \/ list' = Inserted(list, Priority, s)
              /\ \A s \in Subs \ Managed :
                    subscribed'[s] = subscribed[s] /\ hasBroker'[s] = hasBroker[s]
  BY <1>2, <1>5, <1>6, <1>8, <1>10
<1> QED
  BY <1>2, <1>7, <1>9, <1>10 DEF Next, Retain, ReleaseRetained, Quiescent, vars

(* A message keeps its id and its number as long as it is in use, but for  *)
(* the number that publishing gives it.                                    *)
LEMMA MessageFrame ==
    ASSUME TypeOK, [Next]_vars, NEW m \in Msgs
    PROVE  /\ m \notin free => /\ id'[m] = id[m]
                               /\ \/ seqno'[m] = seqno[m]
                                  \/ \E t \in Threads : tmsg[t] = m /\ Publish(t)
           /\ m \in free => m \in free' \/ seqno'[m] = 0
<1>1. /\ id \in [Msgs -> MsgIds] /\ seqno \in [Msgs -> Nat] /\ free \subseteq Msgs
  BY DEF TypeOK, MsgTypes, HistoryTypes
<1> DEFINE Same == UNCHANGED <<id, seqno>> /\ free \subseteq free'
<1>2. ASSUME NEW x, Release(x) \/ Acquire(x)
      PROVE  free \subseteq free'
  BY <1>2 DEF Release, Acquire
<1>3. ASSUME BrokerStep
      PROVE  Same
  <2>1. UNCHANGED <<id, seqno>>
    BY <1>3 DEF BrokerStep, BrokerGet, BrokerLock, BrokerVisit, BrokerCalled, BrokerPut,
                BrokerUnlock, BrokerRelease, BrokerSubmit, msgVars, history
  <2>2. free \subseteq free'
    BY <1>2, <1>3 DEF BrokerStep, BrokerGet, BrokerLock, BrokerVisit, BrokerCalled, BrokerPut,
                BrokerUnlock, BrokerRelease, BrokerSubmit, msgVars
  <2> QED
    BY <2>1, <2>2
<1>4. ASSUME NEW t \in Threads, Publish(t)
      PROVE  free' = free /\ id' = id /\ (tmsg[t] = m \/ seqno'[m] = seqno[m])
  BY <1>1, <1>4 DEF Publish, msgVars
<1>5. ASSUME NEW t \in Threads, ThreadStep(t), ~Publish(t)
      PROVE  Same
  <2>1. UNCHANGED <<id, seqno>>
    BY <1>5 DEF ThreadStep, Discard, DirectPut, HandlerReturns, ReadBroker, ForwardLock, Search,
           ForwardPut, RemoveBroker, ClearBroker, AddSubscriber, PublishTo, Get, msgVars, history
  <2>2. free \subseteq free'
    BY <1>2, <1>5 DEF ThreadStep, Discard, DirectPut, HandlerReturns, ReadBroker, ForwardLock,
           Search, ForwardPut, RemoveBroker, ClearBroker, AddSubscriber, PublishTo, Get, msgVars
  <2> QED
    BY <2>1, <2>2
<1>6. ASSUME NEW t \in Threads, NEW x \in Msgs, NEW i \in MsgIds, NewMsg(t, x, i)
      PROVE  /\ m \notin free => seqno'[m] = seqno[m] /\ id'[m] = id[m]
             /\ m \in free => m \in free' \/ seqno'[m] = 0
  BY <1>1, <1>6 DEF NewMsg
<1>7. ASSUME NEW t \in Threads, NEW s \in Subs, StartRemove(t, s) \/ StartAdd(t, s)
      PROVE  Same
  BY <1>7 DEF StartRemove, StartAdd, msgVars, history
<1>8. ASSUME NEW t \in Threads, NEW s \in Subs, NEW i \in MsgIds,
             Subscribe(t, s, i) \/ Unsubscribe(t, s, i)
      PROVE  Same
  BY <1>8 DEF Subscribe, Unsubscribe, msgVars, history
<1>9. ASSUME NEW s \in Subs, NEW x \in Msgs, Retain(s, x) \/ ReleaseRetained(s, x)
      PROVE  Same
  BY <1>2, <1>9 DEF Retain, ReleaseRetained, history
<1>10. CASE UNCHANGED vars
  BY <1>10 DEF vars, msgVars, history
<1> HIDE DEF Same
<1>11. ASSUME Same
       PROVE  /\ m \notin free => seqno'[m] = seqno[m] /\ id'[m] = id[m]
              /\ m \in free => m \in free'
  BY <1>11 DEF Same
<1>12. ASSUME NEW t \in Threads, ThreadStart(t)
       PROVE  /\ m \notin free => seqno'[m] = seqno[m] /\ id'[m] = id[m]
              /\ m \in free => m \in free' \/ seqno'[m] = 0
  <2>1. Same \/ \E x \in Msgs, i \in MsgIds : NewMsg(t, x, i)
    BY <1>7, <1>8, <1>12 DEF ThreadStart
  <2> QED
    BY <1>6, <1>11, <2>1
<1>13. ASSUME NEW t \in Threads, ThreadStep(t)
       PROVE  Same \/ (Publish(t) /\ free' = free /\ id' = id
                       /\ (tmsg[t] = m \/ seqno'[m] = seqno[m]))
  BY <1>4, <1>5, <1>13
<1> QED
  BY <1>3, <1>9, <1>10, <1>11, <1>12, <1>13 DEF Next, Quiescent

(* The publications are recorded once and for all.                         *)
LEMMA PubsFrame ==
    ASSUME [Next]_vars
    PROVE  \/ pubs' = pubs
           \/ \E t \in Threads : Publish(t) /\ pubs' = Append(pubs, id[tmsg[t]])
<1>1. CASE BrokerStep
  BY <1>1 DEF BrokerStep, BrokerGet, BrokerLock, BrokerVisit, BrokerCalled, BrokerPut,
              BrokerUnlock, BrokerRelease, BrokerSubmit, history
<1>2. ASSUME NEW t \in Threads, ThreadStep(t)
      PROVE  pubs' = pubs \/ (Publish(t) /\ pubs' = Append(pubs, id[tmsg[t]]))
  <2>1. CASE Publish(t)
    BY <2>1 DEF Publish
  <2> QED
    BY <1>2, <2>1 DEF ThreadStep, Discard, DirectPut, HandlerReturns, ReadBroker, ForwardLock,
           Search, ForwardPut, RemoveBroker, ClearBroker, AddSubscriber, PublishTo, Get, history
<1>3. ASSUME NEW t \in Threads, ThreadStart(t)
      PROVE  pubs' = pubs
  BY <1>3 DEF ThreadStart, NewMsg, StartRemove, StartAdd, Subscribe, Unsubscribe, history
<1> QED
  BY <1>1, <1>2, <1>3 DEF Next, Retain, ReleaseRetained, Quiescent, vars, history

(* Only the last holder frees.                                             *)
LEMMA FreedFrame ==
    ASSUME TypeOK, AllCounted, [Next]_vars, NEW m \in free' \ free
    PROVE  /\ m \in Msgs /\ ref[m] = 1
           /\ \/ BrokerRelease /\ bmsg = m
              \/ \E t \in Threads : tmsg[t] = m /\ (HandlerReturns(t) \/ Discard(t))
              \/ \E s \in Subs : m \in retained[s] /\ ReleaseRetained(s, m)
<1>1. ThreadTypes /\ BrokerTypes /\ MsgTypes
  BY DEF TypeOK
<1>2. ASSUME NEW x \in Msgs, Release(x)
      PROVE  m = x /\ ref[m] = 1
  BY <1>2 DEF Release
<1>3. ASSUME NEW x, Acquire(x)
      PROVE  FALSE
  BY <1>3 DEF Acquire
<1>4. CASE BrokerRelease
  <2>1. bmsg \in Msgs
    BY <1>1, <1>4 DEF BrokerRelease, BrokerTypes
  <2> QED
    BY <1>2, <1>4, <2>1 DEF BrokerRelease
<1>5. ASSUME NEW t \in Threads, HandlerReturns(t) \/ Discard(t)
      PROVE  m \in Msgs /\ ref[m] = 1 /\ tmsg[t] = m
  <2>1. tmsg[t] \in Msgs
    BY <1>1, <1>5 DEF HandlerReturns, Discard, ThreadTypes, Fits
  <2> QED
    BY <1>2, <1>5, <2>1 DEF HandlerReturns, Discard
<1>6. ASSUME NEW s \in Subs, NEW x \in Msgs, ReleaseRetained(s, x)
      PROVE  m \in Msgs /\ ref[m] = 1 /\ x = m /\ m \in retained[s]
  BY <1>2, <1>6 DEF ReleaseRetained
<1>7. CASE BrokerStep
  BY <1>3, <1>4, <1>7 DEF BrokerStep, BrokerGet, BrokerLock, BrokerVisit, BrokerCalled, BrokerPut,
                BrokerUnlock, BrokerSubmit, msgVars
<1>8. ASSUME NEW t \in Threads, ThreadStep(t)
      PROVE  HandlerReturns(t) \/ Discard(t)
  BY <1>3, <1>8 DEF ThreadStep, Publish, DirectPut, ReadBroker, ForwardLock, Search,
           ForwardPut, RemoveBroker, ClearBroker, AddSubscriber, PublishTo, Get, msgVars
<1>9. ASSUME NEW t \in Threads, ThreadStart(t)
      PROVE  FALSE
  BY <1>9 DEF ThreadStart, NewMsg, StartRemove, StartAdd, Subscribe, Unsubscribe, msgVars
<1>10. ASSUME NEW s \in Subs, NEW x \in Msgs, Retain(s, x)
       PROVE  FALSE
  BY <1>3, <1>10 DEF Retain
<1>11. CASE UNCHANGED vars
  BY <1>11 DEF vars, msgVars
<1>12. ASSUME NEW t \in Threads, ThreadStep(t)
       PROVE  m \in Msgs /\ ref[m] = 1 /\ tmsg[t] = m /\ (HandlerReturns(t) \/ Discard(t))
  BY <1>5, <1>8, <1>12
<1>13. ASSUME NEW s \in Subs, NEW x \in Msgs, ReleaseRetained(s, x)
       PROVE  m \in Msgs /\ ref[m] = 1 /\ m \in retained[s] /\ ReleaseRetained(s, m)
  BY <1>6, <1>13
<1> QED
  BY <1>7, <1>9, <1>10, <1>11, <1>12, <1>13 DEF Next, Quiescent

(* With a counter of 1 the broker, or a handler that keeps it, is alone    *)
(* with a message, as OwnerAlone says of a thread.                         *)
LEMMA LastHolder ==
    ASSUME TypeOK, AllCounted, NEW m \in Msgs, ref[m] = 1,
           bmsg = m \/ \E s \in Subs : m \in retained[s]
    PROVE  /\ \A i \in 1..Len(pubFifo) : pubFifo[i] # m
           /\ \A s \in Subs : \A i \in 1..Len(queue[s]) : queue[s][i] # m
           /\ \A t \in Threads : tmsg[t] # m
           /\ (\E s \in Subs : m \in retained[s]) => bmsg # m
<1>1. Counted(m) /\ Finite(m)
  BY DEF AllCounted, Counted
<1>2. /\ InFifo(m) \in Nat /\ InQueues(Subs, m) \in Nat /\ Kept(m) \in Nat
      /\ By(ThreadSteps, m) \in Nat /\ By(PutSteps, m) \in Nat /\ ByBroker(m) \in Nat
      /\ bmsg = m => ByBroker(m) # 0
      /\ bmsg # m => ByBroker(m) = 0
  BY <1>1, CountsNat DEF ByBroker
<1>3. InFifo(m) + InQueues(Subs, m) + Kept(m) + By(ThreadSteps, m) + By(PutSteps, m)
      + ByBroker(m) = 1
  BY <1>1, CountsNat DEF Counted
<1>4. (\E s \in Subs : m \in retained[s]) => Kept(m) # 0
  <2>1. (\E s \in Subs : m \in retained[s]) => Keepers(m) # {}
    BY DEF Keepers
  <2> QED
    BY <1>1, <2>1, FS_EmptySet DEF Finite, Kept
<1>5. /\ InFifo(m) = 0 /\ InQueues(Subs, m) = 0 /\ By(ThreadSteps, m) = 0
      /\ (\E s \in Subs : m \in retained[s]) => ByBroker(m) = 0
  BY <1>2, <1>3, <1>4
<1>6. InSeq(pubFifo, m) = {}
  BY <1>5, InSeqFinite, FS_EmptySet DEF InFifo, TypeOK, QueueTypes
<1>7. Entries(queue, Subs, m) = {} /\ AtHand(ThreadSteps, m) = {}
  BY <1>1, <1>5, FS_EmptySet DEF Finite, InQueues, By
<1>8. \A s \in Subs : \A i \in 1..Len(queue[s]) : queue[s][i] # m
  BY <1>7, NotQueued
<1>9. \A t \in Threads : tmsg[t] # m
  BY <1>7 DEF AtHand, TypeOK, ThreadTypes
<1> QED
  BY <1>2, <1>5, <1>6, <1>8, <1>9 DEF InSeq
=============================================================================
