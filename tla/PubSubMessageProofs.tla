------------------------- MODULE PubSubMessageProofs -------------------------
(***************************************************************************)
(* What the subscribers get in PubSub, for all constants: the broker's own *)
(* subscribers get messages in the order published, nobody misses a        *)
(* publication because of what is done to others, and a publication gets   *)
(* to its subscribers in the order of the list.                            *)
(***************************************************************************)
EXTENDS PubSubProofs

-----------------------------------------------------------------------------
(* The order in which the broker's own subscribers get publications.       *)

(* Every number of B that is not 0, which stands for no publication, is    *)
(* larger than those of A.                                                 *)
Below(A, B) == \A a \in A, b \in B : b = 0 \/ a < b

(* The publications that s has handled, is handling and finds in its queue.*)
Logged(s)   == {log[s][i] : i \in 1..Len(log[s])}
Handling(s) == {seqno[tmsg[t]] : t \in {u \in Threads : tpc[u] = "handle" /\ tsub[u] = s}}
Queued(s)   == {seqno[queue[s][i]] : i \in 1..Len(queue[s])}
Had(s)      == Logged(s) \cup Handling(s) \cup Queued(s)

Ordered(s) ==
    /\ \A i, j \in 1..Len(log[s]) : i < j => log[s][i] < log[s][j]
    /\ Below(Logged(s), Handling(s)) /\ Below(Logged(s), Queued(s))
    /\ Below(Handling(s), Queued(s))
    /\ \A i, j \in 1..Len(queue[s]) :
          i < j => seqno[queue[s][j]] = 0 \/ seqno[queue[s][i]] < seqno[queue[s][j]]

(* The broker has yet to come to s with the message it is at.              *)
Ahead(s) ==
    \/ bpc = "lock"
    \/ bpc \in {"visit", "call", "put"} /\ bsub # None /\ (s = bsub \/ Before(list, bsub, s))

(* The publications that s has are older than those that are still to come.*)
Upcoming(s) ==
    /\ \A n \in Had(s) : n \in 0..Len(pubs)
    /\ \A n \in Had(s), i \in 1..Len(pubFifo) : n < seqno[pubFifo[i]]
    /\ Ahead(s) => \A n \in Had(s) : n < seqno[bmsg]

PublishedInOrder ==
    /\ \A i \in 1..Len(pubFifo) : seqno[pubFifo[i]] \in 1..Len(pubs)
    /\ \A i, j \in 1..Len(pubFifo) : i < j => seqno[pubFifo[i]] < seqno[pubFifo[j]]
    /\ bmsg # None => /\ seqno[bmsg] \in 1..Len(pubs)
                      /\ \A i \in 1..Len(pubFifo) : seqno[bmsg] < seqno[pubFifo[i]]

(* Only a message that is free, or that its owner publishes, gets another  *)
(* number.                                                                 *)
LEMMA NumbersKept ==
    ASSUME TypeOK, AllCounted, Owned, [Next]_vars
    PROVE  /\ \A i \in 1..Len(pubFifo) : seqno'[pubFifo[i]] = seqno[pubFifo[i]]
           /\ \A s \in Subs : \A i \in 1..Len(queue[s]) :
                 seqno'[queue[s][i]] = seqno[queue[s][i]]
           /\ \A t \in Threads :
                 tmsg[t] # None /\ tpc[t] # "owns" => seqno'[tmsg[t]] = seqno[tmsg[t]]
           /\ bmsg # None => seqno'[bmsg] = seqno[bmsg]
<1>1. /\ seqno \in [Msgs -> Nat] /\ pubFifo \in Seq(Msgs) /\ queue \in [Subs -> Seq(Msgs)]
      /\ tmsg \in [Threads -> Msgs \cup {None}] /\ bmsg \in Msgs \cup {None}
      /\ \A t \in Threads : tpc[t] = "owns" => tmsg[t] \in Msgs
  BY DEF TypeOK, QueueTypes, BrokerTypes, ThreadTypes, HistoryTypes, Fits
<1>2. ASSUME NEW x \in Msgs, \A m \in Msgs \ {x} : seqno'[m] = seqno[m],
             \A i \in 1..Len(pubFifo) : pubFifo[i] # x,
             \A s \in Subs : \A i \in 1..Len(queue[s]) : queue[s][i] # x,
             \A t \in Threads : tpc[t] # "owns" => tmsg[t] # x, bmsg # x
      PROVE  /\ \A i \in 1..Len(pubFifo) : seqno'[pubFifo[i]] = seqno[pubFifo[i]]
             /\ \A s \in Subs : \A i \in 1..Len(queue[s]) :
                   seqno'[queue[s][i]] = seqno[queue[s][i]]
             /\ \A t \in Threads :
                   tmsg[t] # None /\ tpc[t] # "owns" => seqno'[tmsg[t]] = seqno[tmsg[t]]
             /\ bmsg # None => seqno'[bmsg] = seqno[bmsg]
  BY <1>1, <1>2
<1>3. CASE UNCHANGED seqno
  BY <1>3
<1>4. ASSUME NEW t \in Threads, NEW m \in Msgs, NEW i \in MsgIds, NewMsg(t, m, i)
      PROVE  /\ m \in free /\ \A x \in Msgs \ {m} : seqno'[x] = seqno[x]
  BY <1>1, <1>4 DEF NewMsg
<1>5. ASSUME NEW t \in Threads, Publish(t)
      PROVE  /\ tmsg[t] \in Msgs /\ tpc[t] = "owns" /\ ref[tmsg[t]] = 1
             /\ \A x \in Msgs \ {tmsg[t]} : seqno'[x] = seqno[x]
  BY <1>1, <1>5 DEF Publish, Owned, Alone
<1>6. \/ UNCHANGED seqno
      \/ \E t \in Threads : Publish(t)
      \/ \E t \in Threads : \E m \in Msgs, i \in MsgIds : NewMsg(t, m, i)
  <2>1. ASSUME NEW t \in Threads, ThreadStart(t)
        PROVE  UNCHANGED seqno \/ \E m \in Msgs, i \in MsgIds : NewMsg(t, m, i)
    BY <2>1 DEF ThreadStart, StartRemove, StartAdd, Subscribe, Unsubscribe, history
  <2>2. ASSUME NEW t \in Threads, ThreadStep(t)
        PROVE  UNCHANGED seqno \/ Publish(t)
    BY <2>2 DEF ThreadStep, Discard, DirectPut, ReadBroker, ForwardLock, Search, ForwardPut,
                HandlerReturns, RemoveBroker, ClearBroker, AddSubscriber, PublishTo, Get, history
  <2>3. CASE BrokerStep
    BY <2>3 DEF BrokerStep, BrokerGet, BrokerLock, BrokerVisit, BrokerCalled, BrokerPut,
                BrokerUnlock, BrokerRelease, BrokerSubmit, history
  <2> QED
    BY <2>1, <2>2, <2>3 DEF Next, Retain, ReleaseRetained, Quiescent, vars, history
<1>7. ASSUME NEW t \in Threads, Publish(t)
      PROVE  /\ \A i \in 1..Len(pubFifo) : seqno'[pubFifo[i]] = seqno[pubFifo[i]]
             /\ \A s \in Subs : \A i \in 1..Len(queue[s]) :
                   seqno'[queue[s][i]] = seqno[queue[s][i]]
             /\ \A u \in Threads :
                   tmsg[u] # None /\ tpc[u] # "owns" => seqno'[tmsg[u]] = seqno[tmsg[u]]
             /\ bmsg # None => seqno'[bmsg] = seqno[bmsg]
  <2>1. /\ tmsg[t] \in Msgs /\ tpc[t] = "owns" /\ ref[tmsg[t]] = 1
        /\ \A x \in Msgs \ {tmsg[t]} : seqno'[x] = seqno[x]
    BY <1>5, <1>7
  <2>2. /\ \A i \in 1..Len(pubFifo) : pubFifo[i] # tmsg[t]
        /\ \A s \in Subs : \A i \in 1..Len(queue[s]) : queue[s][i] # tmsg[t]
        /\ \A u \in Threads : tpc[u] # "owns" => tmsg[u] # tmsg[t]
        /\ bmsg # tmsg[t]
    BY <2>1, OwnerAlone
  <2> QED
    BY <1>2, <2>1, <2>2
<1>8. ASSUME NEW t \in Threads, NEW m \in Msgs, NEW j \in MsgIds, NewMsg(t, m, j)
      PROVE  /\ \A i \in 1..Len(pubFifo) : seqno'[pubFifo[i]] = seqno[pubFifo[i]]
             /\ \A s \in Subs : \A i \in 1..Len(queue[s]) :
                   seqno'[queue[s][i]] = seqno[queue[s][i]]
             /\ \A u \in Threads :
                   tmsg[u] # None /\ tpc[u] # "owns" => seqno'[tmsg[u]] = seqno[tmsg[u]]
             /\ bmsg # None => seqno'[bmsg] = seqno[bmsg]
  <2>1. m \in free /\ \A x \in Msgs \ {m} : seqno'[x] = seqno[x]
    BY <1>4, <1>8
  <2>2. /\ \A i \in 1..Len(pubFifo) : pubFifo[i] # m
        /\ \A s \in Subs : \A i \in 1..Len(queue[s]) : queue[s][i] # m
        /\ \A u \in Threads : tmsg[u] # m
        /\ bmsg # m
    BY <2>1, FreeUnheld
  <2> QED
    BY <1>2, <2>1, <2>2
<1> QED
  BY <1>3, <1>6, <1>7, <1>8

(* The broker's fifo stays ordered: Publish puts the largest number behind *)
(* the rest.                                                               *)
LEMMA NextPublished ==
    ASSUME TypeOK, AllCounted, Owned, PublishedInOrder, [Next]_vars
    PROVE  PublishedInOrder'
<1>1. /\ pubFifo \in Seq(Msgs) /\ Len(pubFifo) \in Nat /\ bmsg \in Msgs \cup {None}
      /\ pubs \in Seq(MsgIds) /\ Len(pubs) \in Nat /\ seqno \in [Msgs -> Nat]
  BY DEF TypeOK, QueueTypes, BrokerTypes, HistoryTypes
<1>2. /\ \A i \in 1..Len(pubFifo) : seqno'[pubFifo[i]] = seqno[pubFifo[i]]
      /\ bmsg # None => seqno'[bmsg] = seqno[bmsg]
  BY NumbersKept
<1>3. ASSUME UNCHANGED <<pubFifo, pubs>>, bmsg' \in {bmsg, None}
      PROVE  PublishedInOrder'
  BY <1>2, <1>3 DEF PublishedInOrder
<1>4. CASE BrokerStep
  <2>1. CASE BrokerGet
    <3>1. UNCHANGED <<pubs, seqno>>
      BY <2>1 DEF BrokerGet, history
    <3>2. CASE pubFifo = <<>>
      BY <1>3, <2>1, <3>1, <3>2 DEF BrokerGet
    <3>3. CASE pubFifo # <<>>
      <4>1. bmsg' = pubFifo[1] /\ pubFifo' = Tail(pubFifo) /\ Len(pubFifo) # 0
        BY <1>1, <2>1, <3>3, HeadTailProperties, EmptySeq DEF BrokerGet
      <4>2. /\ Len(pubFifo') = Len(pubFifo) - 1
            /\ \A i \in 1..Len(pubFifo') : pubFifo'[i] = pubFifo[i + 1]
        BY <1>1, <3>3, <4>1, HeadTailProperties
      <4>3. \A i \in 1..Len(pubFifo') : i + 1 \in 1..Len(pubFifo) /\ 1 \in 1..Len(pubFifo) /\ 1 < i + 1
        BY <1>1, <4>1, <4>2
      <4>4. \A i, j \in 1..Len(pubFifo') : i < j => i + 1 < j + 1
        BY <1>1, <4>2
      <4>5. 1 \in 1..Len(pubFifo)
        BY <1>1, <4>1
      <4>6. \A i \in 1..Len(pubFifo') : seqno[pubFifo'[i]] \in 1..Len(pubs)
        BY <4>2, <4>3 DEF PublishedInOrder
      <4>7. \A i, j \in 1..Len(pubFifo') : i < j => seqno[pubFifo'[i]] < seqno[pubFifo'[j]]
        BY <4>2, <4>3, <4>4 DEF PublishedInOrder
      <4>8. /\ seqno[bmsg'] \in 1..Len(pubs)
            /\ \A i \in 1..Len(pubFifo') : seqno[bmsg'] < seqno[pubFifo'[i]]
        BY <4>1, <4>2, <4>3, <4>5 DEF PublishedInOrder
      <4> QED
        BY <3>1, <4>6, <4>7, <4>8 DEF PublishedInOrder
    <3> QED
      BY <3>2, <3>3
  <2>2. CASE ~BrokerGet
    BY <1>3, <1>4, <2>2 DEF BrokerStep, BrokerLock, BrokerVisit, BrokerCalled, BrokerPut,
                            BrokerUnlock, BrokerRelease, BrokerSubmit, history
  <2> QED
    BY <2>1, <2>2
<1>5. ASSUME NEW t \in Threads, Publish(t)
      PROVE  PublishedInOrder'
  <2>1. /\ tmsg[t] \in Msgs /\ pubFifo' = Append(pubFifo, tmsg[t]) /\ bmsg' = bmsg
        /\ pubs' = Append(pubs, id[tmsg[t]]) /\ id[tmsg[t]] \in MsgIds
        /\ seqno' = [seqno EXCEPT ![tmsg[t]] = Len(pubs) + 1]
    BY <1>5 DEF Publish, PubFifoPut, TypeOK, ThreadTypes, MsgTypes, Fits
  <2>2. /\ Len(pubFifo') = Len(pubFifo) + 1 /\ pubFifo'[Len(pubFifo) + 1] = tmsg[t]
        /\ \A i \in 1..Len(pubFifo) : pubFifo'[i] = pubFifo[i]
    BY <1>1, <2>1, AppendProperties
  <2>3. Len(pubs') = Len(pubs) + 1 /\ seqno'[tmsg[t]] = Len(pubs) + 1
    BY <1>1, <2>1, AppendProperties
  <2>4. \A i \in 1..Len(pubFifo') :
           \/ i \in 1..Len(pubFifo) /\ seqno'[pubFifo'[i]] = seqno[pubFifo[i]]
           \/ i = Len(pubFifo) + 1 /\ seqno'[pubFifo'[i]] = Len(pubs) + 1
    BY <1>1, <1>2, <2>2, <2>3
  <2>5. \A i \in 1..Len(pubFifo') : seqno'[pubFifo'[i]] \in 1..Len(pubs')
    BY <1>1, <2>3, <2>4 DEF PublishedInOrder
  <2>6. ASSUME NEW i \in 1..Len(pubFifo'), NEW j \in 1..Len(pubFifo'), i < j
        PROVE  seqno'[pubFifo'[i]] < seqno'[pubFifo'[j]]
    <3>1. i \in 1..Len(pubFifo) /\ seqno'[pubFifo'[i]] = seqno[pubFifo[i]]
          /\ seqno[pubFifo[i]] \in 1..Len(pubs)
      BY <1>1, <2>2, <2>4, <2>6 DEF PublishedInOrder
    <3>2. CASE j \in 1..Len(pubFifo) /\ seqno'[pubFifo'[j]] = seqno[pubFifo[j]]
      BY <2>6, <3>1, <3>2 DEF PublishedInOrder
    <3>3. CASE j = Len(pubFifo) + 1 /\ seqno'[pubFifo'[j]] = Len(pubs) + 1
      BY <1>1, <3>1, <3>3
    <3> QED
      BY <2>4, <2>6, <3>2, <3>3
  <2>7. ASSUME bmsg # None
        PROVE  /\ seqno'[bmsg] \in 1..Len(pubs')
               /\ \A i \in 1..Len(pubFifo') : seqno'[bmsg] < seqno'[pubFifo'[i]]
    <3>1. seqno'[bmsg] = seqno[bmsg] /\ seqno[bmsg] \in 1..Len(pubs)
      BY <1>2, <2>7 DEF PublishedInOrder
    <3> QED
      BY <1>1, <2>3, <2>4, <2>7, <3>1, SMTT(30) DEF PublishedInOrder
  <2> QED
    BY <2>1, <2>5, <2>6, <2>7 DEF PublishedInOrder
<1>6. ASSUME NEW t \in Threads, ThreadStart(t) \/ (ThreadStep(t) /\ ~Publish(t))
      PROVE  UNCHANGED <<pubFifo, pubs, bmsg>>
  BY <1>6 DEF ThreadStart, NewMsg, StartRemove, StartAdd, Subscribe, Unsubscribe, ThreadStep,
              Discard, DirectPut, ReadBroker, ForwardLock, Search, ForwardPut, HandlerReturns,
              RemoveBroker, ClearBroker, AddSubscriber, PublishTo, Get, brokerVars, history
<1> QED
  BY <1>3, <1>4, <1>5, <1>6
     DEF Next, Retain, ReleaseRetained, Quiescent, vars, brokerVars, history

(* What s has had stays in order while nothing happens to s, when a        *)
(* message is put into its queue, when its thread takes the next one, and  *)
(* when it has handled one.                                                *)
LEMMA HadKept ==
    ASSUME NEW s \in Subs, log'[s] = log[s], queue'[s] = queue[s],
           \A i \in 1..Len(queue[s]) : seqno'[queue[s][i]] = seqno[queue[s][i]],
           \A n \in Handling(s)' : n \in Handling(s), Ordered(s)
    PROVE  Ordered(s)' /\ \A n \in Had(s)' : n \in Had(s)
<1>1. \A n \in Logged(s)' : n \in Logged(s)
  BY DEF Logged
<1>2. \A n \in Queued(s)' : n \in Queued(s)
  BY DEF Queued
<1>3. \A i, j \in 1..Len(log'[s]) : i < j => log'[s][i] < log'[s][j]
  BY DEF Ordered
<1>4. \A i, j \in 1..Len(queue'[s]) :
          i < j => seqno'[queue'[s][j]] = 0 \/ seqno'[queue'[s][i]] < seqno'[queue'[s][j]]
  BY DEF Ordered
<1>5. Below(Logged(s)', Handling(s)') /\ Below(Logged(s)', Queued(s)')
      /\ Below(Handling(s)', Queued(s)')
  BY <1>1, <1>2 DEF Ordered, Below
<1> QED
  BY <1>1, <1>2, <1>3, <1>4, <1>5 DEF Ordered, Had, Below

(* Putting a newer message behind the others keeps a queue ordered.        *)
LEMMA QueuePut ==
    ASSUME NEW s \in Subs, queue[s] \in Seq(Msgs), NEW m \in Msgs,
           queue'[s] = Append(queue[s], m), log'[s] = log[s], seqno' = seqno,
           \A n \in Handling(s)' : n \in Handling(s),
           seqno[m] = 0 \/ \A n \in Had(s) : n < seqno[m], Ordered(s)
    PROVE  Ordered(s)' /\ \A n \in Had(s)' : n \in Had(s) \/ n = seqno[m]
<1>1. /\ Len(queue'[s]) = Len(queue[s]) + 1 /\ Len(queue[s]) \in Nat
      /\ queue'[s][Len(queue[s]) + 1] = m
      /\ \A i \in 1..Len(queue[s]) : queue'[s][i] = queue[s][i]
  BY AppendProperties
<1>2. \A n \in Logged(s)' : n \in Logged(s)
  BY DEF Logged
<1>3. \A i \in 1..Len(queue'[s]) :
          i = Len(queue[s]) + 1 \/ i \in 1..Len(queue[s])
  BY <1>1
<1>4. \A n \in Queued(s)' : n \in Queued(s) \/ n = seqno[m]
  BY <1>1, <1>3 DEF Queued
<1>5. \A i, j \in 1..Len(log'[s]) : i < j => log'[s][i] < log'[s][j]
  BY DEF Ordered
<1>6. ASSUME NEW i \in 1..Len(queue'[s]), NEW j \in 1..Len(queue'[s]), i < j
      PROVE  seqno'[queue'[s][j]] = 0 \/ seqno'[queue'[s][i]] < seqno'[queue'[s][j]]
  <2>1. i \in 1..Len(queue[s]) /\ queue'[s][i] = queue[s][i]
    BY <1>1, <1>6
  <2>2. seqno[queue[s][i]] \in Had(s)
    BY <2>1 DEF Had, Queued
  <2>3. CASE j \in 1..Len(queue[s])
    BY <1>1, <1>6, <2>1, <2>3 DEF Ordered
  <2>4. CASE j = Len(queue[s]) + 1
    BY <1>1, <2>1, <2>2, <2>4
  <2> QED
    BY <1>3, <2>3, <2>4
<1>7. Below(Logged(s)', Handling(s)') /\ Below(Logged(s)', Queued(s)')
      /\ Below(Handling(s)', Queued(s)')
  BY <1>2, <1>4 DEF Ordered, Below, Had
<1> QED
  BY <1>2, <1>4, <1>5, <1>6, <1>7 DEF Ordered, Had, Below

(* So does taking the first one out.                                       *)
LEMMA QueueTaken ==
    ASSUME NEW s \in Subs, queue[s] \in Seq(Msgs), queue[s] # <<>>,
           queue'[s] = Tail(queue[s]), log'[s] = log[s], seqno' = seqno,
           \A n \in Handling(s)' : n = seqno[Head(queue[s])], Ordered(s)
    PROVE  Ordered(s)' /\ \A n \in Had(s)' : n \in Had(s)
<1>1. /\ Len(queue'[s]) = Len(queue[s]) - 1 /\ Len(queue[s]) \in Nat /\ Len(queue[s]) # 0
      /\ Head(queue[s]) = queue[s][1]
      /\ \A i \in 1..Len(queue'[s]) : queue'[s][i] = queue[s][i + 1]
  BY HeadTailProperties, EmptySeq
<1>2. /\ 1 \in 1..Len(queue[s])
      /\ \A i \in 1..Len(queue'[s]) : i + 1 \in 1..Len(queue[s]) /\ 1 < i + 1
      /\ \A i, j \in 1..Len(queue'[s]) : i < j => i + 1 < j + 1
  BY <1>1
<1>3. \A n \in Logged(s)' : n \in Logged(s)
  BY DEF Logged
<1>4. ASSUME NEW n \in Queued(s)'
      PROVE  n \in Queued(s) /\ (n = 0 \/ seqno[Head(queue[s])] < n)
  <2>1. PICK i \in 1..Len(queue'[s]) : n = seqno[queue[s][i + 1]]
    BY <1>1 DEF Queued
  <2>2. i + 1 \in 1..Len(queue[s]) /\ 1 < i + 1
    BY <1>2
  <2> QED
    BY <1>1, <1>2, <2>1, <2>2 DEF Queued, Ordered
<1>5. seqno[Head(queue[s])] \in Queued(s)
  BY <1>1, <1>2 DEF Queued
<1>6. \A i, j \in 1..Len(log'[s]) : i < j => log'[s][i] < log'[s][j]
  BY DEF Ordered
<1>7. ASSUME NEW i \in 1..Len(queue'[s]), NEW j \in 1..Len(queue'[s]), i < j
      PROVE  seqno'[queue'[s][j]] = 0 \/ seqno'[queue'[s][i]] < seqno'[queue'[s][j]]
  <2>1. /\ i + 1 \in 1..Len(queue[s]) /\ j + 1 \in 1..Len(queue[s]) /\ i + 1 < j + 1
        /\ queue'[s][i] = queue[s][i + 1] /\ queue'[s][j] = queue[s][j + 1]
    BY <1>1, <1>2, <1>7
  <2> QED
    BY <2>1 DEF Ordered
<1>8. Below(Logged(s)', Handling(s)') /\ Below(Logged(s)', Queued(s)')
      /\ Below(Handling(s)', Queued(s)')
  BY <1>3, <1>4, <1>5 DEF Ordered, Below
<1> QED
  BY <1>3, <1>4, <1>5, <1>6, <1>7, <1>8 DEF Ordered, Had, Below

(* A handler notes a number: it is the only new one.                       *)
LEMMA LogExtended ==
    ASSUME NEW s \in Subs, log[s] \in Seq(Nat), NEW x \in Nat,
           log'[s] = Append(log[s], x), queue'[s] = queue[s], seqno' = seqno,
           \A n \in Handling(s)' : FALSE,
           \A n \in Logged(s) : n < x, \A n \in Queued(s) : n = 0 \/ x < n, Ordered(s)
    PROVE  Ordered(s)' /\ \A n \in Had(s)' : n \in Had(s) \/ n = x
<1>1. /\ Len(log'[s]) = Len(log[s]) + 1 /\ Len(log[s]) \in Nat
      /\ log'[s][Len(log[s]) + 1] = x
      /\ \A i \in 1..Len(log[s]) : log'[s][i] = log[s][i]
  BY AppendProperties
<1>2. \A n \in Queued(s)' : n \in Queued(s)
  BY DEF Queued
<1>3. \A i \in 1..Len(log'[s]) : i = Len(log[s]) + 1 \/ i \in 1..Len(log[s])
  BY <1>1
<1>4. \A n \in Logged(s)' : n \in Logged(s) \/ n = x
  BY <1>1, <1>3 DEF Logged
<1>5. ASSUME NEW i \in 1..Len(log'[s]), NEW j \in 1..Len(log'[s]), i < j
      PROVE  log'[s][i] < log'[s][j]
  <2>1. i \in 1..Len(log[s]) /\ log'[s][i] = log[s][i]
    BY <1>1, <1>5
  <2>2. log[s][i] \in Logged(s)
    BY <2>1 DEF Logged
  <2>3. CASE j \in 1..Len(log[s])
    BY <1>1, <1>5, <2>1, <2>3 DEF Ordered
  <2>4. CASE j = Len(log[s]) + 1
    BY <1>1, <2>1, <2>2, <2>4
  <2> QED
    BY <1>3, <2>3, <2>4
<1>6. \A i, j \in 1..Len(queue'[s]) :
          i < j => seqno'[queue'[s][j]] = 0 \/ seqno'[queue'[s][i]] < seqno'[queue'[s][j]]
  BY DEF Ordered
<1>7. Below(Logged(s)', Handling(s)') /\ Below(Logged(s)', Queued(s)')
      /\ Below(Handling(s)', Queued(s)')
  BY <1>2, <1>4 DEF Ordered, Below
<1> QED
  BY <1>2, <1>4, <1>5, <1>6, <1>7 DEF Ordered, Had, Below

(* The walk goes on behind the subscriber it is at and does not come back  *)
(* to it.                                                                  *)
LEMMA WalkGoesOn ==
    ASSUME TypeOK, WalksUnderLock, NoRepeats(list), bpc \in {"visit", "call", "put"}, bsub # None,
           bpc' = "visit", Advance(bnext), list' = list, NEW s
    PROVE  Ahead(s)' => Ahead(s) /\ s # bsub
<1>1. list \in Seq(Subs) /\ bnext = NextOf(list, bsub)
  BY DEF TypeOK, ListTypes, WalksUnderLock, WalkInList
<1>2. SUFFICES ASSUME Ahead(s)'
               PROVE  Ahead(s) /\ s # bsub
  OBVIOUS
<1>3. bnext # None /\ (s = bnext \/ Before(list, bnext, s))
  BY <1>2 DEF Ahead, Advance
<1>4. Before(list, bsub, bnext)
  BY <1>1, <1>3, NextOfIsNearest
<1>5. Before(list, bsub, s)
  BY <1>1, <1>3, <1>4, BeforeIsStrict
<1>6. s # bsub
  BY <1>1, <1>5, BeforeIsStrict
<1> QED
  BY <1>5, <1>6 DEF Ahead

(* Every action keeps the order in which one subscriber gets messages:     *)
(* what is put into its queue is newer than all it has had, because the    *)
(* broker comes to it once per message and takes the messages in the order *)
(* published.                                                              *)
LEMMA NextOrdered ==
    ASSUME TypeOK, Roles, WalksUnderLock, AllCounted, Owned, NoRepeats(list), PublishedInOrder,
           [Next]_vars, NEW s \in Subs \ FifoSubs, Ordered(s), Upcoming(s)
    PROVE  (Ordered(s) /\ Upcoming(s))'
<1>1. /\ seqno \in [Msgs -> Nat] /\ log \in [Subs -> Seq(Nat)] /\ pubs \in Seq(MsgIds)
      /\ Len(pubs) \in Nat /\ pubFifo \in Seq(Msgs) /\ Len(pubFifo) \in Nat
      /\ queue \in [Subs -> Seq(Msgs)] /\ s \in Subs /\ RxType[s] # "fifo"
  BY DEF TypeOK, HistoryTypes, QueueTypes, FifoSubs
<1>2. ThreadTypes /\ BrokerTypes /\ ListTypes
  BY DEF TypeOK
<1>3. /\ \A i \in 1..Len(pubFifo) : seqno'[pubFifo[i]] = seqno[pubFifo[i]]
      /\ \A i \in 1..Len(queue[s]) : seqno'[queue[s][i]] = seqno[queue[s][i]]
      /\ \A t \in Threads :
            tmsg[t] # None /\ tpc[t] # "owns" => seqno'[tmsg[t]] = seqno[tmsg[t]]
      /\ bmsg # None => seqno'[bmsg] = seqno[bmsg]
  BY <1>1, NumbersKept
<1>4. \A t \in Threads : tpc[t] = "handle" => tmsg[t] \in Msgs /\ tmsg[t] # None
  BY <1>2, NoneAssumption DEF ThreadTypes, Fits
<1>5. \A t \in Threads : tpc[t] = "handle" /\ tsub[t] = s => t = Server[s]
  BY DEF Roles, Role
<1>6. Ahead(s) => bmsg # None
  BY <1>2 DEF Ahead, BrokerTypes
<1>7. ASSUME \A t \in Threads : tpc'[t] = "handle" /\ tsub'[t] = s =>
                 tpc[t] = "handle" /\ tsub[t] = s /\ tmsg'[t] = tmsg[t]
      PROVE  \A n \in Handling(s)' : n \in Handling(s)
  BY <1>3, <1>4, <1>7 DEF Handling
<1>8. ASSUME \A n \in Had(s)' : n \in Had(s), UNCHANGED <<pubFifo, pubs>>,
             Ahead(s)' => Ahead(s) /\ bmsg' = bmsg
      PROVE  Upcoming(s)'
  BY <1>3, <1>6, <1>8 DEF Upcoming
<1>9. ASSUME NEW x \in 0..Len(pubs), \A n \in Had(s)' : n \in Had(s) \/ n = x,
             \A i \in 1..Len(pubFifo) : x < seqno[pubFifo[i]],
             UNCHANGED <<pubFifo, pubs>>,
             Ahead(s)' => Ahead(s) /\ bmsg' = bmsg /\ x < seqno[bmsg]
      PROVE  Upcoming(s)'
  <2>1. \A n \in Had(s)' : n \in 0..Len(pubs')
    BY <1>9 DEF Upcoming
  <2>2. ASSUME NEW n \in Had(s)', NEW i \in 1..Len(pubFifo')
        PROVE  n < seqno'[pubFifo'[i]]
    BY <1>3, <1>9, <2>2 DEF Upcoming
  <2>3. ASSUME NEW n \in Had(s)', Ahead(s)'
        PROVE  n < seqno'[bmsg']
    BY <1>3, <1>6, <1>9, <2>3 DEF Upcoming
  <2> QED
    BY <2>1, <2>2, <2>3 DEF Upcoming
<1>10. ASSUME log'[s] = log[s], queue'[s] = queue[s], UNCHANGED <<pubFifo, pubs>>,
              \A t \in Threads : tpc'[t] = "handle" /\ tsub'[t] = s =>
                  tpc[t] = "handle" /\ tsub[t] = s /\ tmsg'[t] = tmsg[t],
              Ahead(s)' => Ahead(s) /\ bmsg' = bmsg
       PROVE  (Ordered(s) /\ Upcoming(s))'
  <2>1. \A n \in Handling(s)' : n \in Handling(s)
    BY <1>7, <1>10
  <2>2. Ordered(s)' /\ \A n \in Had(s)' : n \in Had(s)
    BY <1>1, <1>3, <1>10, <2>1, HadKept
  <2> QED
    BY <1>8, <1>10, <2>2
<1>11. ASSUME UNCHANGED <<brokerVars, list>>
       PROVE  Ahead(s)' => Ahead(s) /\ bmsg' = bmsg
  BY <1>11 DEF Ahead, brokerVars
<1>12. ASSUME NEW t \in Threads, NEW pc, NEW m, NEW u, NEW next, Goto(t, pc, m, u, next)
       PROVE  /\ tpc'[t] = pc /\ tsub'[t] = u /\ tmsg'[t] = m
              /\ \A v \in Threads \ {t} :
                    tpc'[v] = tpc[v] /\ tsub'[v] = tsub[v] /\ tmsg'[v] = tmsg[v]
  BY <1>2, <1>12 DEF Goto, ThreadTypes
<1>13. ASSUME NEW t \in Threads, NEW pc, NEW m, NEW u, NEW next, Goto(t, pc, m, u, next),
              pc # "handle" \/ u # s
       PROVE  \A v \in Threads : tpc'[v] = "handle" /\ tsub'[v] = s =>
                  v # t /\ tpc[v] = "handle" /\ tsub[v] = s /\ tmsg'[v] = tmsg[v]
  BY <1>12, <1>13
<1>14. ASSUME NEW t \in Threads, NEW pc, NEW m, NEW u, NEW next, Goto(t, pc, m, u, next),
              pc # "handle" \/ u # s, log'[s] = log[s], queue'[s] = queue[s],
              UNCHANGED <<pubFifo, pubs, brokerVars, list>>
       PROVE  (Ordered(s) /\ Upcoming(s))'
  BY <1>10, <1>11, <1>13, <1>14
<1>15. ASSUME UNCHANGED threadVars
       PROVE  \A t \in Threads : tpc'[t] = "handle" /\ tsub'[t] = s =>
                  tpc[t] = "handle" /\ tsub[t] = s /\ tmsg'[t] = tmsg[t]
  BY <1>15 DEF threadVars
<1>16. ASSUME NEW u \in Subs, NEW m, Put(u, m), u # s
       PROVE  queue'[s] = queue[s]
  BY <1>1, <1>16 DEF Put
<1>17. ASSUME BrokerStep
       PROVE  (Ordered(s) /\ Upcoming(s))'
  <2>1. UNCHANGED <<threadVars, list, pubs, seqno>>
    BY <1>17 DEF BrokerStep, BrokerGet, BrokerLock, BrokerVisit, BrokerCalled, BrokerPut,
                 BrokerUnlock, BrokerRelease, BrokerSubmit, configVars, history
  <2>2. CASE BrokerGet
    <3>1. log' = log /\ queue' = queue
      BY <2>2 DEF BrokerGet, history
    <3>2. CASE pubFifo = <<>>
      <4>1. pubFifo' = pubFifo /\ ~Ahead(s)'
        BY <2>2, <3>2 DEF BrokerGet, Ahead
      <4> QED
        BY <1>10, <1>15, <2>1, <3>1, <4>1
    <3>3. CASE pubFifo # <<>>
      <4>1. /\ bmsg' = pubFifo[1] /\ pubFifo' = Tail(pubFifo) /\ Len(pubFifo) # 0
        BY <1>1, <2>2, <3>3, HeadTailProperties, EmptySeq DEF BrokerGet
      <4>2. /\ Len(pubFifo') = Len(pubFifo) - 1
            /\ \A i \in 1..Len(pubFifo') : pubFifo'[i] = pubFifo[i + 1]
        BY <1>1, <3>3, <4>1, HeadTailProperties
      <4>3. 1 \in 1..Len(pubFifo) /\ \A i \in 1..Len(pubFifo') : i + 1 \in 1..Len(pubFifo)
        BY <1>1, <4>1, <4>2
      <4>4. Ordered(s)' /\ \A n \in Had(s)' : n \in Had(s)
        BY <1>1, <1>3, <1>7, <1>15, <2>1, <3>1, HadKept
      <4> QED
        BY <2>1, <4>1, <4>2, <4>3, <4>4 DEF Upcoming
    <3> QED
      BY <3>2, <3>3
  <2>3. CASE BrokerLock
    <3>1. log' = log /\ queue' = queue /\ pubFifo' = pubFifo /\ Ahead(s) /\ bmsg' = bmsg
      BY <2>3 DEF BrokerLock, Ahead, history
    <3> QED
      BY <1>10, <1>15, <2>1, <3>1
  <2>4. CASE BrokerVisit
    <3>1. log' = log /\ queue' = queue /\ pubFifo' = pubFifo /\ bmsg' = bmsg /\ bpc = "visit"
      BY <2>4 DEF BrokerVisit, history
    <3>2. \/ bpc' = "unlock"
          \/ bsub # None /\ bpc' = "visit" /\ Advance(bnext)
          \/ bsub # None /\ bpc' \in {"call", "put"} /\ bsub' = bsub
      BY <2>4 DEF BrokerVisit
    <3>3. Ahead(s)' => Ahead(s)
      <4>1. CASE bpc' = "unlock"
        BY <4>1 DEF Ahead
      <4>2. CASE bsub # None /\ bpc' = "visit" /\ Advance(bnext)
        BY <2>1, <3>1, <4>2, WalkGoesOn
      <4>3. CASE bsub # None /\ bpc' \in {"call", "put"} /\ bsub' = bsub
        BY <2>1, <3>1, <4>3 DEF Ahead
      <4> QED
        BY <3>2, <4>1, <4>2, <4>3
    <3> QED
      BY <1>10, <1>15, <2>1, <3>1, <3>3
  <2>5. CASE BrokerCalled
    <3>1. /\ bpc = "call" /\ bpc' = "visit" /\ Advance(bnext) /\ queue' = queue
          /\ pubFifo' = pubFifo /\ bmsg' = bmsg /\ bsub # None /\ bmsg \in Msgs /\ bmsg # None
          /\ bsub \in Subs /\ RxType[bsub] = "callback"
          /\ log' = [log EXCEPT ![bsub] = Append(@, seqno[bmsg])]
      BY <1>2, <2>5 DEF BrokerCalled, Handled, BrokerTypes, Roles
    <3>2. Ahead(s)' => Ahead(s) /\ s # bsub
      BY <2>1, <3>1, WalkGoesOn
    <3>3. CASE s # bsub
      <4>1. log'[s] = log[s]
        BY <1>1, <3>1, <3>3
      <4> QED
        BY <1>10, <1>15, <2>1, <3>1, <3>2, <4>1
    <3>4. CASE s = bsub
      <4>1. log'[s] = Append(log[s], seqno[bmsg])
        BY <1>1, <3>1, <3>4
      <4>2. queue[s] = <<>> /\ \A t \in Threads : ~(tpc[t] = "handle" /\ tsub[t] = s)
        BY <1>1, <3>1, <3>4 DEF Roles, Role
      <4>3. (\A n \in Handling(s)' : FALSE) /\ \A n \in Queued(s) : FALSE
        BY <1>15, <2>1, <4>2 DEF Handling, Queued
      <4>4. Ahead(s) /\ ~Ahead(s)'
        BY <3>1, <3>2, <3>4 DEF Ahead
      <4>5. \A n \in Had(s) : n < seqno[bmsg]
        BY <4>4 DEF Upcoming
      <4>6. \A n \in Logged(s) : n < seqno[bmsg]
        BY <4>5 DEF Had
      <4>7. seqno[bmsg] \in Nat /\ log[s] \in Seq(Nat)
        BY <1>1, <3>1
      <4>8. Ordered(s)' /\ \A n \in Had(s)' : n \in Had(s) \/ n = seqno[bmsg]
        BY <1>1, <2>1, <3>1, <4>1, <4>3, <4>6, <4>7, LogExtended
      <4>9. /\ seqno[bmsg] \in 1..Len(pubs)
            /\ \A i \in 1..Len(pubFifo) : seqno[bmsg] < seqno[pubFifo[i]]
        BY <3>1 DEF PublishedInOrder
      <4> QED
        <5>1. seqno[bmsg] \in 0..Len(pubs)
          BY <1>1, <4>9
        <5>2. Upcoming(s)'
          BY <1>9, <2>1, <3>1, <4>4, <4>8, <4>9, <5>1
        <5> QED
          BY <4>8, <5>2
    <3> QED
      BY <3>3, <3>4
  <2>6. CASE BrokerPut
    <3>1. /\ bpc = "put" /\ log' = log /\ pubFifo' = pubFifo /\ bmsg' = bmsg /\ bsub # None
          /\ bmsg \in Msgs /\ bmsg # None /\ bsub \in Subs /\ Put(bsub, bmsg)
          /\ IF RxType[bsub] = "fifo" THEN bpc' = "unlock"
                                      ELSE bpc' = "visit" /\ Advance(bnext)
      BY <1>2, <2>6 DEF BrokerPut, BrokerTypes, FifoSubHandled, history
    <3>2. Ahead(s)' => Ahead(s) /\ s # bsub
      <4>1. CASE RxType[bsub] = "fifo"
        BY <3>1, <4>1 DEF Ahead
      <4>2. CASE RxType[bsub] # "fifo"
        BY <2>1, <3>1, <4>2, WalkGoesOn
      <4> QED
        BY <4>1, <4>2
    <3>3. CASE s # bsub
      BY <1>10, <1>15, <1>16, <2>1, <3>1, <3>2, <3>3
    <3>4. CASE s = bsub
      <4>1. queue'[s] = Append(queue[s], bmsg) /\ queue[s] \in Seq(Msgs)
        BY <1>1, <3>1, <3>4 DEF Put
      <4>2. \A n \in Handling(s)' : n \in Handling(s)
        BY <1>7, <1>15, <2>1
      <4>3. Ahead(s) /\ ~Ahead(s)'
        BY <3>1, <3>2, <3>4 DEF Ahead
      <4>4. \A n \in Had(s) : n < seqno[bmsg]
        BY <4>3 DEF Upcoming
      <4>5. Ordered(s)' /\ \A n \in Had(s)' : n \in Had(s) \/ n = seqno[bmsg]
        BY <1>1, <2>1, <3>1, <4>1, <4>2, <4>4, QueuePut
      <4>6. /\ seqno[bmsg] \in 1..Len(pubs)
            /\ \A i \in 1..Len(pubFifo) : seqno[bmsg] < seqno[pubFifo[i]]
        BY <3>1 DEF PublishedInOrder
      <4> QED
        <5>1. seqno[bmsg] \in 0..Len(pubs)
          BY <1>1, <4>6
        <5>2. Upcoming(s)'
          BY <1>9, <2>1, <3>1, <4>3, <4>5, <4>6, <5>1
        <5> QED
          BY <4>5, <5>2
    <3> QED
      BY <3>3, <3>4
  <2>7. CASE BrokerUnlock \/ BrokerRelease \/ BrokerSubmit
    <3>1. log' = log /\ queue' = queue /\ pubFifo' = pubFifo /\ ~Ahead(s)'
      BY <2>7 DEF BrokerUnlock, BrokerRelease, BrokerSubmit, Submitted, Ahead, history
    <3> QED
      BY <1>10, <1>15, <2>1, <3>1
  <2> QED
    BY <1>17, <2>2, <2>3, <2>4, <2>5, <2>6, <2>7 DEF BrokerStep
<1>18. ASSUME NEW t \in Threads, ThreadStart(t)
       PROVE  (Ordered(s) /\ Upcoming(s))'
  <2>1. ASSUME NEW m \in Msgs, NEW i \in MsgIds, NewMsg(t, m, i)
        PROVE  (Ordered(s) /\ Upcoming(s))'
    BY <1>14, <2>1 DEF NewMsg, configVars
  <2>2. ASSUME NEW u \in Subs, StartRemove(t, u) \/ StartAdd(t, u)
        PROVE  (Ordered(s) /\ Upcoming(s))'
    BY <1>14, <2>2 DEF StartRemove, StartAdd, configVars, history
  <2>3. ASSUME NEW u \in Subs, NEW i \in MsgIds, Subscribe(t, u, i) \/ Unsubscribe(t, u, i)
        PROVE  (Ordered(s) /\ Upcoming(s))'
    BY <1>10, <1>11, <1>15, <2>3 DEF Subscribe, Unsubscribe, history
  <2> QED
    BY <1>18, <2>1, <2>2, <2>3 DEF ThreadStart
<1>19. ASSUME NEW u \in Subs, NEW m \in Msgs, Retain(u, m) \/ ReleaseRetained(u, m)
       PROVE  (Ordered(s) /\ Upcoming(s))'
  BY <1>10, <1>11, <1>15, <1>19 DEF Retain, ReleaseRetained, configVars, history
<1>20. CASE UNCHANGED vars
  BY <1>10, <1>11, <1>15, <1>20 DEF vars, configVars, history
<1>21. ASSUME NEW t \in Threads, Publish(t)
       PROVE  (Ordered(s) /\ Upcoming(s))'
  <2>1. /\ tmsg[t] \in Msgs /\ pubFifo' = Append(pubFifo, tmsg[t])
        /\ pubs' = Append(pubs, id[tmsg[t]]) /\ id[tmsg[t]] \in MsgIds
        /\ seqno' = [seqno EXCEPT ![tmsg[t]] = Len(pubs) + 1]
        /\ log' = log /\ queue' = queue /\ Goto(t, "idle", None, None, None)
        /\ list' = list /\ bmsg' = bmsg /\ bsub' = bsub
        /\ bpc' = bpc \/ bpc' = "get"
    BY <1>21 DEF Publish, PubFifoPut, Return, configVars, TypeOK, ThreadTypes, MsgTypes, Fits
  <2>2. /\ Len(pubFifo') = Len(pubFifo) + 1 /\ pubFifo'[Len(pubFifo) + 1] = tmsg[t]
        /\ \A i \in 1..Len(pubFifo) : pubFifo'[i] = pubFifo[i]
    BY <1>1, <2>1, AppendProperties
  <2>3. Len(pubs') = Len(pubs) + 1 /\ seqno'[tmsg[t]] = Len(pubs) + 1
    BY <1>1, <2>1, AppendProperties
  <2>4. \A i \in 1..Len(pubFifo') :
           \/ i \in 1..Len(pubFifo) /\ seqno'[pubFifo'[i]] = seqno[pubFifo[i]]
           \/ seqno'[pubFifo'[i]] = Len(pubs) + 1
    <3>1. \A i \in 1..Len(pubFifo') : i = Len(pubFifo) + 1 \/ i \in 1..Len(pubFifo)
      BY <1>1, <2>2
    <3>2. \A i \in 1..Len(pubFifo) : seqno'[pubFifo'[i]] = seqno[pubFifo[i]]
      BY <1>3, <2>2
    <3> QED
      BY <2>2, <2>3, <3>1, <3>2
  <2>5. \A n \in Handling(s)' : n \in Handling(s)
    BY <1>7, <1>13, <2>1
  <2>6. Ordered(s)' /\ \A n \in Had(s)' : n \in Had(s)
    BY <1>1, <1>3, <2>1, <2>5, HadKept
  <2>7. Ahead(s)' => Ahead(s)
    BY <2>1 DEF Ahead
  <2>8. \A n \in Had(s)' : n \in 0..Len(pubs) /\ n \in 0..Len(pubs')
    BY <1>1, <2>3, <2>6 DEF Upcoming
  <2>9. ASSUME NEW n \in Had(s)', NEW i \in 1..Len(pubFifo')
        PROVE  n < seqno'[pubFifo'[i]]
    <3>1. n \in Had(s) /\ n \in 0..Len(pubs)
      BY <2>6, <2>8
    <3>2. CASE i \in 1..Len(pubFifo) /\ seqno'[pubFifo'[i]] = seqno[pubFifo[i]]
      BY <3>1, <3>2 DEF Upcoming
    <3>3. CASE seqno'[pubFifo'[i]] = Len(pubs) + 1
      BY <1>1, <3>1, <3>3
    <3> QED
      BY <2>4, <3>2, <3>3
  <2>10. Ahead(s)' => \A n \in Had(s)' : n < seqno'[bmsg']
    BY <1>3, <1>6, <2>1, <2>6, <2>7 DEF Upcoming
  <2> QED
    BY <2>6, <2>8, <2>9, <2>10 DEF Upcoming
<1>22. ASSUME NEW t \in Threads, DirectPut(t)
       PROVE  (Ordered(s) /\ Upcoming(s))'
  <2>1. /\ tsub[t] \in Subs /\ tmsg[t] \in Msgs /\ Put(tsub[t], tmsg[t]) /\ seqno[tmsg[t]] = 0
        /\ log' = log /\ seqno' = seqno /\ Goto(t, "idle", None, None, None)
        /\ UNCHANGED <<pubFifo, pubs, brokerVars, list>>
    BY <1>2, <1>22 DEF DirectPut, Return, ThreadTypes, Fits, Owned, Unnumbered, configVars, history
  <2>2. CASE s # tsub[t]
    BY <1>14, <1>16, <2>1, <2>2
  <2>3. CASE s = tsub[t]
    <3>1. queue'[s] = Append(queue[s], tmsg[t]) /\ queue[s] \in Seq(Msgs)
      BY <1>1, <2>1, <2>3 DEF Put
    <3>2. \A n \in Handling(s)' : n \in Handling(s)
      BY <1>7, <1>13, <2>1
    <3>3. Ordered(s)' /\ \A n \in Had(s)' : n \in Had(s) \/ n = 0
      BY <1>1, <2>1, <3>1, <3>2, QueuePut
    <3>4. /\ Ahead(s)' => Ahead(s) /\ bmsg # None
          /\ bmsg' = bmsg
      BY <1>6, <1>11, <2>1 DEF brokerVars
    <3>5. /\ \A i \in 1..Len(pubFifo) : seqno[pubFifo[i]] \in 1..Len(pubs)
          /\ bmsg # None => seqno[bmsg] \in 1..Len(pubs)
      BY DEF PublishedInOrder
    <3>6. /\ 0 \in 0..Len(pubs) /\ \A i \in 1..Len(pubFifo) : 0 < seqno[pubFifo[i]]
          /\ bmsg # None => 0 < seqno[bmsg]
      BY <1>1, <3>5
    <3> QED
      BY <1>9, <2>1, <3>3, <3>4, <3>6
  <2> QED
    BY <2>2, <2>3
<1>23. ASSUME NEW t \in Threads, NEW u \in Subs, Get(t, u)
       PROVE  (Ordered(s) /\ Upcoming(s))'
  <2>1. PICK pc \in {"forward", "handle"} : Goto(t, pc, Head(queue[u]), u, None)
    BY <1>23 DEF Get
  <2>2. /\ tpc[t] = "idle" /\ Server[u] = t /\ queue[u] # <<>>
        /\ queue' = [queue EXCEPT ![u] = Tail(@)]
        /\ log' = log /\ seqno' = seqno /\ UNCHANGED <<pubFifo, pubs, brokerVars, list>>
    BY <1>23 DEF Get, configVars, history
  <2>3. CASE u # s
    <3>1. queue'[s] = queue[s]
      BY <1>1, <2>2, <2>3
    <3> QED
      BY <1>14, <2>1, <2>2, <2>3, <3>1
  <2>4. CASE u = s
    <3>1. queue'[s] = Tail(queue[s]) /\ queue[s] \in Seq(Msgs)
      BY <1>1, <2>2, <2>4
    <3>2. \A v \in Threads : tpc'[v] = "handle" /\ tsub'[v] = s => tmsg'[v] = Head(queue[s])
      BY <1>5, <1>12, <2>1, <2>2, <2>4
    <3>3. \A n \in Handling(s)' : n = seqno[Head(queue[s])]
      BY <2>2, <3>2 DEF Handling
    <3>4. Ordered(s)' /\ \A n \in Had(s)' : n \in Had(s)
      BY <1>1, <2>2, <2>4, <3>1, <3>3, QueueTaken
    <3> QED
      BY <1>8, <1>11, <2>2, <3>4
  <2> QED
    BY <2>3, <2>4
<1>24. ASSUME NEW t \in Threads, HandlerReturns(t)
       PROVE  (Ordered(s) /\ Upcoming(s))'
  <2>1. /\ tpc[t] \in {"handle", "direct"} /\ Goto(t, "idle", None, None, None)
        /\ tsub[t] \in Subs /\ tmsg[t] \in Msgs /\ seqno[tmsg[t]] \in Nat
        /\ seqno' = seqno /\ queue' = queue /\ UNCHANGED <<pubFifo, pubs, brokerVars, list>>
        /\ IF seqno[tmsg[t]] > 0 THEN log' = [log EXCEPT ![tsub[t]] = Append(@, seqno[tmsg[t]])]
                                 ELSE log' = log
    BY <1>1, <1>2, <1>24 DEF HandlerReturns, Handled, Return, ThreadTypes, Fits, configVars, history
  <2>2. CASE tsub[t] = s /\ seqno[tmsg[t]] > 0
    <3>1. tpc[t] = "handle"
      BY <2>1, <2>2 DEF Owned, Unnumbered
    <3>2. log'[s] = Append(log[s], seqno[tmsg[t]]) /\ log[s] \in Seq(Nat)
      BY <1>1, <2>1, <2>2
    <3>3. seqno[tmsg[t]] \in Handling(s)
      BY <2>2, <3>1 DEF Handling
    <3>4. \A v \in Threads : ~(tpc'[v] = "handle" /\ tsub'[v] = s)
      BY <1>5, <1>13, <2>1, <2>2, <3>1
    <3>5. \A n \in Handling(s)' : FALSE
      BY <3>4 DEF Handling
    <3>6. Handling(s) \subseteq Had(s) /\ Logged(s) \subseteq Had(s)
      BY DEF Had
    <3>7. \A n \in Logged(s) : n < seqno[tmsg[t]]
      BY <2>2, <3>3 DEF Ordered, Below
    <3>8. \A n \in Queued(s) : n = 0 \/ seqno[tmsg[t]] < n
      BY <3>3 DEF Ordered, Below
    <3>9. Ordered(s)' /\ \A n \in Had(s)' : n \in Had(s) \/ n = seqno[tmsg[t]]
      BY <1>1, <2>1, <3>2, <3>5, <3>7, <3>8, LogExtended
    <3>10. \A n \in Had(s)' : n \in Had(s)
      BY <3>3, <3>6, <3>9
    <3> QED
      BY <1>8, <1>11, <2>1, <3>9, <3>10
  <2>3. CASE tsub[t] # s \/ ~(seqno[tmsg[t]] > 0)
    <3>1. log'[s] = log[s]
      BY <1>1, <2>1, <2>3
    <3> QED
      BY <1>14, <2>1, <3>1
  <2> QED
    BY <2>2, <2>3
<1>25. ASSUME NEW t \in Threads, Search(t) \/ ForwardPut(t)
       PROVE  (Ordered(s) /\ Upcoming(s))'
  <2>1. tsub[t] # s
    <3>1. tpc[t] \in ForwardSteps
      BY <1>25 DEF Search, ForwardPut, ForwardSteps, PutSteps
    <3>2. RxType[tsub[t]] = "fifo"
      BY <3>1 DEF Roles, Role
    <3> QED
      BY <1>1, <3>2
  <2>2. queue'[s] = queue[s] /\ log' = log /\ UNCHANGED <<pubFifo, pubs, brokerVars, list>>
    <3>1. CASE Search(t)
      BY <3>1 DEF Search, configVars, history
    <3>2. CASE ForwardPut(t)
      <4>1. tnext[t] \in Subs /\ tnext[t] # s /\ Put(tnext[t], tmsg[t])
        BY <1>1, <1>2, <3>2 DEF ForwardPut, ThreadTypes, Fits
      <4> QED
        BY <1>16, <3>2, <4>1 DEF ForwardPut, configVars, history
    <3> QED
      BY <1>25, <3>1, <3>2
  <2>3. \E pc, u : Goto(t, pc, tmsg[t], tsub[t], u)
    BY <1>25 DEF Search, ForwardPut
  <2> QED
    BY <1>14, <2>1, <2>2, <2>3
<1>26. ASSUME NEW t \in Threads, RemoveBroker(t) \/ AddSubscriber(t)
       PROVE  (Ordered(s) /\ Upcoming(s))'
  <2>1. /\ mutex = None /\ log' = log /\ queue' = queue /\ UNCHANGED <<pubFifo, pubs, brokerVars>>
    BY <1>26 DEF RemoveBroker, AddSubscriber, MutexFree, history
  <2>2. bpc \notin WalkSteps
    BY <2>1, NobodyWalks DEF MutexFree
  <2>3. Ahead(s)' => Ahead(s) /\ bmsg' = bmsg
    BY <2>1, <2>2 DEF Ahead, WalkSteps, brokerVars
  <2>4. \E pc \in {"clear", "idle"} : \E m, u : Goto(t, pc, m, u, None)
    BY <1>26 DEF RemoveBroker, AddSubscriber, Return
  <2>5. \A v \in Threads : tpc'[v] = "handle" /\ tsub'[v] = s =>
            tpc[v] = "handle" /\ tsub[v] = s /\ tmsg'[v] = tmsg[v]
    BY <1>13, <2>4
  <2> QED
    BY <1>10, <2>1, <2>3, <2>5
<1>27. ASSUME NEW t \in Threads, Discard(t) \/ ReadBroker(t) \/ ForwardLock(t) \/ ClearBroker(t)
       PROVE  (Ordered(s) /\ Upcoming(s))'
  BY <1>14, <1>27 DEF Discard, ReadBroker, ForwardLock, ClearBroker, Return, configVars, history
<1>28. ASSUME NEW t \in Threads, NEW u \in Subs, PublishTo(t, u)
       PROVE  (Ordered(s) /\ Upcoming(s))'
  <2>1. log' = log /\ UNCHANGED <<pubFifo, pubs, brokerVars, list>>
    BY <1>28 DEF PublishTo, configVars, history
  <2>2. queue'[s] = queue[s]
    BY <1>1, <1>16, <1>28 DEF PublishTo
  <2>3. \E pc \in {"direct", "directput", "idle"} : \E m, v : Goto(t, pc, m, v, None)
    BY <1>28 DEF PublishTo, Return
  <2> QED
    BY <1>14, <2>1, <2>2, <2>3
<1>29. ASSUME NEW t \in Threads, ThreadStep(t)
       PROVE  (Ordered(s) /\ Upcoming(s))'
  BY <1>21, <1>22, <1>23, <1>24, <1>25, <1>26, <1>27, <1>28, <1>29 DEF ThreadStep
<1> QED
  BY <1>17, <1>18, <1>19, <1>20, <1>29 DEF Next, Quiescent

OrderInv == PublishedInOrder /\ \A s \in Subs \ FifoSubs : Ordered(s) /\ Upcoming(s)

(* At first no subscriber has had anything.                                *)
LEMMA InitOrdered ==
    ASSUME Init
    PROVE  OrderInv
<1>1. /\ pubFifo = <<>> /\ bmsg = None /\ bpc = "armed"
      /\ \A t \in Threads : tpc[t] = "idle"
      /\ \A s \in Subs : log[s] = <<>> /\ queue[s] = <<>>
  BY DEF Init
<1>2. PublishedInOrder
  BY <1>1 DEF PublishedInOrder
<1>3. ASSUME NEW s \in Subs
      PROVE  Ordered(s) /\ Upcoming(s)
  <2>1. Logged(s) = {} /\ Handling(s) = {} /\ Queued(s) = {}
    BY <1>1 DEF Logged, Handling, Queued
  <2> QED
    BY <1>1, <2>1 DEF Ordered, Below, Upcoming, Had, Ahead
<1> QED
  BY <1>2, <1>3 DEF OrderInv

(* A callback or msgq subscriber handles publications in the order they    *)
(* were published, however often it and others are subscribed, taken out   *)
(* and added back: the broker passes each subscriber once per message and  *)
(* finishes a message before it takes the next one.  No two threads may    *)
(* reconfigure the same subscriber at once.                                *)
THEOREM BrokerDeliversInOrder == Spec /\ []OneAtATime => []InOrderFromBroker
<1>1. Configured => NoRepeats(list)
  BY DEF Configured
<1>2. TypeOK /\ Roles /\ WalksUnderLock /\ AllCounted /\ Owned /\ NoRepeats(list) /\ OrderInv
      /\ [Next]_vars => OrderInv'
  <2> SUFFICES ASSUME TypeOK, Roles, WalksUnderLock, AllCounted, Owned, NoRepeats(list),
                      OrderInv, [Next]_vars
               PROVE  OrderInv'
    OBVIOUS
  <2>1. PublishedInOrder'
    BY NextPublished DEF OrderInv
  <2>2. ASSUME NEW s \in Subs \ FifoSubs
        PROVE  (Ordered(s) /\ Upcoming(s))'
    BY NextOrdered DEF OrderInv
  <2> QED
    BY <2>1, <2>2 DEF OrderInv, FifoSubs
<1>3. OrderInv => InOrderFromBroker
  BY DEF OrderInv, Ordered, InOrderFromBroker
<1> QED
  BY <1>1, <1>2, <1>3, InitOrdered, TypeCorrect, RolesKept, LockDiscipline, CountsHold,
     OwnerHasItAlone, ListAgreesWithBroker, PTL DEF Spec
-----------------------------------------------------------------------------
(* Nobody misses a publication because of what is done to others.          *)

(* The subscribers that are in the list for good, and what stays as it is  *)
(* while others are reconfigured.                                          *)
Staying == ToSet(InitList) \ Managed

SettingsKept ==
    /\ Staying \subseteq ToSet(list)
    /\ \A s \in Subs \ Managed : subscribed[s] = InitSubscribed[s]

(* Adding and removing others neither moves a staying subscriber out of    *)
(* the list nor changes what it is subscribed to.                          *)
LEMMA NextSettings ==
    ASSUME TypeOK, Roles, SettingsKept, [Next]_vars
    PROVE  SettingsKept'
<1>1. list \in Seq(Subs)
  BY DEF TypeOK, ListTypes
<1>2. ASSUME NEW s \in Managed, list' = Removed(list, s) \/ list' = Inserted(list, Priority, s)
      PROVE  ToSet(list) \ {s} \subseteq ToSet(list')
  <2>1. s \in Subs
    BY <1>2, ManagedAssumption
  <2> QED
    BY <1>1, <1>2, <2>1, RemovedKeepsOthers, InsertedKeepsOrder
<1>3. Staying \subseteq ToSet(list')
  BY <1>2, ConfigFrame DEF SettingsKept, Staying
<1> QED
  BY <1>3, ConfigFrame DEF SettingsKept

(* Nor does it change the order of two of them.                            *)
LEMMA OrderOfStaying ==
    ASSUME TypeOK, Roles, [Next]_vars, NEW s \in Subs \ Managed, NEW u \in Subs \ Managed,
           Before(list, s, u)
    PROVE  Before(list', s, u)
<1>1. list \in Seq(Subs)
  BY DEF TypeOK, ListTypes
<1>2. ASSUME NEW x \in Managed, list' = Removed(list, x) \/ list' = Inserted(list, Priority, x)
      PROVE  Before(list', s, u)
  <2>1. x \in Subs
    BY <1>2, ManagedAssumption
  <2>2. x # s /\ x # u
    OBVIOUS
  <2> QED
    BY <1>1, <1>2, <2>1, <2>2, RemovedKeepsOthers, InsertedKeepsOrder
<1> QED
  BY <1>2, ConfigFrame

(* The number of a message leads to its publication, and to no other       *)
(* message in use.                                                         *)
NumbersRecorded ==
    \A m \in Msgs \ free :
        seqno[m] # 0 => /\ seqno[m] \in 1..Len(pubs) /\ pubs[seqno[m]] = id[m]
                        /\ \A x \in Msgs \ free : seqno[x] = seqno[m] => x = m

(* pub_sub_publish_to_broker gives a message the next number, which no     *)
(* other message has; an allocated one has none.                           *)
LEMMA NextRecorded ==
    ASSUME TypeOK, NumbersRecorded, [Next]_vars
    PROVE  NumbersRecorded'
<1>1. pubs \in Seq(MsgIds) /\ Len(pubs) \in Nat /\ ThreadTypes /\ seqno \in [Msgs -> Nat]
  BY DEF TypeOK, HistoryTypes
<1>2. Len(pubs') \in Nat /\ \A n \in 1..Len(pubs) : n \in 1..Len(pubs') /\ pubs'[n] = pubs[n]
  <2>1. CASE pubs' = pubs
    BY <1>1, <2>1
  <2>2. ASSUME NEW t \in Threads, Publish(t), pubs' = Append(pubs, id[tmsg[t]])
        PROVE  Len(pubs') \in Nat /\ \A n \in 1..Len(pubs) : n \in 1..Len(pubs') /\ pubs'[n] = pubs[n]
    <3>1. tmsg[t] \in Msgs /\ id[tmsg[t]] \in MsgIds
      BY <1>1, <2>2 DEF Publish, ThreadTypes, Fits, TypeOK, MsgTypes
    <3>2. /\ Len(pubs') = Len(pubs) + 1
          /\ \A n \in 1..Len(pubs) : pubs'[n] = pubs[n]
      BY <1>1, <2>2, <3>1, AppendProperties
    <3> QED
      BY <1>1, <3>2
  <2> QED
    BY <2>1, <2>2, PubsFrame
<1>3. ASSUME NEW t \in Threads, Publish(t)
      PROVE  /\ tmsg[t] \in Msgs /\ seqno'[tmsg[t]] = Len(pubs) + 1
             /\ \A x \in Msgs \ {tmsg[t]} : seqno'[x] = seqno[x]
             /\ Len(pubs') = Len(pubs) + 1 /\ pubs'[Len(pubs) + 1] = id[tmsg[t]]
  <2>1. tmsg[t] \in Msgs /\ id[tmsg[t]] \in MsgIds /\ pubs' = Append(pubs, id[tmsg[t]])
    BY <1>1, <1>3 DEF Publish, ThreadTypes, Fits, TypeOK, MsgTypes
  <2>2. Len(pubs') = Len(pubs) + 1 /\ pubs'[Len(pubs) + 1] = id[tmsg[t]]
    BY <1>1, <2>1, AppendProperties
  <2> QED
    BY <1>1, <1>3, <2>1, <2>2 DEF Publish
<1>4. ASSUME NEW m \in Msgs \ free', seqno'[m] # 0
      PROVE  /\ m \notin free /\ id'[m] = id[m]
             /\ \/ seqno'[m] = seqno[m]
                \/ \E t \in Threads : tmsg[t] = m /\ Publish(t)
  BY <1>4, MessageFrame
<1>5. ASSUME NEW m \in Msgs \ free', seqno'[m] # 0
      PROVE  seqno'[m] \in 1..Len(pubs') /\ pubs'[seqno'[m]] = id'[m]
  <2>1. CASE seqno'[m] = seqno[m]
    BY <1>2, <1>4, <1>5, <2>1 DEF NumbersRecorded
  <2>2. ASSUME NEW t \in Threads, tmsg[t] = m, Publish(t)
        PROVE  seqno'[m] \in 1..Len(pubs') /\ pubs'[seqno'[m]] = id'[m]
    BY <1>1, <1>3, <1>4, <1>5, <2>2
  <2> QED
    BY <1>4, <1>5, <2>1, <2>2
<1>6. ASSUME NEW m \in Msgs \ free', NEW x \in Msgs \ free', seqno'[m] # 0, seqno'[x] = seqno'[m]
      PROVE  x = m
  <2>1. m \notin free /\ x \notin free
    BY <1>4, <1>6
  <2>2. CASE seqno'[m] = seqno[m] /\ seqno'[x] = seqno[x]
    BY <1>6, <2>1, <2>2 DEF NumbersRecorded
  <2>3. ASSUME NEW t \in Threads, Publish(t), tmsg[t] = m \/ tmsg[t] = x
        PROVE  x = m
    <3>1. \A y \in Msgs \ free : seqno[y] # Len(pubs) + 1
      BY <1>1 DEF NumbersRecorded
    <3> QED
      BY <1>3, <1>6, <2>1, <2>3, <3>1
  <2> QED
    BY <1>4, <1>6, <2>2, <2>3
<1> QED
  BY <1>5, <1>6 DEF NumbersRecorded

(* Where a message is that s has got, and where it is on its way to s.  A  *)
(* thread that cannot go on keeps the message from those behind it.        *)
InQueue(s, m) == \E i \in 1..Len(queue[s]) : queue[s][i] = m
Serves(s, m)  == \E t \in Threads : tpc[t] \in ServeSteps /\ tmsg[t] = m /\ tsub[t] = s
Keeps(s, m)   ==
    \E t \in Threads :
        tpc[t] \in ServeSteps \ {"fput", "handle"} /\ tmsg[t] = m /\ tsub[t] = s
PutFor(s, m)  == \E t \in Threads : tpc[t] = "fput" /\ tmsg[t] = m /\ tnext[t] = s

Has(s, m)     == seqno[m] \in Logged(s) \/ InQueue(s, m) \/ Serves(s, m)
Carries(s, m) == InQueue(s, m) \/ Keeps(s, m) \/ PutFor(s, m)

Waits(m) == \E i \in 1..Len(pubFifo) : pubFifo[i] = m
ForwardedTo(s, m) ==
    PutFor(s, m) \/ \E u \in FifoSubs : Carries(u, m) /\ Wants(u, m) /\ Before(list, u, s)

Coming(s, m) == Has(s, m) \/ Waits(m) \/ (bmsg = m /\ Ahead(s)) \/ ForwardedTo(s, m)

(* A queued message stays in the queue or goes to the thread that serves   *)
(* it, which forwards it if it is a public message of a fifo subscriber.   *)
LEMMA InQueueGoesOn ==
    ASSUME TypeOK, [Next]_vars, NEW s \in Subs, NEW m \in Msgs, InQueue(s, m)
    PROVE  \/ InQueue(s, m)'
           \/ \E t \in Threads : /\ tmsg'[t] = m /\ tsub'[t] = s
                                 /\ tpc'[t] = IF Forwards(s, m) THEN "forward" ELSE "handle"
<1>1. queue[s] \in Seq(Msgs) /\ Len(queue[s]) \in Nat /\ ThreadTypes
  BY DEF TypeOK, QueueTypes
<1>2. PICK i \in 1..Len(queue[s]) : queue[s][i] = m
  BY DEF InQueue
<1>3. CASE queue'[s] = queue[s]
  BY <1>2, <1>3 DEF InQueue
<1>4. ASSUME NEW x \in Msgs, queue'[s] = Append(queue[s], x)
      PROVE  InQueue(s, m)'
  <2>1. i \in 1..Len(queue'[s]) /\ queue'[s][i] = m
    BY <1>1, <1>2, <1>4, AppendProperties
  <2> QED
    BY <2>1 DEF InQueue
<1>5. ASSUME NEW t \in Threads, Get(t, s)
      PROVE  \/ InQueue(s, m)'
             \/ /\ tmsg'[t] = m /\ tsub'[t] = s
                /\ tpc'[t] = IF Forwards(s, m) THEN "forward" ELSE "handle"
  <2>1. queue[s] # <<>> /\ queue'[s] = Tail(queue[s])
    BY <1>5 DEF Get, TypeOK, QueueTypes
  <2>2. /\ Head(queue[s]) = queue[s][1] /\ Len(queue'[s]) = Len(queue[s]) - 1
        /\ \A j \in 1..Len(queue'[s]) : queue'[s][j] = queue[s][j + 1]
    BY <1>1, <2>1, HeadTailProperties
  <2>3. CASE i = 1
    BY <1>1, <1>2, <1>5, <2>2, <2>3, GotoAt DEF Get
  <2>4. CASE i # 1
    <3>1. i - 1 \in 1..Len(queue'[s]) /\ queue'[s][i - 1] = m
      BY <1>1, <1>2, <2>2, <2>4
    <3> QED
      BY <3>1 DEF InQueue
  <2> QED
    BY <2>3, <2>4
<1> QED
  BY <1>3, <1>4, <1>5, QueueFrame

(* A handler that returns leaves its note, and no note is lost.            *)
LEMMA LogGrows ==
    ASSUME TypeOK, [Next]_vars, NEW s \in Subs
    PROVE  /\ Logged(s) \subseteq Logged(s)'
           /\ bsub = s /\ BrokerCalled => seqno[bmsg] \in Logged(s)'
           /\ \A t \in Threads :
                 tsub[t] = s /\ seqno[tmsg[t]] > 0 /\ HandlerReturns(t) => seqno[tmsg[t]] \in Logged(s)'
<1>1. log \in [Subs -> Seq(Nat)] /\ Len(log[s]) \in Nat /\ seqno \in [Msgs -> Nat]
      /\ ThreadTypes /\ BrokerTypes
  BY DEF TypeOK, HistoryTypes
<1>2. ASSUME NEW n \in Nat, log'[s] = Append(log[s], n)
      PROVE  Logged(s) \subseteq Logged(s)' /\ n \in Logged(s)'
  <2>1. /\ Len(log'[s]) = Len(log[s]) + 1 /\ log'[s][Len(log[s]) + 1] = n
        /\ \A i \in 1..Len(log[s]) : log'[s][i] = log[s][i]
    BY <1>1, <1>2, AppendProperties
  <2>2. Len(log[s]) + 1 \in 1..Len(log'[s]) /\ \A i \in 1..Len(log[s]) : i \in 1..Len(log'[s])
    BY <1>1, <2>1
  <2> QED
    BY <2>1, <2>2 DEF Logged
<1>3. ASSUME BrokerCalled
      PROVE  seqno[bmsg] \in Nat /\ (bsub = s => log'[s] = Append(log[s], seqno[bmsg]))
  BY <1>1, <1>3, NoneAssumption DEF BrokerCalled, BrokerTypes, Handled
<1>4. ASSUME NEW t \in Threads, HandlerReturns(t)
      PROVE  /\ seqno[tmsg[t]] \in Nat
             /\ tsub[t] = s /\ seqno[tmsg[t]] > 0 => log'[s] = Append(log[s], seqno[tmsg[t]])
  <2>1. tmsg[t] \in Msgs
    BY <1>1, <1>4 DEF HandlerReturns, ThreadTypes, Fits
  <2>2. seqno[tmsg[t]] > 0 => log' = [log EXCEPT ![tsub[t]] = Append(@, seqno[tmsg[t]])]
    BY <1>4 DEF HandlerReturns, Handled
  <2> QED
    BY <1>1, <2>1, <2>2
<1>5. CASE log'[s] = log[s]
  <2>1. Logged(s)' = Logged(s)
    BY <1>5 DEF Logged
  <2> QED
    BY <1>2, <1>3, <1>4, <2>1
<1>6. CASE \E n \in Nat : log'[s] = Append(log[s], n)
  BY <1>2, <1>3, <1>4, <1>6
<1> QED
  BY <1>3, <1>4, <1>5, <1>6, LogFrame

(* What a subscriber has it keeps until it has handled it.                 *)
LEMMA HasGoesOn ==
    ASSUME TypeOK, [Next]_vars, NEW s \in Subs, NEW m \in Msgs, seqno'[m] = seqno[m],
           seqno[m] # 0, Has(s, m)
    PROVE  Has(s, m)'
<1>1. ThreadTypes /\ seqno[m] \in Nat
  BY DEF TypeOK, HistoryTypes
<1>2. CASE seqno[m] \in Logged(s)
  BY <1>2, LogGrows DEF Has
<1>3. CASE InQueue(s, m)
  BY <1>3, InQueueGoesOn DEF Has, Serves, ServeSteps, ForwardSteps
<1>4. ASSUME NEW t \in Threads, tpc[t] \in ServeSteps, tmsg[t] = m, tsub[t] = s
      PROVE  Has(s, m)'
  <2>1. ASSUME tmsg'[t] = m, tsub'[t] = s, tpc'[t] \in ServeSteps
        PROVE  Has(s, m)'
    BY <2>1 DEF Has, Serves
  <2>2. CASE SameAt(t)
    BY <1>4, <2>1, <2>2 DEF SameAt
  <2>3. CASE ReadBroker(t) \/ ForwardLock(t) \/ Search(t) \/ ForwardPut(t)
    <3>1. PICK pc \in ServeSteps : \E u : Goto(t, pc, m, s, u)
      BY <1>4, <2>3 DEF ReadBroker, ForwardLock, Search, ForwardPut, ServeSteps, ForwardSteps, PutSteps
    <3> QED
      BY <1>1, <2>1, <3>1, GotoAt
  <2>4. CASE HandlerReturns(t)
    BY <1>1, <1>4, <2>4, LogGrows DEF Has
  <2> QED
    BY <1>4, <2>2, <2>3, <2>4, ServingFrame
<1> QED
  BY <1>2, <1>3, <1>4 DEF Has, Serves

(* Nobody changes the subscriptions of a subscriber that is not managed,   *)
(* and the id of a message in use stays.                                   *)
LEMMA WantsKept ==
    ASSUME TypeOK, Roles, [Next]_vars, NEW s \in Subs \ Managed, NEW m \in Msgs \ free
    PROVE  Wants(s, m)' <=> Wants(s, m)
BY ConfigFrame, MessageFrame DEF Wants

(* A message that a thread is about to put for s is put into its queue.    *)
LEMMA PutForGoesOn ==
    ASSUME TypeOK, [Next]_vars, NEW s \in Subs, NEW m, PutFor(s, m)
    PROVE  PutFor(s, m)' \/ InQueue(s, m)'
<1>1. PICK t \in Threads : tpc[t] = "fput" /\ tmsg[t] = m /\ tnext[t] = s
  BY DEF PutFor
<1>2. tpc[t] \in ServeSteps
  BY <1>1 DEF ServeSteps, ForwardSteps, PutSteps
<1>3. SameAt(t) \/ ForwardPut(t)
  BY <1>1, <1>2, ServingFrame DEF ReadBroker, ForwardLock, Search, HandlerReturns
<1>4. CASE SameAt(t)
  BY <1>1, <1>4 DEF SameAt, PutFor
<1>5. CASE ForwardPut(t)
  <2>1. m \in Msgs /\ queue[s] \in Seq(Msgs) /\ queue'[s] = Append(queue[s], m)
    BY <1>1, <1>5 DEF ForwardPut, Put, TypeOK, QueueTypes, ThreadTypes, Fits
  <2>2. Len(queue[s]) + 1 \in 1..Len(queue'[s]) /\ queue'[s][Len(queue[s]) + 1] = m
    BY <2>1, AppendProperties
  <2> QED
    BY <2>2 DEF InQueue
<1> QED
  BY <1>3, <1>4, <1>5

(* A fifo subscriber that has a public message forwards it to the next one *)
(* behind it, which is s or has s behind it.                               *)
LEMMA ForwardGoesOn ==
    ASSUME TypeOK, Roles, \A x \in Managed : RxType[x] # "fifo", [Next]_vars,
           NEW s \in Subs \ Managed, s \in ToSet(list), NEW m \in Msgs \ free, Wants(s, m),
           NEW u \in FifoSubs, Carries(u, m), Wants(u, m), Before(list, u, s)
    PROVE  ForwardedTo(s, m)'
<1>1. ThreadTypes /\ u \in Subs /\ RxType[u] = "fifo" /\ u \in Subs \ Managed
  BY DEF TypeOK, FifoSubs
<1>2. Wants(u, m)' /\ Before(list', u, s)
  BY <1>1, WantsKept, OrderOfStaying
<1>3. ASSUME Carries(u, m)'
      PROVE  ForwardedTo(s, m)'
  BY <1>2, <1>3 DEF ForwardedTo, FifoSubs
<1>4. CASE InQueue(u, m)
  <2>1. Forwards(u, m)
    BY <1>1 DEF Forwards, Wants
  <2>2. Carries(u, m)'
    BY <1>1, <1>4, <2>1, InQueueGoesOn DEF Carries, Keeps, ServeSteps, ForwardSteps
  <2> QED
    BY <1>3, <2>2
<1>5. CASE PutFor(u, m)
  BY <1>1, <1>3, <1>5, PutForGoesOn DEF Carries
<1>6. ASSUME NEW t \in Threads, tpc[t] \in ServeSteps \ {"fput", "handle"}, tmsg[t] = m, tsub[t] = u
      PROVE  ForwardedTo(s, m)'
  <2>1. SameAt(t) \/ ReadBroker(t) \/ ForwardLock(t) \/ Search(t)
    <3>1. tpc[t] \in ServeSteps /\ tpc[t] # "fput" /\ tpc[t] # "handle"
      BY <1>6
    <3>2. ~ForwardPut(t)
      BY <3>1 DEF ForwardPut
    <3>3. tpc[t] # "direct"
      BY <3>1 DEF ServeSteps, ForwardSteps, PutSteps
    <3>4. ~HandlerReturns(t)
      BY <3>1, <3>3 DEF HandlerReturns
    <3> QED
      BY <3>1, <3>2, <3>4, ServingFrame
  <2>2. ASSUME tmsg'[t] = m, tsub'[t] = u, tpc'[t] \in ServeSteps \ {"fput", "handle"}
        PROVE  ForwardedTo(s, m)'
    BY <1>3, <2>2 DEF Carries, Keeps
  <2>3. CASE SameAt(t)
    BY <1>6, <2>2, <2>3 DEF SameAt
  <2>4. CASE ReadBroker(t) \/ ForwardLock(t)
    <3>1. PICK pc \in ServeSteps \ {"fput", "handle"} : Goto(t, pc, m, u, None)
      BY <1>6, <2>4 DEF ReadBroker, ForwardLock, ServeSteps, ForwardSteps
    <3> QED
      BY <1>1, <2>2, <3>1, GotoAt
  <2>5. CASE Search(t)
    <3>1. s \in WantingBehind(u, m)
      BY DEF WantingBehind
    <3>2. PICK v \in WantingBehind(u, m) :
              /\ \A w \in WantingBehind(u, m) \ {v} : Before(list, v, w)
              /\ Goto(t, IF RxType[v] = "fifo" THEN "fput" ELSE "not a fifo", m, u, v)
      BY <1>6, <2>5, <3>1 DEF Search
    <3>3. tmsg'[t] = m /\ tsub'[t] = u /\ tnext'[t] = v
          /\ tpc'[t] = IF RxType[v] = "fifo" THEN "fput" ELSE "not a fifo"
      BY <1>1, <3>2, GotoAt
    <3>4. CASE RxType[v] # "fifo"
      <4>1. "not a fifo" \in ServeSteps \ {"fput", "handle"}
        BY DEF ServeSteps, ForwardSteps, PutSteps
      <4> QED
        BY <2>2, <3>3, <3>4, <4>1
    <3>5. CASE RxType[v] = "fifo"
      <4>1. PutFor(v, m)'
        BY <3>3, <3>5 DEF PutFor
      <4>2. CASE v = s
        BY <4>1, <4>2 DEF ForwardedTo
      <4>3. CASE v # s
        <5>1. v \in Subs \ Managed /\ v \in FifoSubs /\ Wants(v, m)
          BY <3>5 DEF WantingBehind, FifoSubs, TypeOK, ListTypes, ToSet
        <5>2. Wants(v, m)' /\ Before(list', v, s)
          BY <3>1, <3>2, <4>3, <5>1, WantsKept, OrderOfStaying
        <5> QED
          BY <4>1, <5>1, <5>2 DEF ForwardedTo, Carries
      <4> QED
        BY <4>2, <4>3
    <3> QED
      BY <3>4, <3>5
  <2> QED
    BY <2>1, <2>3, <2>4, <2>5
<1> QED
  BY <1>4, <1>5, <1>6 DEF Carries, Keeps

(* The broker takes the messages one by one from the fifo.                 *)
LEMMA WaitsGoesOn ==
    ASSUME TypeOK, [Next]_vars, NEW m, Waits(m)
    PROVE  Waits(m)' \/ (bmsg' = m /\ bpc' = "lock")
<1>1. pubFifo \in Seq(Msgs) /\ Len(pubFifo) \in Nat
  BY DEF TypeOK, QueueTypes
<1>2. PICK i \in 1..Len(pubFifo) : pubFifo[i] = m
  BY DEF Waits
<1>3. CASE pubFifo' = pubFifo
  BY <1>2, <1>3 DEF Waits
<1>4. CASE \E x : pubFifo' = Append(pubFifo, x)
  <2>1. i \in 1..Len(pubFifo') /\ pubFifo'[i] = m
    BY <1>1, <1>2, <1>4, AppendProperties
  <2> QED
    BY <2>1 DEF Waits
<1>5. CASE BrokerGet /\ pubFifo # <<>>
  <2>1. bmsg' = Head(pubFifo) /\ pubFifo' = Tail(pubFifo) /\ bpc' = "lock"
    BY <1>5 DEF BrokerGet
  <2>2. /\ Head(pubFifo) = pubFifo[1] /\ Len(pubFifo') = Len(pubFifo) - 1
        /\ \A j \in 1..Len(pubFifo') : pubFifo'[j] = pubFifo[j + 1]
    BY <1>1, <1>5, <2>1, HeadTailProperties
  <2>3. CASE i = 1
    BY <1>2, <2>1, <2>2, <2>3
  <2>4. CASE i # 1
    <3>1. i - 1 \in 1..Len(pubFifo') /\ pubFifo'[i - 1] = m
      BY <1>1, <1>2, <2>2, <2>4
    <3> QED
      BY <3>1 DEF Waits
  <2> QED
    BY <2>3, <2>4
<1> QED
  BY <1>3, <1>4, <1>5, PubFifoFrame

(* The broker puts into a fifo only what its subscriber wants.             *)
PutIsWanted == bpc = "put" /\ RxType[bsub] = "fifo" => Wants(bsub, bmsg)

(* The broker goes to the put from the visit that found the message        *)
(* wanted.                                                                 *)
LEMMA NextPutIsWanted ==
    ASSUME TypeOK, Roles, AllCounted, \A x \in Managed : RxType[x] # "fifo", PutIsWanted, [Next]_vars
    PROVE  PutIsWanted'
<1>1. BrokerTypes
  BY DEF TypeOK
<1>2. CASE UNCHANGED brokerVars
  <2>1. ASSUME bpc = "put", RxType[bsub] = "fifo"
        PROVE  Wants(bsub, bmsg)'
    <3>1. bmsg \in Msgs /\ bsub \in Subs \ Managed
      BY <1>1, <2>1 DEF BrokerTypes
    <3>2. bmsg \in Msgs \ free
      BY <3>1, FreeUnheld
    <3>3. Wants(bsub, bmsg) /\ bsub' = bsub /\ bmsg' = bmsg
      BY <1>2, <2>1 DEF PutIsWanted, brokerVars
    <3>4. \A m \in Msgs \ free : Wants(bsub, m) => id'[m] <= MaxPubId[bsub] /\ id'[m] \in subscribed'[bsub]
      BY <3>1, WantsKept DEF Wants
    <3> QED
      BY <3>2, <3>3, <3>4 DEF Wants
  <2> QED
    BY <1>2, <2>1 DEF PutIsWanted, brokerVars
<1>3. CASE BrokerVisit
  BY <1>3 DEF BrokerVisit, PutIsWanted, Wants, configVars
<1>4. CASE BrokerStep /\ ~BrokerVisit
  BY <1>4 DEF BrokerStep, BrokerGet, BrokerLock, BrokerCalled, BrokerPut, BrokerUnlock,
              BrokerRelease, BrokerSubmit, Submitted, PutIsWanted
<1> QED
  BY <1>2, <1>3, <1>4, BrokerFrame DEF PutIsWanted

(* The walk goes on to the next subscriber, so whoever was ahead is still  *)
(* ahead or is the next.                                                   *)
LEMMA WalkGoesTo ==
    ASSUME TypeOK, WalksUnderLock, NoRepeats(list), NEW s, bpc \in {"visit", "call", "put"},
           Ahead(s), s # bsub, bpc' = "visit", Advance(bnext), list' = list
    PROVE  Ahead(s)'
<1>1. list \in Seq(Subs) /\ bnext = NextOf(list, bsub) /\ Before(list, bsub, s)
  BY DEF TypeOK, ListTypes, WalksUnderLock, WalkInList, Ahead
<1>2. bnext # None /\ (s = bnext \/ Before(list, bnext, s))
  BY <1>1, NextOfIsNearest
<1> QED
  BY <1>2 DEF Advance, Ahead

(* A message the broker walks with gets to s: by the broker itself, or by  *)
(* the fifo subscriber where the walk ends.                                *)
LEMMA WalkReaches ==
    ASSUME TypeOK, WalksUnderLock, Roles, NoRepeats(list), PutIsWanted, [Next]_vars,
           NEW s \in ToSet(list), NEW m \in Msgs \ free, seqno'[m] = seqno[m], Wants(s, m),
           bmsg = m, Ahead(s)
    PROVE  (bmsg' = m /\ Ahead(s)') \/ Has(s, m)' \/ ForwardedTo(s, m)'
<1>1. /\ list \in Seq(Subs) /\ queue \in [Subs -> Seq(Msgs)] /\ s \in Subs /\ bsub \in Subs \cup {None}
  BY DEF TypeOK, ListTypes, QueueTypes, BrokerTypes, ToSet
<1>2. CASE UNCHANGED brokerVars
  <2>1. CASE bpc = "lock"
    BY <1>2, <2>1 DEF Ahead, brokerVars
  <2>2. CASE bpc # "lock"
    <3>1. bpc \in WalkSteps
      BY <2>2 DEF Ahead, WalkSteps
    <3>2. list' = list
      BY <3>1, NobodyWalks, ConfigFrame
    <3> QED
      BY <1>2, <2>2, <3>2 DEF Ahead, brokerVars
  <2> QED
    BY <2>1, <2>2
<1>3. CASE BrokerLock
  <2>1. HeadOf(list) # None /\ (s = HeadOf(list) \/ Before(list, HeadOf(list), s))
    BY <1>1, HeadIsFirst
  <2> QED
    BY <1>3, <2>1 DEF BrokerLock, Advance, Ahead, configVars
<1>4. CASE BrokerVisit
  <2>1. list' = list /\ bmsg' = m /\ bsub # None /\ bpc = "visit"
    BY <1>4 DEF BrokerVisit, Ahead, configVars
  <2>2. CASE Advance(bnext) /\ bpc' = bpc /\ ~Wants(bsub, m)
    BY <2>1, <2>2, WalkGoesTo
  <2>3. CASE bpc' \in {"call", "put"} /\ bsub' = bsub
    BY <2>1, <2>3 DEF Ahead
  <2> QED
    BY <1>4, <2>1, <2>2, <2>3 DEF BrokerVisit
<1>5. CASE BrokerCalled
  <2>1. list' = list /\ bmsg' = m /\ bsub # None /\ bpc = "call" /\ bpc' = "visit" /\ Advance(bnext)
    BY <1>5 DEF BrokerCalled, Ahead, configVars
  <2>2. CASE s = bsub
    BY <1>1, <1>5, <2>2, LogGrows DEF Has
  <2>3. CASE s # bsub
    BY <2>1, <2>3, WalkGoesTo
  <2> QED
    BY <2>2, <2>3
<1>6. CASE BrokerPut
  <2>1. /\ list' = list /\ bmsg' = m /\ bsub \in Subs /\ bpc = "put"
        /\ queue'[bsub] = Append(queue[bsub], m)
    BY <1>1, <1>6 DEF BrokerPut, Ahead, configVars, Put
  <2>2. ASSUME NEW u \in Subs, u = bsub
        PROVE  InQueue(u, m)'
    <3>1. Len(queue[u]) + 1 \in 1..Len(queue'[u]) /\ queue'[u][Len(queue[u]) + 1] = m
      BY <1>1, <2>1, <2>2, AppendProperties
    <3> QED
      BY <3>1 DEF InQueue
  <2>3. CASE s = bsub
    BY <1>1, <2>2, <2>3 DEF Has
  <2>4. CASE s # bsub /\ ~FifoSubHandled(bsub)
    BY <1>6, <2>1, <2>4, WalkGoesTo DEF BrokerPut
  <2>5. ASSUME NEW u \in Subs, u = bsub, s # u, RxType[u] = "fifo"
        PROVE  ForwardedTo(s, m)'
    <3>1. InQueue(u, m)'
      BY <2>2, <2>5
    <3>2. Wants(u, m)'
      BY <1>6, <2>1, <2>5 DEF BrokerPut, PutIsWanted, Wants, msgVars, configVars
    <3>3. Before(list', u, s)
      BY <2>1, <2>5 DEF Ahead
    <3> QED
      BY <2>5, <3>1, <3>2, <3>3 DEF ForwardedTo, Carries, FifoSubs
  <2> QED
    BY <2>1, <2>3, <2>4, <2>5 DEF FifoSubHandled
<1> QED
  BY <1>2, <1>3, <1>4, <1>5, <1>6, BrokerFrame
     DEF BrokerStep, BrokerGet, BrokerUnlock, BrokerRelease, BrokerSubmit, Ahead

(* What s has yet to handle or has handled, of the messages in use.        *)
Due(s, m) == m \notin free /\ seqno[m] # 0 /\ id[m] \in InitSubscribed[s]

MissesNothing == \A s \in Staying : \A m \in Msgs : Due(s, m) => Coming(s, m)

(* What is due to a staying subscriber it still wants.                     *)
LEMMA StayingWant ==
    ASSUME TypeOK, SettingsKept, NEW s \in Staying
    PROVE  /\ s \in Subs \ Managed /\ s \in ToSet(list)
           /\ \A m \in Msgs : Due(s, m) => Wants(s, m)
<1>1. s \in Subs \ Managed /\ s \in ToSet(list)
  BY InitAssumption DEF Staying, SettingsKept, TypeOK, ListTypes, ToSet
<1> QED
  BY <1>1, InitAssumption DEF SettingsKept, Due, Wants

(* A message that was coming to s is still coming, wherever it is: each    *)
(* stage of its way leads to the next one and none loses it.               *)
LEMMA NextComing ==
    ASSUME TypeOK, Roles, WalksUnderLock, Owned, NoRepeats(list), SettingsKept, PutIsWanted,
           \A x \in Managed : RxType[x] # "fifo", [Next]_vars,
           NEW s \in Staying, NEW m \in Msgs, Due(s, m) => Coming(s, m), Due(s, m)'
    PROVE  Coming(s, m)'
<1>1. m \notin free /\ id'[m] = id[m]
  BY MessageFrame DEF Due
<1>2. CASE \E t \in Threads : tmsg[t] = m /\ Publish(t)
  <2>1. pubFifo \in Seq(Msgs) /\ pubFifo' = Append(pubFifo, m)
    BY <1>2 DEF Publish, PubFifoPut, TypeOK, QueueTypes
  <2>2. Len(pubFifo) + 1 \in 1..Len(pubFifo') /\ pubFifo'[Len(pubFifo) + 1] = m
    BY <2>1, AppendProperties
  <2> QED
    BY <2>2 DEF Coming, Waits
<1>3. CASE seqno'[m] = seqno[m]
  <2>1. Due(s, m) /\ seqno[m] # 0 /\ Coming(s, m)
    BY <1>1, <1>3 DEF Due
  <2>2. s \in Subs \ Managed /\ s \in ToSet(list) /\ Wants(s, m) /\ m \in Msgs \ free
    BY <1>1, <2>1, StayingWant
  <2>3. CASE Has(s, m)
    BY <1>3, <2>1, <2>2, <2>3, HasGoesOn DEF Coming
  <2>4. CASE Waits(m)
    BY <2>4, WaitsGoesOn DEF Coming, Ahead
  <2>5. CASE bmsg = m /\ Ahead(s)
    BY <1>3, <2>2, <2>5, WalkReaches DEF Coming
  <2>6. CASE PutFor(s, m)
    BY <2>2, <2>6, PutForGoesOn DEF Coming, ForwardedTo, Has
  <2>7. ASSUME NEW u \in FifoSubs, Carries(u, m), Wants(u, m), Before(list, u, s)
        PROVE  Coming(s, m)'
    BY <2>2, <2>7, ForwardGoesOn DEF Coming
  <2> QED
    BY <2>1, <2>3, <2>4, <2>5, <2>6, <2>7 DEF Coming, ForwardedTo
<1> QED
  BY <1>1, <1>2, <1>3, MessageFrame

(* Whoever holds the last reference is past every queue and every walk, so *)
(* all that was to come has come.                                          *)
LEMMA HandledBeforeFreed ==
    ASSUME TypeOK, AllCounted, Owned, [Next]_vars, NEW s \in Subs, NEW m \in free' \ free,
           seqno[m] # 0, Coming(s, m)
    PROVE  seqno[m] \in Logged(s)'
<1>1. m \in Msgs /\ ref[m] = 1 /\ seqno[m] \in Nat
  BY FreedFrame DEF TypeOK, HistoryTypes
<1>2. CASE seqno[m] \in Logged(s)
  BY <1>2, LogGrows
<1>3. CASE BrokerRelease /\ bmsg = m
  <2>1. ~InQueue(s, m) /\ ~Waits(m) /\ ~Ahead(s) /\ \A u \in FifoSubs : ~InQueue(u, m)
    BY <1>1, <1>3, LastHolder DEF InQueue, Waits, Ahead, BrokerRelease, FifoSubs
  <2>2. \A t \in Threads : tmsg[t] # m
    BY <1>1, <1>3, LastHolder
  <2>3. seqno[m] \in Logged(s)
    BY <2>1, <2>2 DEF Coming, Has, ForwardedTo, Carries, PutFor, Keeps, Serves
  <2> QED
    BY <1>2, <2>3
<1>4. ASSUME NEW u \in Subs, m \in retained[u]
      PROVE  seqno[m] \in Logged(s)'
  <2>1. ~InQueue(s, m) /\ ~Waits(m) /\ bmsg # m /\ \A v \in FifoSubs : ~InQueue(v, m)
    BY <1>1, <1>4, LastHolder DEF InQueue, Waits, FifoSubs
  <2>2. \A t \in Threads : tmsg[t] # m
    BY <1>1, <1>4, LastHolder
  <2>3. seqno[m] \in Logged(s)
    BY <2>1, <2>2 DEF Coming, Has, ForwardedTo, Carries, PutFor, Keeps, Serves
  <2> QED
    BY <1>2, <2>3
<1>5. ASSUME NEW t \in Threads, tmsg[t] = m, HandlerReturns(t) \/ Discard(t)
      PROVE  seqno[m] \in Logged(s)'
  <2>1. tpc[t] = "handle" /\ HandlerReturns(t)
    BY <1>5 DEF HandlerReturns, Discard, Owned, Unnumbered
  <2>2. ~InQueue(s, m) /\ ~Waits(m) /\ bmsg # m /\ \A v \in FifoSubs : ~InQueue(v, m)
    BY <1>1, <1>5, OwnerAlone DEF InQueue, Waits, FifoSubs
  <2>3. \A u \in Threads : tmsg[u] = m => u = t
    BY <1>1, <1>5, OwnerAlone
  <2>4. seqno[m] \in Logged(s) \/ tsub[t] = s
    BY <2>1, <2>2, <2>3 DEF Coming, Has, ForwardedTo, Carries, PutFor, Keeps, Serves
  <2> QED
    BY <1>1, <1>2, <1>5, <2>1, <2>4, LogGrows
<1> QED
  BY <1>3, <1>4, <1>5, FreedFrame

(* When a message is reclaimed all those it was due to have handled it.    *)
LEMMA NextMissesNothing ==
    ASSUME TypeOK, AllCounted, Owned, SettingsKept, SettingsKept', NumbersRecorded, MissesNothing,
           OthersMissNothing, [Next]_vars
    PROVE  OthersMissNothing'
<1>1. /\ pubs \in Seq(MsgIds) /\ Len(pubs) \in Nat /\ seqno \in [Msgs -> Nat]
      /\ Staying \subseteq Subs /\ ThreadTypes /\ free \subseteq Msgs
  BY InitAssumption DEF TypeOK, MsgTypes, HistoryTypes, Staying, ToSet
<1>2. \A s \in Staying : subscribed[s] = InitSubscribed[s] /\ subscribed'[s] = InitSubscribed[s]
  BY <1>1 DEF SettingsKept, Staying
<1>3. ASSUME NEW s \in Subs
      PROVE  ToSet(log[s]) = Logged(s) /\ ToSet(log'[s]) = Logged(s)'
  BY DEF ToSet, Logged
<1>4. ASSUME NEW n \in 1..Len(pubs), pubs'[n] = pubs[n]
      PROVE  \/ Live(n)'
             \/ \A s \in Staying : pubs'[n] \in subscribed'[s] => n \in Logged(s)'
  <2>1. CASE ~Live(n)
    <3>1. \A s \in Staying : pubs[n] \in subscribed[s] => n \in ToSet(log[s])
      BY <2>1 DEF OthersMissNothing, Staying, HandledBy
    <3> QED
      BY <1>1, <1>2, <1>3, <1>4, <3>1, LogGrows
  <2>2. ASSUME NEW m \in Msgs \ free, seqno[m] = n
        PROVE  \/ Live(n)'
               \/ \A s \in Staying : pubs'[n] \in subscribed'[s] => n \in Logged(s)'
    <3>1. \A t \in Threads : tmsg[t] = m => ~Publish(t)
      BY <1>1, <2>2 DEF Publish, Owned, Unnumbered
    <3>2. seqno'[m] = n
      BY <2>2, <3>1, MessageFrame
    <3>3. CASE m \notin free'
      BY <3>2, <3>3 DEF Live
    <3>4. ASSUME m \in free', NEW s \in Staying, pubs'[n] \in subscribed'[s]
          PROVE  n \in Logged(s)'
      <4>1. pubs[n] = id[m] /\ seqno[m] # 0
        BY <2>2 DEF NumbersRecorded
      <4>2. Due(s, m)
        BY <1>2, <1>4, <2>2, <3>4, <4>1 DEF Due
      <4> QED
        BY <1>1, <2>2, <3>4, <4>1, <4>2, HandledBeforeFreed DEF MissesNothing
    <3> QED
      BY <3>3, <3>4
  <2> QED
    BY <2>1, <2>2 DEF Live
<1>5. ASSUME NEW n \in 1..Len(pubs')
      PROVE  \/ Live(n)'
             \/ \A s \in Staying : pubs'[n] \in subscribed'[s] => n \in Logged(s)'
  <2>1. CASE pubs' = pubs
    BY <1>4, <1>5, <2>1
  <2>2. ASSUME NEW t \in Threads, Publish(t), pubs' = Append(pubs, id[tmsg[t]])
        PROVE  \/ Live(n)'
               \/ \A s \in Staying : pubs'[n] \in subscribed'[s] => n \in Logged(s)'
    <3>1. tmsg[t] \in Msgs \ free /\ id[tmsg[t]] \in MsgIds
      BY <1>1, <2>2, FreeUnheld DEF Publish, ThreadTypes, Fits, TypeOK, MsgTypes
    <3>2. /\ Len(pubs') = Len(pubs) + 1
          /\ \A k \in 1..Len(pubs) : pubs'[k] = pubs[k]
      BY <1>1, <2>2, <3>1, AppendProperties
    <3>3. CASE n \in 1..Len(pubs)
      BY <1>4, <3>2, <3>3
    <3>4. CASE n = Len(pubs) + 1
      BY <1>1, <2>2, <3>1, <3>4 DEF Publish, Live, msgVars
    <3> QED
      BY <1>1, <1>5, <3>2, <3>3, <3>4
  <2> QED
    BY <2>1, <2>2, PubsFrame
<1>6. ASSUME NEW n \in 1..Len(pubs'), ~Live(n)', NEW s \in Staying, pubs'[n] \in subscribed'[s]
      PROVE  s \in HandledBy(n)'
  <2>1. n \in ToSet(log'[s])
    BY <1>1, <1>3, <1>5, <1>6
  <2> QED
    BY <1>1, <2>1 DEF HandledBy
<1> QED
  BY <1>6 DEF OthersMissNothing, Staying

NothingMissed == SettingsKept /\ NumbersRecorded /\ PutIsWanted /\ MissesNothing /\ OthersMissNothing

(* At first nothing has been published.                                    *)
LEMMA InitNothingMissed ==
    ASSUME Init
    PROVE  NothingMissed
<1>1. SettingsKept
  BY DEF Init, SettingsKept, Staying
<1>2. PutIsWanted /\ NumbersRecorded /\ MissesNothing
  BY DEF Init, PutIsWanted, NumbersRecorded, MissesNothing, Due
<1>3. OthersMissNothing
  BY DEF Init, OthersMissNothing
<1> QED
  BY <1>1, <1>2, <1>3 DEF NothingMissed

(* All of this together is inductive.                                      *)
LEMMA NothingIsMissed ==
    ASSUME \A x \in Managed : RxType[x] # "fifo"
    PROVE  Spec /\ []OneAtATime => []NothingMissed
<1>1. Configured => NoRepeats(list)
  BY DEF Configured
<1>2. TypeOK /\ Roles /\ WalksUnderLock /\ AllCounted /\ Owned /\ NoRepeats(list)
      /\ NothingMissed /\ [Next]_vars => NothingMissed'
  <2> SUFFICES ASSUME TypeOK, Roles, WalksUnderLock, AllCounted, Owned, NoRepeats(list),
                      NothingMissed, [Next]_vars
               PROVE  NothingMissed'
    OBVIOUS
  <2>1. SettingsKept /\ NumbersRecorded /\ PutIsWanted /\ MissesNothing /\ OthersMissNothing
    BY DEF NothingMissed
  <2>2. SettingsKept' /\ NumbersRecorded' /\ PutIsWanted'
    BY <2>1, NextSettings, NextRecorded, NextPutIsWanted
  <2>3. ASSUME NEW s \in Staying, NEW m \in Msgs, Due(s, m)'
        PROVE  Coming(s, m)'
    BY <2>1, <2>3, NextComing DEF MissesNothing
  <2>4. MissesNothing'
    BY <2>3 DEF MissesNothing, Staying
  <2>5. OthersMissNothing'
    BY <2>1, <2>2, NextMissesNothing
  <2> QED
    BY <2>2, <2>4, <2>5 DEF NothingMissed
<1> QED
  BY <1>1, <1>2, InitNothingMissed, TypeCorrect, RolesKept, LockDiscipline, CountsHold,
     OwnerHasItAlone, ListAgreesWithBroker, PTL DEF Spec

(* A subscriber that nobody reconfigures has handled every publication it  *)
(* is subscribed to before the message is reclaimed, however others are    *)
(* added, removed, subscribed and unsubscribed meanwhile, in whatever      *)
(* order the broker, the threads and the forwarding subscribers act.  The  *)
(* others may not be fifo subscribers: one that is removed with messages   *)
(* in its queue does not forward them any more (run remove_fifo).          *)
THEOREM NobodyElseMisses ==
    ASSUME \A x \in Managed : RxType[x] # "fifo"
    PROVE  Spec /\ []OneAtATime => []OthersMissNothing
<1>1. Spec /\ []OneAtATime => []NothingMissed
  BY NothingIsMissed
<1>2. NothingMissed => OthersMissNothing
  BY DEF NothingMissed
<1> QED
  BY <1>1, <1>2, PTL
-----------------------------------------------------------------------------
(* In which order a publication gets to its subscribers.                   *)

(* A message is at one place from which it goes on: in the broker's fifo,  *)
(* with the broker on its walk, in a fifo subscriber's queue or with the   *)
(* thread that forwards it.                                                *)
LEMMA OneClaim ==
    ASSUME TypeOK, AllCounted, NEW m \in Msgs
    PROVE  /\ bmsg = m /\ bpc \in {"lock", "visit", "call", "put"} =>
                  /\ ~Waits(m) /\ \A x \in FifoSubs : ~InQueue(x, m)
                  /\ \A t \in Threads : tmsg[t] = m => tpc[t] = "handle"
           /\ \A t \in Threads :
                  tmsg[t] = m /\ tpc[t] # "handle" =>
                      /\ ~Waits(m) /\ \A x \in FifoSubs : ~InQueue(x, m)
                      /\ \A u \in Threads \ {t} : tmsg[u] = m => tpc[u] = "handle"
                      /\ ~(bmsg = m /\ bpc \in {"lock", "visit", "call", "put"})
<1>1. Counted(m) /\ Finite(m)
  BY DEF AllCounted, Counted
<1>2. /\ InFifo(m) \in Nat /\ InQueues(FifoSubs, m) \in Nat /\ By(LinkSteps, m) \in Nat
      /\ LinkedByBroker(m) \in Nat
  BY <1>1, CountsNat DEF LinkedByBroker
<1>3. InFifo(m) + InQueues(FifoSubs, m) + By(LinkSteps, m) + LinkedByBroker(m) <= 1
  BY <1>1 DEF Counted, Claims
<1>4. FifoSubs \subseteq Subs /\ LinkSteps \subseteq ThreadSteps
  BY DEF FifoSubs, LinkSteps
<1>5. IsFiniteSet(Entries(queue, FifoSubs, m)) /\ IsFiniteSet(AtHand(LinkSteps, m))
  <2>1. Entries(queue, FifoSubs, m) \subseteq Entries(queue, Subs, m)
    BY <1>4 DEF Entries
  <2>2. AtHand(LinkSteps, m) \subseteq AtHand(ThreadSteps, m)
    BY <1>4 DEF AtHand
  <2> QED
    BY <1>1, <2>1, <2>2, FS_Subset DEF Finite
<1>6. InFifo(m) = 0 => ~Waits(m)
  <2>1. InFifo(m) = 0 => InSeq(pubFifo, m) = {}
    BY InSeqFinite, FS_EmptySet DEF InFifo, TypeOK, QueueTypes
  <2> QED
    BY <2>1 DEF InSeq, Waits
<1>7. InQueues(FifoSubs, m) = 0 => \A x \in FifoSubs : ~InQueue(x, m)
  <2>1. InQueues(FifoSubs, m) = 0 => Entries(queue, FifoSubs, m) = {}
    BY <1>5, FS_EmptySet DEF InQueues
  <2>2. \A x \in FifoSubs : \A i \in 1..Len(queue[x]) :
            queue[x][i] = m => <<x, i>> \in Entries(queue, FifoSubs, m)
    BY DEF Entries, InSeq
  <2> QED
    BY <2>1, <2>2 DEF InQueue
<1>8. \A t \in Threads : tmsg[t] = m /\ tpc[t] # "handle" => t \in AtHand(LinkSteps, m)
  BY DEF AtHand, LinkSteps, TypeOK, ThreadTypes
<1>9. By(LinkSteps, m) = 0 => AtHand(LinkSteps, m) = {}
  BY <1>5, FS_EmptySet DEF By
<1>10. ASSUME NEW t \in AtHand(LinkSteps, m)
       PROVE  By(LinkSteps, m) # 0 /\ (By(LinkSteps, m) = 1 => AtHand(LinkSteps, m) = {t})
  <2>1. By(LinkSteps, m) # 0
    BY <1>5, <1>10, FS_EmptySet DEF By
  <2>2. /\ IsFiniteSet(AtHand(LinkSteps, m) \ {t})
        /\ Cardinality(AtHand(LinkSteps, m) \ {t}) = By(LinkSteps, m) - 1
    BY <1>5, <1>10, FS_RemoveElement DEF By
  <2>3. By(LinkSteps, m) = 1 => AtHand(LinkSteps, m) \ {t} = {}
    BY <2>2, FS_EmptySet
  <2> QED
    BY <1>10, <2>1, <2>3
<1>11. ASSUME bmsg = m, bpc \in {"lock", "visit", "call", "put"}
       PROVE  /\ ~Waits(m) /\ \A x \in FifoSubs : ~InQueue(x, m)
              /\ \A t \in Threads : tmsg[t] = m => tpc[t] = "handle"
  <2>1. LinkedByBroker(m) = 1
    BY <1>11 DEF LinkedByBroker
  <2>2. InFifo(m) = 0 /\ InQueues(FifoSubs, m) = 0 /\ By(LinkSteps, m) = 0
    BY <1>2, <1>3, <2>1
  <2> QED
    BY <1>6, <1>7, <1>8, <1>9, <2>2
<1>12. ASSUME NEW t \in Threads, tmsg[t] = m, tpc[t] # "handle"
       PROVE  /\ ~Waits(m) /\ \A x \in FifoSubs : ~InQueue(x, m)
              /\ \A u \in Threads \ {t} : tmsg[u] = m => tpc[u] = "handle"
              /\ ~(bmsg = m /\ bpc \in {"lock", "visit", "call", "put"})
  <2>1. t \in AtHand(LinkSteps, m)
    BY <1>8, <1>12
  <2>2. By(LinkSteps, m) # 0
    BY <1>10, <2>1
  <2>3. /\ InFifo(m) = 0 /\ InQueues(FifoSubs, m) = 0 /\ By(LinkSteps, m) = 1
        /\ LinkedByBroker(m) = 0
    <3>1. By(LinkSteps, m) >= 1
      BY <1>2, <2>2
    <3> QED
      BY <1>2, <1>3, <3>1
  <2>4. AtHand(LinkSteps, m) = {t}
    BY <1>10, <2>1, <2>3
  <2>5. ~(bmsg = m /\ bpc \in {"lock", "visit", "call", "put"})
    BY <2>3 DEF LinkedByBroker
  <2> QED
    BY <1>6, <1>7, <1>8, <2>3, <2>4, <2>5
<1> QED
  BY <1>11, <1>12

(* What is handled has been published.                                     *)
LoggedArePublished == \A s \in Subs : \A n \in Logged(s) : n <= Len(pubs)

(* A handler notes the number of a message in use, which has been given.   *)
LEMMA NextLogged ==
    ASSUME TypeOK, AllCounted, NumbersRecorded, LoggedArePublished, [Next]_vars
    PROVE  LoggedArePublished'
<1>1. /\ Len(pubs) \in Nat /\ seqno \in [Msgs -> Nat] /\ pubs \in Seq(MsgIds)
      /\ log \in [Subs -> Seq(Nat)] /\ BrokerTypes /\ ThreadTypes
  BY DEF TypeOK, HistoryTypes
<1>2. Len(pubs') \in Nat /\ Len(pubs) <= Len(pubs')
  <2>1. ASSUME NEW t \in Threads, Publish(t), pubs' = Append(pubs, id[tmsg[t]])
        PROVE  Len(pubs') = Len(pubs) + 1
    <3>1. tmsg[t] \in Msgs /\ id[tmsg[t]] \in MsgIds
      BY <1>1, <2>1 DEF Publish, ThreadTypes, Fits, TypeOK, MsgTypes
    <3> QED
      BY <1>1, <2>1, <3>1, AppendProperties
  <2> QED
    BY <1>1, <2>1, PubsFrame
<1>3. \A m \in Msgs \ free : seqno[m] \in Nat /\ seqno[m] <= Len(pubs)
  BY <1>1 DEF NumbersRecorded
<1>4. ASSUME NEW s \in Subs, NEW n \in Logged(s)'
      PROVE  n \in Nat /\ n <= Len(pubs)
  <2>1. log[s] \in Seq(Nat) /\ \A k \in Logged(s) : k \in Nat /\ k <= Len(pubs)
    BY <1>1 DEF LoggedArePublished, Logged
  <2>2. ASSUME NEW m \in Msgs \ free, log'[s] = Append(log[s], seqno[m])
        PROVE  n \in Nat /\ n <= Len(pubs)
    <3>1. n \in Logged(s) \/ n = seqno[m]
      <4>1. seqno[m] \in Nat
        BY <1>1
      <4>2. /\ Len(log'[s]) = Len(log[s]) + 1 /\ log'[s][Len(log[s]) + 1] = seqno[m]
            /\ \A i \in 1..Len(log[s]) : log'[s][i] = log[s][i]
        BY <2>1, <2>2, <4>1, AppendProperties
      <4> QED
        BY <1>4, <2>1, <4>2 DEF Logged
    <3> QED
      BY <1>3, <2>1, <2>2, <3>1
  <2>3. CASE log'[s] = log[s]
    BY <1>4, <2>1, <2>3 DEF Logged
  <2>4. ASSUME BrokerCalled, log'[s] = Append(log[s], seqno[bmsg])
        PROVE  n \in Nat /\ n <= Len(pubs)
    <3>1. bmsg \in Msgs \ free
      BY <1>1, <2>4, FreeUnheld DEF BrokerCalled, BrokerTypes
    <3> QED
      BY <2>2, <2>4, <3>1
  <2>5. ASSUME NEW t \in Threads, HandlerReturns(t), log'[s] = Append(log[s], seqno[tmsg[t]])
        PROVE  n \in Nat /\ n <= Len(pubs)
    <3>1. tmsg[t] \in Msgs \ free
      BY <1>1, <2>5, FreeUnheld DEF HandlerReturns, ThreadTypes, Fits
    <3> QED
      BY <2>2, <2>5, <3>1
  <2> QED
    BY <2>3, <2>4, <2>5, LogFrame
<1>5. ASSUME NEW s \in Subs, NEW n \in Logged(s)'
      PROVE  n <= Len(pubs')
  BY <1>1, <1>2, <1>4, <1>5
<1> QED
  BY <1>5 DEF LoggedArePublished

(* The message is still to come to u: the broker or somebody ahead of u    *)
(* has it to pass it on.                                                   *)
PassesBy(t, u) ==
    IF tpc[t] = "fput" THEN u = tnext[t] \/ Before(list, tnext[t], u)
                       ELSE Before(list, tsub[t], u)

AwaitsBroker(u, m) == bmsg = m /\ Ahead(u) /\ ~(bpc = "call" /\ bsub = u)
AwaitsQueue(u, m)  == \E x \in FifoSubs : InQueue(x, m) /\ Before(list, x, u)
AwaitsThread(u, m) == \E t \in Threads : tpc[t] # "handle" /\ tmsg[t] = m /\ PassesBy(t, u)

Pending(u, m) == Waits(m) \/ AwaitsBroker(u, m) \/ AwaitsQueue(u, m) \/ AwaitsThread(u, m)

(* Nobody has got a message that is still to come to it.                   *)
Fresh ==
    \A m \in Msgs \ free :
        seqno[m] # 0 => \A u \in Subs : Pending(u, m) => ~Received(u, seqno[m])

(* The order in which the broker's fifo is emptied does not matter here:   *)
(* a message that waits was waiting, or is published now.                  *)
LEMMA WaitsSince ==
    ASSUME TypeOK, [Next]_vars, NEW m \in Msgs, \A t \in Threads : tmsg[t] = m => ~Publish(t),
           Waits(m)'
    PROVE  Waits(m)
<1>1. pubFifo \in Seq(Msgs) /\ Len(pubFifo) \in Nat
  BY DEF TypeOK, QueueTypes
<1>2. PICK i \in 1..Len(pubFifo') : pubFifo'[i] = m
  BY DEF Waits
<1>3. CASE pubFifo' = pubFifo
  BY <1>2, <1>3 DEF Waits
<1>4. ASSUME NEW t \in Threads, Publish(t), pubFifo' = Append(pubFifo, tmsg[t])
      PROVE  Waits(m)
  <2>1. tmsg[t] \in Msgs /\ tmsg[t] # m
    BY <1>4 DEF Publish, TypeOK, ThreadTypes, Fits
  <2>2. /\ Len(pubFifo') = Len(pubFifo) + 1 /\ pubFifo'[Len(pubFifo) + 1] = tmsg[t]
        /\ \A j \in 1..Len(pubFifo) : pubFifo'[j] = pubFifo[j]
    BY <1>1, <1>4, <2>1, AppendProperties
  <2>3. i \in 1..Len(pubFifo) /\ pubFifo[i] = m
    BY <1>1, <1>2, <2>1, <2>2
  <2> QED
    BY <2>3 DEF Waits
<1>5. CASE BrokerGet /\ pubFifo # <<>>
  <2>1. pubFifo' = Tail(pubFifo)
    BY <1>5 DEF BrokerGet
  <2>2. /\ Len(pubFifo') = Len(pubFifo) - 1
        /\ \A j \in 1..Len(pubFifo') : pubFifo'[j] = pubFifo[j + 1]
    BY <1>1, <1>5, <2>1, HeadTailProperties
  <2>3. i + 1 \in 1..Len(pubFifo) /\ pubFifo[i + 1] = m
    BY <1>1, <1>2, <2>2
  <2> QED
    BY <2>3 DEF Waits
<1> QED
  BY <1>3, <1>4, <1>5, PubFifoFrame

(* The broker's walk comes to those behind the subscriber it is at only,   *)
(* and it walks with the message it took from the fifo.                    *)
LEMMA AwaitsBrokerSince ==
    ASSUME TypeOK, WalksUnderLock, NoRepeats(list), [Next]_vars, list' = list,
           NEW u \in Subs, NEW m \in Msgs, AwaitsBroker(u, m)'
    PROVE  Pending(u, m)
<1>1. BrokerTypes /\ pubFifo \in Seq(Msgs)
  BY DEF TypeOK, QueueTypes
<1>2. bmsg' = m /\ Ahead(u)' /\ ~(bpc' = "call" /\ bsub' = u)
  BY DEF AwaitsBroker
<1>3. ASSUME bmsg = m, Ahead(u), bpc = "call" => bsub # u
      PROVE  Pending(u, m)
  BY <1>3 DEF Pending, AwaitsBroker
<1>4. CASE UNCHANGED brokerVars
  BY <1>2, <1>3, <1>4 DEF brokerVars, Ahead
<1>5. CASE BrokerGet
  <2>1. pubFifo # <<>> /\ m = Head(pubFifo)
    BY <1>2, <1>5 DEF BrokerGet, Ahead
  <2>2. 1 \in 1..Len(pubFifo) /\ pubFifo[1] = m
    BY <1>1, <2>1, HeadTailProperties, EmptySeq
  <2> QED
    BY <2>2 DEF Pending, Waits
<1>6. CASE BrokerLock
  BY <1>2, <1>3, <1>6 DEF BrokerLock, Ahead
<1>7. CASE BrokerVisit
  <2>1. bmsg' = bmsg /\ bpc = "visit"
    BY <1>7 DEF BrokerVisit
  <2>2. CASE bsub # None /\ Advance(bnext) /\ bpc' = "visit"
    BY <1>2, <1>3, <2>1, <2>2, WalkGoesOn
  <2>3. CASE bsub' = bsub /\ bpc' \in {"call", "put"}
    BY <1>2, <1>3, <2>1, <2>3 DEF Ahead
  <2> QED
    BY <1>2, <1>7, <2>1, <2>2, <2>3 DEF BrokerVisit, Ahead
<1>8. CASE BrokerCalled
  <2>1. bmsg' = bmsg /\ bpc = "call" /\ bpc' = "visit" /\ Advance(bnext) /\ bsub # None
    BY <1>1, <1>8 DEF BrokerCalled, BrokerTypes
  <2> QED
    BY <1>2, <1>3, <2>1, WalkGoesOn
<1>9. CASE BrokerPut
  <2>1. bmsg' = bmsg /\ bpc = "put" /\ bsub # None
    BY <1>1, <1>9 DEF BrokerPut, BrokerTypes
  <2>2. bpc' = "visit" /\ Advance(bnext)
    BY <1>2, <1>9 DEF BrokerPut, Ahead
  <2> QED
    BY <1>2, <1>3, <2>1, <2>2, WalkGoesOn
<1> QED
  BY <1>2, <1>4, <1>5, <1>6, <1>7, <1>8, <1>9, BrokerFrame
     DEF BrokerStep, BrokerUnlock, BrokerRelease, BrokerSubmit, Submitted, Ahead

(* A message gets into a fifo subscriber's queue from the broker or from a *)
(* forwarding thread, ahead of all those behind that subscriber.           *)
LEMMA AwaitsQueueSince ==
    ASSUME TypeOK, Owned, [Next]_vars, list' = list,
           NEW u \in Subs, NEW m \in Msgs, seqno[m] # 0, AwaitsQueue(u, m)'
    PROVE  Pending(u, m)
<1>1. PICK x \in FifoSubs : InQueue(x, m)' /\ Before(list, x, u)
  BY DEF AwaitsQueue, FifoSubs
<1>2. x \in Subs /\ queue[x] \in Seq(Msgs) /\ Len(queue[x]) \in Nat /\ BrokerTypes
  BY DEF FifoSubs, TypeOK, QueueTypes
<1>3. PICK i \in 1..Len(queue'[x]) : queue'[x][i] = m
  BY <1>1 DEF InQueue
<1>4. ASSUME NEW j \in 1..Len(queue[x]), queue[x][j] = m
      PROVE  Pending(u, m)
  BY <1>1, <1>4 DEF Pending, AwaitsQueue, InQueue
<1>5. ASSUME NEW y \in Msgs, queue'[x] = Append(queue[x], y), PutBy(x, y)
      PROVE  Pending(u, m)
  <2>1. /\ Len(queue'[x]) = Len(queue[x]) + 1 /\ queue'[x][Len(queue[x]) + 1] = y
        /\ \A j \in 1..Len(queue[x]) : queue'[x][j] = queue[x][j]
    BY <1>2, <1>5, AppendProperties
  <2>2. CASE y # m
    <3>1. i \in 1..Len(queue[x]) /\ queue[x][i] = m
      BY <1>2, <1>3, <2>1, <2>2
    <3> QED
      BY <1>4, <3>1
  <2>3. CASE BrokerPut /\ bsub = x /\ bmsg = m
    <3>1. bpc = "put" /\ bsub # None /\ Before(list, bsub, u)
      BY <1>1, <1>2, <2>3 DEF BrokerPut, BrokerTypes
    <3> QED
      BY <2>3, <3>1 DEF Pending, AwaitsBroker, Ahead
  <2>4. ASSUME NEW t \in Threads, tmsg[t] = m, ForwardPut(t), tnext[t] = x
        PROVE  Pending(u, m)
    <3>1. tpc[t] = "fput" /\ tpc[t] # "handle" /\ PassesBy(t, u)
      BY <1>1, <2>4 DEF ForwardPut, PassesBy
    <3> QED
      BY <2>4, <3>1 DEF Pending, AwaitsThread
  <2>5. ASSUME NEW t \in Threads, tmsg[t] = m, DirectPut(t) \/ PublishTo(t, x)
        PROVE  FALSE
    <3>1. tpc[t] \in {"owns", "direct", "directput"}
      BY <2>5 DEF DirectPut, PublishTo
    <3> QED
      BY <2>5, <3>1 DEF Owned, Unnumbered
  <2> QED
    BY <1>5, <2>2, <2>3, <2>4, <2>5 DEF PutBy
<1>6. ASSUME NEW t \in Threads, Get(t, x)
      PROVE  Pending(u, m)
  <2>1. queue[x] # <<>> /\ queue'[x] = Tail(queue[x])
    BY <1>2, <1>6 DEF Get, TypeOK, QueueTypes
  <2>2. /\ Len(queue'[x]) = Len(queue[x]) - 1
        /\ \A j \in 1..Len(queue'[x]) : queue'[x][j] = queue[x][j + 1]
    BY <1>2, <2>1, HeadTailProperties
  <2>3. i + 1 \in 1..Len(queue[x]) /\ queue[x][i + 1] = m
    BY <1>2, <1>3, <2>2
  <2> QED
    BY <1>4, <2>3
<1>7. CASE queue'[x] = queue[x]
  BY <1>3, <1>4, <1>7
<1> QED
  BY <1>2, <1>5, <1>6, <1>7, QueueFrame

(* A thread gets a message from the queue of the subscriber it serves and  *)
(* forwards it to somebody behind that one.                                *)
LEMMA AwaitsThreadSince ==
    ASSUME TypeOK, Owned, NoRepeats(list), [Next]_vars, list' = list,
           NEW u \in Subs, NEW m \in Msgs \ free, seqno[m] # 0, AwaitsThread(u, m)'
    PROVE  Pending(u, m)
<1>1. ThreadTypes /\ None \notin Msgs /\ list \in Seq(Subs)
  BY NoneAssumption DEF TypeOK, ListTypes
<1>2. PICK t \in Threads : tpc'[t] # "handle" /\ tmsg'[t] = m /\ PassesBy(t, u)'
  BY DEF AwaitsThread
<1>3. ASSUME tpc[t] # "handle", tmsg[t] = m, PassesBy(t, u)
      PROVE  Pending(u, m)
  BY <1>3 DEF Pending, AwaitsThread
<1>4. CASE SameAt(t)
  BY <1>2, <1>3, <1>4 DEF SameAt, PassesBy
<1>5. ASSUME NEW pc, NEW s, NEW next, Goto(t, pc, None, s, next)
      PROVE  FALSE
  BY <1>1, <1>2, <1>5, GotoAt
<1>6. CASE ThreadStart(t)
  <2>1. ASSUME NEW y \in Msgs, NEW i \in MsgIds, NewMsg(t, y, i)
        PROVE  FALSE
    <3>1. y \in free /\ Goto(t, "owns", y, None, None)
      BY <2>1 DEF NewMsg
    <3> QED
      BY <1>1, <1>2, <3>1, GotoAt
  <2>2. ASSUME NEW s \in Subs, StartRemove(t, s) \/ StartAdd(t, s)
        PROVE  FALSE
    BY <1>5, <2>2 DEF StartRemove, StartAdd
  <2>3. ASSUME NEW s \in Subs, NEW i \in MsgIds, Subscribe(t, s, i) \/ Unsubscribe(t, s, i)
        PROVE  SameAt(t)
    BY <2>3 DEF Subscribe, Unsubscribe, threadVars, SameAt
  <2> QED
    BY <1>4, <1>6, <2>1, <2>2, <2>3 DEF ThreadStart
<1>7. CASE ThreadStep(t)
  <2>1. CASE \/ Publish(t) \/ Discard(t) \/ DirectPut(t) \/ HandlerReturns(t) \/ RemoveBroker(t)
             \/ ClearBroker(t) \/ AddSubscriber(t)
    BY <1>5, <2>1 DEF Publish, Discard, DirectPut, HandlerReturns, RemoveBroker, ClearBroker,
                      AddSubscriber, Return
  <2>2. ASSUME NEW s \in Subs, PublishTo(t, s)
        PROVE  FALSE
    <3>1. tpc[t] = "owns"
      BY <2>2 DEF PublishTo
    <3>2. CASE Return(t)
      BY <1>5, <3>2 DEF Return
    <3>3. ASSUME NEW pc, Goto(t, pc, tmsg[t], s, None)
          PROVE  FALSE
      <4>1. tmsg[t] = m
        BY <1>1, <1>2, <3>3, GotoAt
      <4> QED
        BY <3>1, <4>1 DEF Owned, Unnumbered
    <3> QED
      BY <2>2, <3>2, <3>3 DEF PublishTo
  <2>3. ASSUME NEW x \in Subs, Get(t, x)
        PROVE  Pending(u, m)
    <3>1. /\ queue[x] # <<>> /\ queue[x] \in Seq(Msgs)
          /\ Goto(t, IF Forwards(x, Head(queue[x])) THEN "forward" ELSE "handle",
                  Head(queue[x]), x, None)
      BY <2>3 DEF Get, TypeOK, QueueTypes
    <3>2. Head(queue[x]) = m /\ Forwards(x, m) /\ tsub'[t] = x /\ tpc'[t] = "forward"
      BY <1>1, <1>2, <3>1, GotoAt
    <3>3. x \in FifoSubs
      BY <3>2 DEF Forwards, FifoSubs
    <3>4. 1 \in 1..Len(queue[x]) /\ queue[x][1] = m
      BY <3>1, <3>2, HeadTailProperties, EmptySeq
    <3>5. Before(list, x, u)
      BY <1>2, <3>2 DEF PassesBy
    <3> QED
      BY <3>3, <3>4, <3>5 DEF Pending, AwaitsQueue, InQueue
  <2>4. CASE ReadBroker(t) \/ ForwardLock(t)
    <3>1. PICK pc : /\ Goto(t, pc, tmsg[t], tsub[t], None)
                    /\ pc = "lock" \/ pc = "null broker" \/ pc = "search"
      BY <2>4 DEF ReadBroker, ForwardLock
    <3>2. tmsg[t] = m /\ tsub'[t] = tsub[t] /\ tpc'[t] # "fput"
      BY <1>1, <1>2, <3>1, GotoAt
    <3>3. PassesBy(t, u) /\ tpc[t] # "handle"
      BY <1>2, <2>4, <3>2 DEF PassesBy, ReadBroker, ForwardLock
    <3> QED
      BY <1>3, <3>2, <3>3
  <2>5. CASE Search(t)
    <3>1. tpc[t] = "search"
      BY <2>5 DEF Search
    <3>2. PICK pc, v : /\ Goto(t, pc, tmsg[t], tsub[t], v)
                       /\ pc = "handle" \/ v \in WantingBehind(tsub[t], tmsg[t])
      BY <2>5 DEF Search
    <3>3. tmsg[t] = m /\ tsub'[t] = tsub[t] /\ tnext'[t] = v /\ tpc'[t] = pc
      BY <1>1, <1>2, <3>2, GotoAt
    <3>4. Before(list, tsub[t], v)
      BY <1>2, <3>2, <3>3 DEF WantingBehind
    <3>5. Before(list, tsub[t], u)
      BY <1>1, <1>2, <3>3, <3>4, BeforeIsStrict DEF PassesBy
    <3> QED
      BY <1>3, <3>1, <3>3, <3>5 DEF PassesBy
  <2>6. CASE ForwardPut(t)
    BY <1>1, <1>2, <2>6, GotoAt DEF ForwardPut
  <2> QED
    BY <1>7, <2>1, <2>2, <2>3, <2>4, <2>5, <2>6 DEF ThreadStep
<1> QED
  BY <1>4, <1>6, <1>7, ThreadFrame

(* Whoever holds a message finds it in use, in the next state as well.     *)
HeldInUse ==
    /\ \A s \in Subs : \A i \in 1..Len(queue[s]) : queue[s][i] \notin free
    /\ \A t \in Threads : tmsg[t] \notin free
    /\ bmsg \notin free

(* The counter of a message that is held is not 0.                         *)
LEMMA HeldIsInUse == TypeOK /\ AllCounted => HeldInUse
BY FreeUnheld DEF HeldInUse

(* The same of the next state.                                             *)
LEMMA HeldIsInUseNext == TypeOK' /\ AllCounted' => HeldInUse'
BY HeldIsInUse, PTL

(* The steps by which u gets message m.                                    *)
Receipt(u, m) ==
    \/ BrokerVisit /\ bmsg = m /\ bsub = u /\ bpc' = "call"
    \/ BrokerPut /\ bmsg = m /\ bsub = u
    \/ \E t \in Threads : ForwardPut(t) /\ tmsg[t] = m /\ tnext[t] = u

(* A subscriber gets a message by one of these steps only; whatever else   *)
(* happens to a message a subscriber has, it had before.                   *)
LEMMA ReceivedBy ==
    ASSUME TypeOK, TypeOK', AllCounted', Owned, NumbersRecorded', [Next]_vars,
           NEW u \in Subs, NEW m \in Msgs, m \notin free', seqno[m] # 0, seqno'[m] = seqno[m],
           m \notin free, Received(u, seqno[m])'
    PROVE  Received(u, seqno[m]) \/ Receipt(u, m)
<1> DEFINE n == seqno[m]
<1>1. /\ ThreadTypes /\ ThreadTypes' /\ BrokerTypes /\ BrokerTypes' /\ None \notin Msgs
      /\ queue[u] \in Seq(Msgs) /\ queue'[u] \in Seq(Msgs) /\ log[u] \in Seq(Nat)
      /\ seqno \in [Msgs -> Nat]
  BY NoneAssumption DEF TypeOK, QueueTypes, HistoryTypes
<1>2. ASSUME NEW y \in Msgs, y \notin free', seqno'[y] = n
      PROVE  y = m
  BY <1>2 DEF NumbersRecorded
<1>3. ASSUME n \in ToSet(log'[u])
      PROVE  Received(u, n)
  <2>1. CASE log'[u] = log[u]
    BY <1>3, <2>1 DEF Received
  <2>2. ASSUME NEW k \in Nat, log'[u] = Append(log[u], k)
        PROVE  n \in ToSet(log[u]) \/ n = k
    <3>0. log'[u] \in Seq(Nat)
      BY <1>1, <2>2, AppendProperties
    <3>1. /\ Len(log'[u]) = Len(log[u]) + 1 /\ log'[u][Len(log[u]) + 1] = k
          /\ \A i \in 1..Len(log[u]) : log'[u][i] = log[u][i]
      BY <1>1, <2>2, AppendProperties
    <3>2. PICK i \in 1..Len(log'[u]) : log'[u][i] = n
      BY <1>3, <3>0, InToSet, Zenon
    <3>3. CASE i = Len(log[u]) + 1
      BY <3>1, <3>2, <3>3
    <3>4. CASE i # Len(log[u]) + 1
      <4>1. i \in 1..Len(log[u])
        BY <1>1, <3>1, <3>4
      <4> QED
        BY <1>1, <3>1, <3>2, <4>1, InToSet
    <3> QED
      BY <3>3, <3>4
  <2>3. CASE log'[u] = Append(log[u], seqno[bmsg]) /\ bsub = u /\ BrokerCalled
    <3>1. bmsg \in Msgs /\ bmsg \in Running(u)
      BY <1>1, <2>3 DEF BrokerCalled, BrokerTypes, Running
    <3> QED
      BY <1>1, <2>2, <2>3, <3>1 DEF Received
  <2>4. ASSUME NEW t \in Threads, log'[u] = Append(log[u], seqno[tmsg[t]]), tsub[t] = u,
               HandlerReturns(t)
        PROVE  Received(u, n)
    <3>1. tmsg[t] \in Msgs /\ tmsg[t] # None
      BY <1>1, <2>4 DEF HandlerReturns, ThreadTypes, Fits
    <3> QED
      BY <1>1, <2>2, <2>4, <3>1 DEF Received
  <2> QED
    BY <2>1, <2>3, <2>4, LogFrame
<1>4. ASSUME NEW y \in ToSet(queue'[u]), seqno'[y] = n
      PROVE  Received(u, n) \/ Receipt(u, m)
  <2>1. PICK i \in 1..Len(queue'[u]) : queue'[u][i] = y
    BY <1>1, <1>4, InToSet, Zenon
  <2>2. y \in Msgs
    BY <1>1, <2>1
  <2>3. y \notin free'
    BY <2>1, HeldIsInUseNext DEF HeldInUse
  <2>4. y = m
    BY <1>2, <1>4, <2>2, <2>3
  <2>5. ASSUME NEW j \in 1..Len(queue[u]), queue[u][j] = m
        PROVE  Received(u, n)
    BY <2>5 DEF Received, ToSet
  <2>6. ASSUME NEW z \in Msgs, queue'[u] = Append(queue[u], z), PutBy(u, z)
        PROVE  Received(u, n) \/ Receipt(u, m)
    <3>1. /\ Len(queue'[u]) = Len(queue[u]) + 1 /\ queue'[u][Len(queue[u]) + 1] = z
          /\ \A j \in 1..Len(queue[u]) : queue'[u][j] = queue[u][j]
      BY <1>1, <2>6, AppendProperties
    <3>2. CASE z # m
      <4>1. Len(queue[u]) \in Nat
        BY <1>1
      <4>2. i # Len(queue[u]) + 1
        BY <2>1, <2>4, <3>1, <3>2
      <4>3. i \in 1..Len(queue[u])
        BY <2>1, <3>1, <4>1, <4>2
      <4> QED
        BY <2>1, <2>4, <2>5, <3>1, <4>3
    <3>3. ASSUME z = m, NEW t \in Threads, tmsg[t] = m, DirectPut(t) \/ PublishTo(t, u)
          PROVE  FALSE
      <4>1. tpc[t] \in {"owns", "direct", "directput"}
        BY <3>3 DEF DirectPut, PublishTo
      <4> QED
        BY <3>3, <4>1 DEF Owned, Unnumbered
    <3> QED
      BY <2>6, <3>2, <3>3 DEF PutBy, Receipt
  <2>7. ASSUME NEW t \in Threads, Get(t, u)
        PROVE  Received(u, n)
    <3>1. queue[u] # <<>> /\ queue'[u] = Tail(queue[u])
      BY <1>1, <2>7 DEF Get, TypeOK, QueueTypes
    <3>2. /\ Len(queue'[u]) = Len(queue[u]) - 1
          /\ \A j \in 1..Len(queue'[u]) : queue'[u][j] = queue[u][j + 1]
      BY <1>1, <3>1, HeadTailProperties
    <3>3. Len(queue[u]) \in Nat
      BY <1>1
    <3>4. i + 1 \in 1..Len(queue[u])
      BY <2>1, <3>2, <3>3
    <3> QED
      BY <2>1, <2>4, <2>5, <3>2, <3>4
  <2>8. CASE queue'[u] = queue[u]
    BY <2>1, <2>4, <2>5, <2>8
  <2> QED
    BY <2>6, <2>7, <2>8, QueueFrame
<1>5. ASSUME NEW y \in Running(u)', seqno'[y] = n
      PROVE  Received(u, n) \/ Receipt(u, m)
  <2>1. bpc' = "call" /\ bsub' = u /\ bmsg' = y /\ y \in Msgs
    BY <1>1, <1>5 DEF Running, BrokerTypes
  <2>2. y \notin free'
    BY <2>1, HeldIsInUseNext DEF HeldInUse
  <2>3. y = m
    BY <1>2, <1>5, <2>1, <2>2
  <2>4. CASE UNCHANGED brokerVars
    <3>1. m \in Running(u)
      BY <2>1, <2>3, <2>4 DEF brokerVars, Running
    <3> QED
      BY <3>1 DEF Received
  <2>5. CASE BrokerVisit
    <3>1. bmsg' = bmsg /\ bsub' = bsub
      BY <2>1, <2>5 DEF BrokerVisit
    <3> QED
      BY <2>1, <2>3, <2>5, <3>1 DEF Receipt
  <2> QED
    BY <2>1, <2>4, <2>5, BrokerFrame DEF BrokerStep, BrokerGet, BrokerLock, BrokerCalled, BrokerPut,
       BrokerUnlock, BrokerRelease, BrokerSubmit, Submitted
<1>6. ASSUME NEW t \in Threads, tmsg'[t] # None, tsub'[t] = u, seqno'[tmsg'[t]] = n
      PROVE  Received(u, n)
  <2>1. tmsg'[t] \in Msgs
    BY <1>1, <1>6 DEF ThreadTypes
  <2>2. tmsg'[t] \notin free'
    BY HeldIsInUseNext DEF HeldInUse
  <2>3. tmsg'[t] = m
    BY <1>2, <1>6, <2>1, <2>2
  <2>4. ASSUME tmsg[t] = m, tsub[t] = u
        PROVE  Received(u, n)
    BY <1>1, <2>4 DEF Received
  <2>5. CASE SameAt(t)
    BY <1>6, <2>3, <2>4, <2>5 DEF SameAt
  <2>6. ASSUME NEW pc, NEW y, NEW s, NEW next, Goto(t, pc, y, s, next), y = None \/ s = None
        PROVE  FALSE
    <3>1. None # u
      BY NoneAssumption
    <3> QED
      BY <1>1, <1>6, <2>6, <3>1, GotoAt
  <2>7. CASE ThreadStart(t)
    <3>1. ASSUME NEW s \in Subs, NEW i \in MsgIds, Subscribe(t, s, i) \/ Unsubscribe(t, s, i)
          PROVE  SameAt(t)
      BY <3>1 DEF Subscribe, Unsubscribe, threadVars, SameAt
    <3> QED
      BY <2>5, <2>6, <2>7, <3>1 DEF ThreadStart, NewMsg, StartRemove, StartAdd
  <2>8. CASE ThreadStep(t)
    <3>1. CASE \/ Publish(t) \/ Discard(t) \/ DirectPut(t) \/ HandlerReturns(t) \/ RemoveBroker(t)
               \/ ClearBroker(t) \/ AddSubscriber(t)
      BY <2>6, <3>1 DEF Publish, Discard, DirectPut, HandlerReturns, RemoveBroker, ClearBroker,
                        AddSubscriber, Return
    <3>2. ASSUME NEW s \in Subs, PublishTo(t, s)
          PROVE  FALSE
      <4>1. tpc[t] = "owns"
        BY <3>2 DEF PublishTo
      <4>2. CASE Return(t)
        BY <2>6, <4>2 DEF Return
      <4>3. ASSUME NEW pc, Goto(t, pc, tmsg[t], s, None)
            PROVE  FALSE
        <5>1. tmsg[t] = m
          BY <1>1, <2>3, <4>3, GotoAt
        <5> QED
          BY <4>1, <5>1 DEF Owned, Unnumbered
      <4> QED
        BY <3>2, <4>2, <4>3 DEF PublishTo
    <3>3. ASSUME NEW x \in Subs, Get(t, x)
          PROVE  Received(u, n)
      <4>1. PICK pc : queue[x] # <<>> /\ Goto(t, pc, Head(queue[x]), x, None)
        BY <3>3 DEF Get
      <4>2. x = u /\ Head(queue[u]) = m
        BY <1>1, <1>6, <2>3, <4>1, GotoAt
      <4>3. m \in ToSet(queue[u])
        BY <1>1, <4>1, <4>2, HeadTailProperties, EmptySeq DEF ToSet
      <4> QED
        BY <4>3 DEF Received
    <3>4. CASE ReadBroker(t) \/ ForwardLock(t) \/ Search(t) \/ ForwardPut(t)
      <4>1. PICK pc, next : Goto(t, pc, tmsg[t], tsub[t], next)
        BY <3>4 DEF ReadBroker, ForwardLock, Search, ForwardPut
      <4> QED
        BY <1>1, <1>6, <2>3, <2>4, <4>1, GotoAt
    <3> QED
      BY <2>8, <3>1, <3>2, <3>3, <3>4 DEF ThreadStep
  <2> QED
    BY <2>5, <2>7, <2>8, ThreadFrame
<1> QED
  <2>1. \/ n \in ToSet(log'[u])
        \/ \E y \in ToSet(queue'[u]) \cup Running(u)' : seqno'[y] = n
        \/ \E t \in Threads : tmsg'[t] # None /\ tsub'[t] = u /\ seqno'[tmsg'[t]] = n
    BY DEF Received
  <2> QED
    BY <1>3, <1>4, <1>5, <1>6, <2>1

(* While the broker calls a handler, nobody else passes the message on.    *)
CalledAlone ==
    \A m \in Msgs :
        bmsg = m /\ bpc = "call" =>
            /\ ~Waits(m) /\ \A x \in FifoSubs : ~InQueue(x, m)
            /\ \A t \in Threads : tmsg[t] = m => tpc[t] = "handle"

(* The broker has not passed the message on yet.                           *)
LEMMA CalledIsAlone == TypeOK /\ AllCounted => CalledAlone
BY OneClaim DEF CalledAlone

(* The same of the next state.                                             *)
LEMMA CalledAloneNext == TypeOK' /\ AllCounted' => CalledAlone'
BY CalledIsAlone, PTL

(* A message that was given to u does not come to it again.                *)
LEMMA ReceiptEndsWaiting ==
    ASSUME TypeOK, AllCounted, TypeOK', AllCounted', WalksUnderLock, NoRepeats(list), [Next]_vars,
           list' = list, NEW u \in Subs, NEW m \in Msgs, Receipt(u, m)
    PROVE  ~Pending(u, m)'
<1>1. /\ ThreadTypes /\ BrokerTypes /\ list \in Seq(Subs)
      /\ queue \in [Subs -> Seq(Msgs)]
  BY DEF TypeOK, ListTypes, QueueTypes
<1>2. ~Before(list, u, u)
  BY <1>1, BeforeIsStrict
<1>3. ASSUME ~Waits(m), pubFifo' = pubFifo
      PROVE  ~Waits(m)'
  BY <1>3 DEF Waits
<1>4. ASSUME \A x \in FifoSubs : ~InQueue(x, m), \A x \in Subs \ {u} : queue'[x] = queue[x]
      PROVE  ~AwaitsQueue(u, m)'
  <2>1. \A x \in FifoSubs \ {u} : ~InQueue(x, m)'
    BY <1>4 DEF InQueue, FifoSubs
  <2>2. ASSUME NEW x \in FifoSubs, InQueue(x, m)', Before(list', x, u)
        PROVE  FALSE
    BY <1>2, <2>1, <2>2
  <2> QED
    BY <2>2 DEF AwaitsQueue, FifoSubs
<1>5. CASE BrokerVisit /\ bmsg = m /\ bsub = u /\ bpc' = "call"
  <2>1. bmsg' = m /\ bsub' = u /\ bpc' = "call"
    BY <1>5 DEF BrokerVisit
  <2>2. /\ ~Waits(m)' /\ \A x \in FifoSubs : ~InQueue(x, m)'
        /\ \A t \in Threads : tmsg'[t] = m => tpc'[t] = "handle"
    BY <2>1, CalledAloneNext DEF CalledAlone, FifoSubs
  <2> QED
    BY <2>1, <2>2 DEF Pending, AwaitsBroker, AwaitsQueue, AwaitsThread, FifoSubs
<1>6. CASE BrokerPut /\ bmsg = m /\ bsub = u
  <2>1. /\ bpc = "put" /\ pubFifo' = pubFifo /\ UNCHANGED threadVars
        /\ \A x \in Subs \ {u} : queue'[x] = queue[x]
    BY <1>1, <1>6 DEF BrokerPut, Put
  <2>2. /\ ~Waits(m) /\ \A x \in FifoSubs : ~InQueue(x, m)
        /\ \A t \in Threads : tmsg[t] = m => tpc[t] = "handle"
    BY <1>6, <2>1, OneClaim
  <2>3. ~Ahead(u)'
    <3>1. bsub # None
      BY <1>1, <1>6, <2>1 DEF BrokerTypes
    <3>2. CASE bpc' = "visit" /\ Advance(bnext)
      BY <1>6, <2>1, <3>1, <3>2, WalkGoesOn
    <3>3. CASE bpc' = "unlock"
      BY <3>3 DEF Ahead
    <3> QED
      BY <1>6, <3>2, <3>3 DEF BrokerPut
  <2> QED
    BY <1>3, <1>4, <2>1, <2>2, <2>3 DEF Pending, AwaitsBroker, AwaitsThread, threadVars
<1>7. ASSUME NEW t \in Threads, ForwardPut(t), tmsg[t] = m, tnext[t] = u
      PROVE  ~Pending(u, m)'
  <2>1. /\ tpc[t] = "fput" /\ pubFifo' = pubFifo /\ UNCHANGED brokerVars
        /\ \A x \in Subs \ {u} : queue'[x] = queue[x]
        /\ Goto(t, "handle", m, tsub[t], None)
    BY <1>1, <1>7 DEF ForwardPut, Put
  <2>2. tpc[t] # "handle"
    BY <2>1
  <2>3. /\ ~Waits(m) /\ \A x \in FifoSubs : ~InQueue(x, m)
        /\ \A v \in Threads \ {t} : tmsg[v] = m => tpc[v] = "handle"
        /\ ~(bmsg = m /\ bpc \in {"lock", "visit", "call", "put"})
    BY <1>7, <2>2, OneClaim
  <2>4. ~AwaitsBroker(u, m)'
    BY <2>1, <2>3 DEF AwaitsBroker, Ahead, brokerVars
  <2>5. ~AwaitsThread(u, m)'
    <3>1. tpc'[t] = "handle" /\ \A v \in Threads \ {t} : tpc'[v] = tpc[v] /\ tmsg'[v] = tmsg[v]
      BY <1>1, <2>1, GotoAt DEF SameAt
    <3> QED
      BY <2>3, <3>1 DEF AwaitsThread
  <2> QED
    BY <1>3, <1>4, <2>1, <2>3, <2>4, <2>5 DEF Pending
<1> QED
  BY <1>5, <1>6, <1>7 DEF Receipt

(* Nobody gets a message it is still to get: a message is not put back to  *)
(* an earlier stage, and whoever gets it is passed.                        *)
LEMMA NextFresh ==
    ASSUME TypeOK, AllCounted, TypeOK', AllCounted', WalksUnderLock, Owned, NoRepeats(list),
           NumbersRecorded, NumbersRecorded', LoggedArePublished, list' = list, Fresh, [Next]_vars
    PROVE  Fresh'
<1>1. seqno \in [Msgs -> Nat] /\ Len(pubs) \in Nat /\ ThreadTypes /\ BrokerTypes
  BY DEF TypeOK, HistoryTypes
<1>2. SUFFICES ASSUME NEW m \in Msgs, m \notin free', seqno'[m] # 0, NEW u \in Subs,
                      Pending(u, m)', Received(u, seqno[m])'
               PROVE  FALSE
  BY DEF Fresh
<1>3. m \notin free
  BY <1>2, MessageFrame
<1>4. CASE seqno'[m] = seqno[m] /\ \A t \in Threads : tmsg[t] = m => ~Publish(t)
  <2>1. Pending(u, m)
    <3>1. CASE Waits(m)'
      BY <1>4, <3>1, WaitsSince DEF Pending
    <3>2. CASE AwaitsBroker(u, m)'
      BY <3>2, AwaitsBrokerSince
    <3>3. CASE AwaitsQueue(u, m)'
      BY <1>2, <1>4, <3>3, AwaitsQueueSince
    <3>4. CASE AwaitsThread(u, m)'
      BY <1>2, <1>3, <1>4, <3>4, AwaitsThreadSince
    <3> QED
      BY <1>2, <3>1, <3>2, <3>3, <3>4 DEF Pending
  <2>2. ~Received(u, seqno[m])
    BY <1>2, <1>3, <1>4, <2>1 DEF Fresh
  <2>3. Receipt(u, m)
    BY <1>2, <1>3, <1>4, <2>2, ReceivedBy
  <2> QED
    BY <1>2, <2>3, ReceiptEndsWaiting
<1>5. ASSUME NEW t \in Threads, Publish(t), tmsg[t] = m
      PROVE  FALSE
  <2>1. /\ seqno'[m] = Len(pubs) + 1 /\ tmsg'[t] # m /\ tpc[t] = "owns"
        /\ UNCHANGED <<queue, log, bmsg>>
        /\ \A v \in Threads \ {t} : tmsg'[v] = tmsg[v]
    <3>1. tmsg'[t] = None /\ \A v \in Threads \ {t} : tmsg'[v] = tmsg[v]
      BY <1>1, <1>5, GotoAt DEF Publish, Return, SameAt
    <3> QED
      BY <1>1, <1>5, <3>1, NoneAssumption DEF Publish
  <2>2. /\ \A s \in Subs : \A i \in 1..Len(queue[s]) : queue[s][i] # m
        /\ \A v \in Threads \ {t} : tmsg[v] # m
        /\ bmsg # m
    <3>1. ref[m] = 1
      BY <1>5, <2>1 DEF Owned, Alone
    <3> QED
      BY <1>5, <3>1, OwnerAlone
  <2>3. ASSUME NEW y \in Msgs, y \notin free', seqno'[y] = seqno'[m]
        PROVE  y = m
    BY <1>2, <2>3 DEF NumbersRecorded
  <2>4. seqno'[m] \notin ToSet(log'[u])
    <3>1. ToSet(log[u]) = Logged(u) /\ log[u] \in Seq(Nat)
      BY DEF ToSet, Logged, TypeOK, HistoryTypes
    <3> QED
      BY <1>1, <2>1, <3>1 DEF LoggedArePublished
  <2>5. ASSUME NEW y \in ToSet(queue'[u]), seqno'[y] = seqno'[m]
        PROVE  FALSE
    <3>1. PICK i \in 1..Len(queue[u]) : queue[u][i] = y
      <4>1. y \in ToSet(queue[u])
        BY <2>1, <2>5
      <4>2. queue[u] \in Seq(Msgs)
        BY DEF TypeOK, QueueTypes
      <4> QED
        BY <4>1, <4>2, InToSet, Zenon
    <3>2. y \in Msgs /\ y \notin free'
      BY <2>1, <3>1, HeldIsInUseNext DEF HeldInUse, TypeOK, QueueTypes
    <3> QED
      BY <2>2, <2>3, <2>5, <3>1, <3>2
  <2>6. ASSUME NEW y \in Running(u)', seqno'[y] = seqno'[m]
        PROVE  FALSE
    <3>1. y = bmsg' /\ y \in Msgs /\ y \notin free'
      BY <2>6, HeldIsInUseNext DEF HeldInUse, Running, TypeOK, BrokerTypes
    <3> QED
      BY <2>1, <2>2, <2>3, <2>6, <3>1
  <2>7. ASSUME NEW v \in Threads, tmsg'[v] # None, seqno'[tmsg'[v]] = seqno'[m]
        PROVE  FALSE
    <3>1. tmsg'[v] \in Msgs /\ tmsg'[v] \notin free'
      BY <2>7, HeldIsInUseNext DEF HeldInUse, TypeOK, ThreadTypes
    <3>2. tmsg'[v] = m
      BY <2>3, <2>7, <3>1
    <3> QED
      BY <2>1, <2>2, <3>2
  <2>8. \/ seqno'[m] \in ToSet(log'[u])
        \/ \E y \in ToSet(queue'[u]) \cup Running(u)' : seqno'[y] = seqno'[m]
        \/ \E v \in Threads : tmsg'[v] # None /\ tsub'[v] = u /\ seqno'[tmsg'[v]] = seqno'[m]
    BY <1>2 DEF Received
  <2> QED
    BY <2>4, <2>5, <2>6, <2>7, <2>8
<1> QED
  BY <1>3, <1>4, <1>5, MessageFrame

(* If a message is still to come to s then it is to those behind s.        *)
LEMMA PendingBehind ==
    ASSUME TypeOK, NoRepeats(list), NEW s \in Subs, NEW u \in Subs, Before(list, s, u),
           NEW m \in Msgs, Pending(s, m)
    PROVE  Pending(u, m)
<1>1. list \in Seq(Subs) /\ s # u /\ ~Before(list, u, s)
  <2>1. list \in Seq(Subs)
    BY DEF TypeOK, ListTypes
  <2> QED
    BY <2>1, BeforeIsStrict
<1>2. \A x : Before(list, x, s) => Before(list, x, u)
  BY <1>1, BeforeIsStrict
<1>3. CASE AwaitsBroker(s, m)
  <2>1. bmsg = m /\ Ahead(u)
    BY <1>2, <1>3 DEF AwaitsBroker, Ahead
  <2>2. ~(bpc = "call" /\ bsub = u)
    BY <1>1, <1>3 DEF AwaitsBroker, Ahead
  <2> QED
    BY <2>1, <2>2 DEF Pending, AwaitsBroker
<1>4. CASE AwaitsQueue(s, m)
  BY <1>2, <1>4 DEF Pending, AwaitsQueue
<1>5. CASE AwaitsThread(s, m)
  BY <1>2, <1>5 DEF Pending, AwaitsThread, PassesBy
<1> QED
  BY <1>3, <1>4, <1>5 DEF Pending

(* What is coming to s it has got, or it is pending.                       *)
LEMMA ReceivedOrPending ==
    ASSUME TypeOK, NEW s \in Subs, NEW m \in Msgs, Coming(s, m)
    PROVE  Received(s, seqno[m]) \/ Pending(s, m)
<1>1. queue[s] \in Seq(Msgs) /\ log[s] \in Seq(Nat) /\ None \notin Msgs
  BY NoneAssumption DEF TypeOK, QueueTypes, HistoryTypes
<1>2. CASE Has(s, m)
  <2>1. seqno[m] \in Logged(s) => seqno[m] \in ToSet(log[s])
    BY <1>1 DEF Logged, ToSet
  <2>2. InQueue(s, m) => m \in ToSet(queue[s])
    BY <1>1 DEF InQueue, ToSet
  <2> QED
    BY <1>1, <1>2, <2>1, <2>2 DEF Has, Serves, Received
<1>3. CASE bmsg = m /\ Ahead(s)
  <2>1. CASE bpc = "call" /\ bsub = s
    <3>1. m \in Running(s)
      BY <1>3, <2>1 DEF Running
    <3> QED
      BY <3>1 DEF Received
  <2>2. CASE ~(bpc = "call" /\ bsub = s)
    BY <1>3, <2>2 DEF Pending, AwaitsBroker
  <2> QED
    BY <2>1, <2>2
<1>4. CASE PutFor(s, m)
  BY <1>4 DEF PutFor, Pending, AwaitsThread, PassesBy
<1>5. ASSUME NEW x \in FifoSubs, Carries(x, m), Before(list, x, s)
      PROVE  Pending(s, m)
  <2>1. CASE InQueue(x, m)
    BY <1>5, <2>1 DEF Pending, AwaitsQueue
  <2>2. CASE PutFor(x, m)
    BY <1>5, <2>2 DEF PutFor, Pending, AwaitsThread, PassesBy
  <2>3. CASE Keeps(x, m)
    <3>1. PICK t \in Threads : tpc[t] \in ServeSteps \ {"fput", "handle"} /\ tmsg[t] = m /\ tsub[t] = x
      BY <2>3 DEF Keeps
    <3>2. tpc[t] # "fput" /\ tpc[t] # "handle"
      BY <3>1
    <3> QED
      BY <1>5, <3>1, <3>2 DEF Pending, AwaitsThread, PassesBy
  <2> QED
    BY <1>5, <2>1, <2>2, <2>3 DEF Carries
<1> QED
  BY <1>2, <1>3, <1>4, <1>5 DEF Coming, ForwardedTo, Pending

ListStays == list = InitList
OrderInList == LoggedArePublished /\ Fresh

(* At first there is no message in use.                                    *)
LEMMA InitOrderInList ==
    ASSUME Init
    PROVE  OrderInList
BY DEF Init, OrderInList, LoggedArePublished, Logged, Fresh

(* If u has the message it is not pending for u, so not for s ahead of u:  *)
(* what was due to s has come.                                             *)
LEMMA OrderInListShows ==
    ASSUME TypeOK, Managed = {}, list = InitList, NoRepeats(list), NothingMissed, OrderInList
    PROVE  ReceivedInListOrder
<1>1. SUFFICES ASSUME NEW n \in 1..Len(pubs), NEW s \in Recipients(n), NEW u \in Recipients(n),
                      Live(n), Before(list, s, u), Received(u, n), ~Received(s, n)
               PROVE  FALSE
  BY DEF ReceivedInListOrder
<1>2. s \in Subs /\ u \in Subs /\ s \in ToSet(list) /\ Len(pubs) \in Nat
  BY <1>1 DEF Recipients, TypeOK, ListTypes, HistoryTypes, ToSet
<1>3. PICK m \in Msgs \ free : seqno[m] = n
  BY <1>1 DEF Live
<1>4. n # 0
  BY <1>1, <1>2
<1>5. id[m] \in subscribed[s]
  BY <1>1, <1>3, <1>4 DEF Recipients, NothingMissed, NumbersRecorded
<1>6. s \in Staying /\ Due(s, m)
  BY <1>2, <1>3, <1>4, <1>5 DEF NothingMissed, SettingsKept, Staying, Due
<1>7. Coming(s, m)
  BY <1>3, <1>6 DEF NothingMissed, MissesNothing
<1>8. Pending(s, m)
  BY <1>1, <1>2, <1>3, <1>7, ReceivedOrPending
<1>9. Pending(u, m)
  BY <1>1, <1>2, <1>3, <1>8, PendingBehind
<1> QED
  BY <1>1, <1>2, <1>3, <1>4, <1>9 DEF OrderInList, Fresh

(* With a fixed configuration a publication reaches its subscribers in the *)
(* order of the broker's list, through the broker's walk and from one fifo *)
(* subscriber to the next: nobody has got it before those that are ahead   *)
(* of it.  A list sorted by type (AlwaysSortedByType) so serves callback   *)
(* subscribers before msgq, msgq before fifo, and by priority within each. *)
THEOREM DeliveredInListOrder ==
    ASSUME Managed = {}
    PROVE  Spec => []ReceivedInListOrder
<1>1. Roles => OneAtATime
  BY DEF Roles, Role, OneAtATime
<1>2. Spec /\ []OneAtATime => []NothingMissed
  BY NothingIsMissed
<1>3. Init => ListStays
  BY DEF Init, ListStays
<1>4. TypeOK /\ Roles /\ ListStays /\ [Next]_vars => ListStays'
  BY ConfigFrame DEF ListStays
<1>5. Configured => NoRepeats(list)
  BY DEF Configured
<1>6. NothingMissed => NumbersRecorded
  BY DEF NothingMissed
<1>7. TypeOK /\ TypeOK' /\ AllCounted /\ AllCounted' /\ WalksUnderLock /\ Owned /\ NoRepeats(list)
      /\ NumbersRecorded /\ NumbersRecorded' /\ ListStays /\ ListStays'
      /\ OrderInList /\ [Next]_vars => OrderInList'
  BY NextLogged, NextFresh DEF OrderInList, ListStays
<1>8. TypeOK /\ ListStays /\ NoRepeats(list) /\ NothingMissed /\ OrderInList
      => ReceivedInListOrder
  BY OrderInListShows DEF ListStays
<1> QED
  BY <1>1, <1>2, <1>3, <1>4, <1>5, <1>6, <1>7, <1>8, InitOrderInList, TypeCorrect, RolesKept,
     LockDiscipline, CountsHold, OwnerHasItAlone, ListAgreesWithBroker, PTL DEF Spec
=============================================================================
