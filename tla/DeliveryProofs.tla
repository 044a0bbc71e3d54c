---------------------------- MODULE DeliveryProofs ----------------------------
(***************************************************************************)
(* What the promises of Delivery amount to, for any list, subscriptions    *)
(* and publications; PubSub implements them.                               *)
(***************************************************************************)
EXTENDS Delivery, TLAPS

(* A subscriber has handled whatever it had to handle first.               *)
NoGaps ==
    \A s \in Subs : \A n \in ToSet(handled[s]) : \A k \in 1..(n - 1) :
        /\ s \in Recipients(k)
        /\ RxType[s] = "fifo" => Path(s, published[k]) = Path(s, published[n])
        => HasHandled(s, k)

(* The inductive invariant.  NoGaps is what makes the order inductive: the *)
(* publication a subscriber handles next is no earlier than one it has     *)
(* handled, or that one would have left a gap.                             *)
IInv ==
    /\ TypeOK /\ NoGaps
    /\ AtMostOnce /\ InOrderFromBroker /\ InOrderAlongPath
    /\ CallbacksFirst /\ ReclaimedAfterAllHandled

(* Appending to a sequence adds its last element.                          *)
LEMMA AppendToSet ==
    ASSUME NEW S, NEW q \in Seq(S), NEW x \in S
    PROVE  ToSet(Append(q, x)) = ToSet(q) \cup {x}
<1>1. Append(q, x) \in Seq(S) /\ Len(Append(q, x)) = Len(q) + 1 /\ Len(q) \in Nat
  OBVIOUS
<1>2. \A i \in 1..(Len(q) + 1) : Append(q, x)[i] = IF i <= Len(q) THEN q[i] ELSE x
  OBVIOUS
<1>3. \A y : y \in ToSet(Append(q, x)) <=> \E i \in 1..(Len(q) + 1) : Append(q, x)[i] = y
  BY <1>1 DEF ToSet
<1>4. \A y : y \in ToSet(q) <=> \E i \in 1..Len(q) : q[i] = y
  BY DEF ToSet
<1>5. ASSUME NEW y \in ToSet(Append(q, x)) PROVE y \in ToSet(q) \cup {x}
  BY <1>1, <1>2, <1>3, <1>4
<1>6. ASSUME NEW y \in ToSet(q) \cup {x} PROVE y \in ToSet(Append(q, x))
  BY <1>1, <1>2, <1>3, <1>4
<1> QED
  BY <1>5, <1>6

(* Only what has been published has been handled.                          *)
LEMMA HandledArePublished ==
    ASSUME TypeOK, NEW s \in Subs, NEW n \in ToSet(handled[s])
    PROVE  n \in Published
BY DEF TypeOK, ToSet

(* At first nothing has been published.                                    *)
LEMMA InitIInv == Init => IInv
<1> SUFFICES ASSUME Init PROVE IInv
  OBVIOUS
<1>1. \A s \in Subs : handled[s] = <<>> /\ ToSet(handled[s]) = {}
  BY DEF Init, ToSet
<1>2. TypeOK
  <2>1. published = <<>> /\ handled = [s \in Subs |-> <<>>] /\ reclaimed = {}
    BY DEF Init
  <2>2. <<>> \in Seq(Published)
    OBVIOUS
  <2>3. handled \in [Subs -> Seq(Published)]
    BY <2>1, <2>2
  <2> QED
    BY <2>1, <2>3 DEF TypeOK
<1>3. NoGaps /\ AtMostOnce /\ InOrderFromBroker /\ InOrderAlongPath /\ CallbacksFirst
  <2>1. NoGaps /\ CallbacksFirst
    BY <1>1 DEF NoGaps, CallbacksFirst
  <2>2. \A s \in Subs : ~\E i \in 1..Len(handled[s]) : TRUE
    BY <1>1
  <2>3. AtMostOnce
    BY <2>2 DEF AtMostOnce
  <2>4. InOrderFromBroker /\ InOrderAlongPath
    BY <2>2 DEF InOrderFromBroker, InOrderAlongPath
  <2> QED
    BY <2>1, <2>3, <2>4
<1>4. ReclaimedAfterAllHandled
  BY <1>1 DEF ReclaimedAfterAllHandled, Init
<1> QED
  BY <1>2, <1>3, <1>4 DEF IInv

-----------------------------------------------------------------------------
(* A publication changes nothing about the earlier ones.                   *)

(* A publication comes after all that have been handled.                   *)
LEMMA PublishIInv ==
    ASSUME IInv, NEW i \in MsgIds, Publish(i)
    PROVE  IInv'
<1> USE DEF IInv
<1>1. /\ published \in Seq(MsgIds) /\ published' = Append(published, i)
      /\ handled' = handled /\ reclaimed' = reclaimed
  BY DEF Publish, TypeOK
<1>2. /\ Len(published) \in Nat /\ Len(published') = Len(published) + 1
      /\ published' \in Seq(MsgIds)
      /\ \A n \in Published : published'[n] = published[n]
  BY <1>1 DEF Published
<1>3. Published \subseteq Published'
  BY <1>2 DEF Published
<1>4. \A n \in Published : Recipients(n)' = Recipients(n)
  BY <1>2 DEF Recipients
<1>5. \A s \in Subs : ToSet(handled[s])' = ToSet(handled[s])
  BY <1>1
<1>6. \A s \in Subs : \A n \in ToSet(handled[s]) : n \in Published
  BY HandledArePublished
<1>7. TypeOK'
  BY <1>1, <1>2, <1>3 DEF TypeOK
<1>8. NoGaps'
  <2> SUFFICES ASSUME NEW s \in Subs, NEW n \in ToSet(handled[s])', NEW k \in 1..(n - 1),
                      s \in Recipients(k)',
                      (RxType[s] = "fifo" => Path(s, published[k]) = Path(s, published[n]))'
               PROVE  HasHandled(s, k)'
    BY DEF NoGaps
  <2>1. n \in ToSet(handled[s]) /\ n \in Published /\ k \in Published
    <3>1. n \in ToSet(handled[s])
      BY <1>5
    <3>2. n \in 1..Len(published)
      BY <3>1, <1>6 DEF Published
    <3> QED
      BY <3>1, <3>2, <1>2 DEF Published
  <2>2. published'[k] = published[k] /\ published'[n] = published[n] /\ s \in Recipients(k)
    BY <2>1, <1>2, <1>4
  <2>4. RxType[s] = "fifo" => Path(s, published[k]) = Path(s, published[n])
    BY <2>2 DEF Path
  <2>3. HasHandled(s, k)
    BY <2>1, <2>2, <2>4 DEF NoGaps
  <2> QED
    BY <2>3, <1>1 DEF HasHandled
<1>9. AtMostOnce' /\ InOrderFromBroker'
  BY <1>1 DEF AtMostOnce, InOrderFromBroker
<1>10. InOrderAlongPath'
  <2>1. \A s \in Subs : \A j \in 1..Len(handled[s]) :
           published'[handled[s][j]] = published[handled[s][j]]
    BY <1>2 DEF TypeOK
  <2> QED
    BY <2>1, <1>1, ZenonT(60) DEF InOrderAlongPath, Path
<1>11. CallbacksFirst'
  BY <1>1, <1>4, <1>5, <1>6 DEF CallbacksFirst, HasHandled
<1>12. ReclaimedAfterAllHandled'
  <2>1. \A n \in reclaimed : n \in Published
    BY DEF TypeOK
  <2> QED
    BY <2>1, <1>1, <1>4, <1>5, <1>6 DEF ReclaimedAfterAllHandled, HandledByAll, HasHandled
<1> QED
  BY <1>7, <1>8, <1>9, <1>10, <1>11, <1>12

(* Reclaiming a message changes nothing but that, and it waits until       *)
(* everyone has handled it.                                                *)
LEMMA ReclaimIInv ==
    ASSUME IInv, NEW n \in Published, Reclaim(n)
    PROVE  IInv'
<1> USE DEF IInv, Reclaim
<1>1. published' = published /\ handled' = handled /\ reclaimed' = reclaimed \cup {n}
  OBVIOUS
<1>2. TypeOK'
  BY <1>1 DEF TypeOK, Published
<1>3. NoGaps' /\ CallbacksFirst'
  BY <1>1 DEF NoGaps, CallbacksFirst, Recipients, HasHandled, Path
<1>4. AtMostOnce' /\ InOrderFromBroker' /\ InOrderAlongPath'
  BY <1>1 DEF AtMostOnce, InOrderFromBroker, InOrderAlongPath, Path
<1>5. ReclaimedAfterAllHandled'
  BY <1>1 DEF ReclaimedAfterAllHandled, HandledByAll, HasHandled, Recipients
<1> QED
  BY <1>2, <1>3, <1>4, <1>5

-----------------------------------------------------------------------------
(* What s has handled when it has handled n.                               *)

(* The publication handled is put behind the others and was not among them. *)
LEMMA HandleSteps ==
    ASSUME IInv, NEW s \in Subs, NEW n \in Published, Handle(s, n)
    PROVE  /\ published' = published
           /\ handled' \in [Subs -> Seq(Published)]
           /\ handled'[s] = Append(handled[s], n)
           /\ \A u \in Subs \ {s} : handled'[u] = handled[u]
           /\ ToSet(handled'[s]) = ToSet(handled[s]) \cup {n}
           /\ \A u \in Subs : ToSet(handled[u]) \subseteq ToSet(handled'[u])
           /\ \A u \in Subs : \A m \in ToSet(handled'[u]) :
                  m \in ToSet(handled[u]) \/ (u = s /\ m = n)
<1>1. handled \in [Subs -> Seq(Published)]
  BY DEF IInv, TypeOK
<1>2. /\ published' = published
      /\ handled' = [handled EXCEPT ![s] = Append(@, n)]
  BY DEF Handle
<1>3. ToSet(handled'[s]) = ToSet(handled[s]) \cup {n}
  BY <1>1, <1>2, AppendToSet
<1> QED
  BY <1>1, <1>2, <1>3

(* No later publication that goes the same way was handled before n.       *)
LEMMA EarlierBeforeN ==
    ASSUME IInv, NEW s \in Subs, NEW n \in Published, Handle(s, n),
           NEW m \in ToSet(handled[s]),
           RxType[s] = "fifo" => Path(s, published[m]) = Path(s, published[n])
    PROVE  m < n
<1>1. s \in Recipients(n) /\ ~HasHandled(s, n)
  BY DEF Handle
<1>2. m \in Published /\ m # n
  BY <1>1, HandledArePublished DEF IInv, HasHandled
<1>3. ~(n \in 1..(m - 1))
  BY <1>1 DEF IInv, NoGaps
<1> QED
  BY <1>2, <1>3 DEF Published

(* It is the subscriber's turn only if it has handled all it owes that were *)
(* published before.                                                       *)
LEMMA HandleNoGaps ==
    ASSUME IInv, NEW s \in Subs, NEW n \in Published, Handle(s, n)
    PROVE  NoGaps'
<1> SUFFICES ASSUME NEW u \in Subs, NEW m \in ToSet(handled'[u]), NEW k \in 1..(m - 1),
                    u \in Recipients(k),
                    RxType[u] = "fifo" => Path(u, published[k]) = Path(u, published[m])
             PROVE  k \in ToSet(handled'[u])
  BY HandleSteps DEF NoGaps, Path, Recipients, HasHandled
<1>1. CASE m \in ToSet(handled[u])
  <2>1. HasHandled(u, k)
    BY <1>1 DEF IInv, NoGaps
  <2> QED
    BY <2>1, HandleSteps DEF HasHandled
<1>2. CASE m \notin ToSet(handled[u])
  <2>1. u = s /\ m = n
    BY <1>2, HandleSteps
  <2>2. IsNext(s, n)
    BY DEF Handle
  <2>3. k \notin Owes(s, s, n)
    BY <2>1, <2>2 DEF IsNext
  <2>4. HasHandled(s, k)
    BY <2>1, <2>3 DEF Owes, Published
  <2> QED
    BY <2>1, <2>4, HandleSteps DEF HasHandled
<1> QED
  BY <1>1, <1>2

(* Handling keeps all that is claimed.                                     *)
LEMMA HandleIInv ==
    ASSUME IInv, NEW s \in Subs, NEW n \in Published, Handle(s, n)
    PROVE  IInv'
<1>1. /\ handled \in [Subs -> Seq(Published)]
      /\ Len(handled[s]) \in Nat
      /\ \A u \in Subs : \A i \in 1..Len(handled[u]) : handled[u][i] \in ToSet(handled[u])
  BY DEF IInv, TypeOK, ToSet
<1>2. Published' = Published
  BY HandleSteps DEF Published
<1>3. /\ Len(handled'[s]) = Len(handled[s]) + 1
      /\ handled'[s][Len(handled[s]) + 1] = n
      /\ \A i \in 1..Len(handled[s]) : handled'[s][i] = handled[s][i]
  <2>1. handled[s] \in Seq(Published)
    BY <1>1
  <2>2. handled'[s] = Append(handled[s], n)
    BY HandleSteps
  <2>3. \A q \in Seq(Published) :
           /\ Len(Append(q, n)) = Len(q) + 1
           /\ Append(q, n)[Len(q) + 1] = n
           /\ \A i \in 1..Len(q) : Append(q, n)[i] = q[i]
    OBVIOUS
  <2> QED
    BY <2>1, <2>2, <2>3
<1>4. reclaimed' \subseteq Published
  BY DEF Handle, IInv, TypeOK
<1>5. TypeOK'
  BY <1>2, <1>4, HandleSteps DEF IInv, TypeOK
<1>6. AtMostOnce'
  <2>1. n \notin ToSet(handled[s])
    BY DEF Handle, HasHandled
  <2>2. ASSUME NEW i \in 1..Len(handled'[s]), NEW j \in 1..Len(handled'[s]),
               handled'[s][i] = handled'[s][j]
        PROVE  i = j
    BY <2>1, <2>2, <1>1, <1>3 DEF IInv, AtMostOnce
  <2> QED
    BY <2>2, HandleSteps, SMTT(30) DEF IInv, AtMostOnce
<1>7. ASSUME NEW i \in 1..Len(handled'[s]), NEW j \in 1..Len(handled'[s]), i < j,
             RxType[s] = "fifo" =>
                 Path(s, published[handled'[s][i]]) = Path(s, published[handled'[s][j]])
      PROVE  handled'[s][i] < handled'[s][j]
  <2>1. CASE j <= Len(handled[s])
    <3>1. /\ i \in 1..Len(handled[s]) /\ j \in 1..Len(handled[s])
          /\ handled'[s][i] = handled[s][i] /\ handled'[s][j] = handled[s][j]
      BY <1>1, <1>3, <1>7, <2>1
    <3>2. CASE RxType[s] = "fifo"
      BY <3>1, <3>2, <1>7 DEF IInv, InOrderAlongPath
    <3>3. CASE RxType[s] # "fifo"
      BY <3>1, <3>3, <1>7 DEF IInv, InOrderFromBroker
    <3> QED
      BY <3>2, <3>3
  <2>2. CASE j = Len(handled[s]) + 1
    <3>1. i \in 1..Len(handled[s]) /\ handled'[s][i] = handled[s][i] /\ handled'[s][j] = n
      BY <1>1, <1>3, <1>7, <2>2
    <3> QED
      BY <3>1, <1>1, <1>7, EarlierBeforeN
  <2> QED
    BY <2>1, <2>2, <1>1, <1>3
<1>8. InOrderFromBroker'
  BY <1>7, HandleSteps DEF IInv, InOrderFromBroker
<1>9. InOrderAlongPath'
  <2>1. /\ published' = published
        /\ \A u \in Subs \ {s} : handled'[u] = handled[u]
    BY HandleSteps
  <2> SUFFICES ASSUME NEW u \in Subs, NEW i \in 1..Len(handled'[u]), NEW j \in 1..Len(handled'[u]),
                      i < j,
                      Path(u, published[handled'[u][i]]) = Path(u, published[handled'[u][j]])
               PROVE  handled'[u][i] < handled'[u][j]
    BY <2>1 DEF InOrderAlongPath, Path
  <2>2. CASE u = s
    BY <2>2, <1>7
  <2>3. CASE u # s
    BY <2>1, <2>3 DEF IInv, InOrderAlongPath
  <2> QED
    BY <2>2, <2>3
<1>10. CallbacksFirst'
  <2> SUFFICES ASSUME NEW u \in Subs, NEW m \in ToSet(handled'[u]), NEW v \in Recipients(m),
                      RxType[v] = "callback", Before(List, v, u)
               PROVE  m \in ToSet(handled'[v])
    BY HandleSteps DEF CallbacksFirst, Recipients, HasHandled
  <2>1. v \in ToSet(List) /\ v \in Subs
    BY DEF Recipients
  <2>2. m \in ToSet(handled[v])
    <3>1. CASE m \in ToSet(handled[u])
      BY <3>1 DEF IInv, CallbacksFirst, HasHandled
    <3>2. CASE m \notin ToSet(handled[u])
      <4>1. u = s /\ m = n
        BY <3>2, HandleSteps
      <4>2. n \notin Owes(v, s, n)
        BY <2>1 DEF Handle, PassedByBroker
      <4> QED
        BY <4>1, <4>2 DEF Owes, HasHandled, Published
    <3> QED
      BY <3>1, <3>2
  <2>3. ToSet(handled[v]) \subseteq ToSet(handled'[v])
    BY <2>1, HandleSteps
  <2> QED
    BY <2>2, <2>3
<1>11. ReclaimedAfterAllHandled'
  <2>1. ASSUME NEW u \in Subs, NEW m \in ToSet(handled'[u]) PROVE u \in Recipients(m)
    <3>1. CASE m \in ToSet(handled[u])
      BY <3>1 DEF IInv, ReclaimedAfterAllHandled
    <3>2. CASE u = s /\ m = n
      BY <3>2 DEF Handle
    <3> QED
      BY <3>1, <3>2, HandleSteps
  <2>2. \A m : Recipients(m)' = Recipients(m)
    BY HandleSteps DEF Recipients
  <2>3. ASSUME NEW m \in reclaimed PROVE HandledByAll(m)'
    <3>1. HandledByAll(m)
      BY DEF IInv, ReclaimedAfterAllHandled
    <3>2. \A u \in Subs : ToSet(handled[u]) \subseteq ToSet(handled'[u])
      BY HandleSteps
    <3>3. \A u \in Recipients(m) : u \in Subs
      BY DEF Recipients
    <3> QED
      BY <3>1, <3>2, <3>3, <2>2 DEF HandledByAll, HasHandled
  <2>4. \A m \in reclaimed' : m \in reclaimed \/ HandledByAll(m)'
    BY DEF Handle
  <2> QED
    BY <2>1, <2>2, <2>3, <2>4 DEF ReclaimedAfterAllHandled
<1> QED
  BY <1>5, <1>6, <1>8, <1>9, <1>10, <1>11, HandleNoGaps DEF IInv

(* The invariant is inductive.                                             *)
LEMMA NextIInv == IInv /\ [Next]_vars => IInv'
<1> SUFFICES ASSUME IInv, [Next]_vars PROVE IInv'
  OBVIOUS
<1>1. CASE \E i \in MsgIds : Publish(i)
  BY <1>1, PublishIInv
<1>2. CASE \E n \in Published : Reclaim(n)
  BY <1>2, ReclaimIInv
<1>3. CASE \E s \in Subs, n \in Published : Handle(s, n)
  BY <1>3, HandleIInv
<1>4. CASE UNCHANGED vars
  BY <1>4, SMTT(30) DEF vars, IInv, TypeOK, NoGaps, AtMostOnce, InOrderFromBroker, InOrderAlongPath,
              CallbacksFirst, ReclaimedAfterAllHandled, HandledByAll, HasHandled,
              Recipients, Path, Published
<1> QED
  BY <1>1, <1>2, <1>3, <1>4 DEF Next

(* So it holds of every reachable state.                                   *)
LEMMA AlwaysIInv == Spec => []IInv
BY InitIInv, NextIInv, PTL DEF Spec

-----------------------------------------------------------------------------

(* Subscribers handle what was published, and only that is released.       *)
LEMMA TypeCorrect == Spec => []TypeOK
<1>1. IInv => TypeOK
  BY DEF IInv
<1> QED
  BY <1>1, AlwaysIInv, PTL

(* What the broker delivers itself is handled in the order published, what *)
(* fifo subscribers forward in the order published along the same path.    *)
THEOREM AlwaysInOrder == Spec => [](InOrderFromBroker /\ InOrderAlongPath)
<1>1. IInv => InOrderFromBroker /\ InOrderAlongPath
  BY DEF IInv
<1> QED
  BY <1>1, AlwaysIInv, PTL

(* Callback subscribers have handled a publication when a subscriber       *)
(* behind them in the list handles it.                                     *)
THEOREM AlwaysCallbacksFirst == Spec => []CallbacksFirst
<1>1. IInv => CallbacksFirst
  BY DEF IInv
<1> QED
  BY <1>1, AlwaysIInv, PTL

(* Only subscribers of a publication handle it, all of them before its     *)
(* message is released.                                                    *)
THEOREM AlwaysReclaimedLast == Spec => []ReclaimedAfterAllHandled
<1>1. IInv => ReclaimedAfterAllHandled
  BY DEF IInv
<1> QED
  BY <1>1, AlwaysIInv, PTL
=============================================================================
