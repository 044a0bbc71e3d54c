------------------------------- MODULE Delivery -------------------------------
(***************************************************************************)
(* What the broker promises the application, once the subscribers are      *)
(* configured: who handles a publication, in which order, and when its     *)
(* message is released.  There is no broker thread, no queue, no lock and  *)
(* no counter here.  PubSub is shown to implement this specification.      *)
(***************************************************************************)
EXTENDS SubscriberOrder, FiniteSets

CONSTANTS
    MsgqLen,    \* capacity of a msgq subscriber's queue
    MsgIds,     \* the message ids in use
    List,       \* the subscribers in the order of their priority
    Subscribed  \* the message ids each of them wants

VARIABLES
    published,  \* the ids published, in order
    handled,    \* the publications each subscriber has handled, in order
    reclaimed   \* the publications whose message has been released

vars == <<published, handled, reclaimed>>

Published == 1..Len(published)
Recipients(n) == {s \in Subs : s \in ToSet(List) /\ published[n] \in Subscribed[s]}
HasHandled(s, n) == n \in ToSet(handled[s])
HandledByAll(n) == \A s \in Recipients(n) : HasHandled(s, n)

(* What u has not handled of the publications before n, and of n itself if *)
(* u is ahead of s.                                                        *)
Owes(u, s, n) ==
    {k \in 1..n : u \in Recipients(k) /\ ~HasHandled(u, k) /\ (k = n => Before(List, u, s))}

(* The fifo subscribers a message with id i goes through before s.         *)
Path(s, i) == {u \in ToSet(List) : RxType[u] = "fifo" /\ Before(List, u, s) /\ i \in Subscribed[u]}

Init ==
    /\ published = <<>>
    /\ handled = [s \in Subs |-> <<>>]
    /\ reclaimed = {}

Publish(i) ==
    /\ published' = Append(published, i)
    /\ UNCHANGED <<handled, reclaimed>>

(* A subscriber that is served by the broker is given the publications in  *)
(* their order; a fifo subscriber those that come along the same path.     *)
IsNext(s, n) ==
    \A k \in Owes(s, s, n) :
        RxType[s] = "fifo" /\ Path(s, published[k]) # Path(s, published[n])

(* The broker passes a callback subscriber when its handler has returned,  *)
(* so none of them owes anything, and a msgq subscriber when its queue has *)
(* taken the message: it owes a full queue and what is in its handler.     *)
PassedByBroker(s, n) ==
    \A u \in ToSet(List) :
        /\ RxType[u] = "callback" => Owes(u, s, n) = {}
        /\ RxType[u] = "msgq" => Cardinality(Owes(u, s, n)) <= MsgqLen + 1

(* s handles n; it may have been the last holder of the message.           *)
Handle(s, n) ==
    /\ s \in Recipients(n) /\ ~HasHandled(s, n)
    /\ n \notin reclaimed
    /\ IsNext(s, n) /\ PassedByBroker(s, n)
    /\ handled' = [handled EXCEPT ![s] = Append(@, n)]
    /\ \/ UNCHANGED reclaimed
       \/ HandledByAll(n)' /\ reclaimed' = reclaimed \cup {n}
    /\ UNCHANGED published

(* README, "Message Flow", step 5: once all have handled it, the message   *)
(* is released back to its allocator.                                      *)
Reclaim(n) ==
    /\ n \notin reclaimed
    /\ HandledByAll(n)
    /\ reclaimed' = reclaimed \cup {n}
    /\ UNCHANGED <<published, handled>>

Next ==
    \/ \E i \in MsgIds : Publish(i)
    \/ \E n \in Published : Reclaim(n)
    \/ \E s \in Subs, n \in Published : Handle(s, n)

Spec == Init /\ [][Next]_vars

-----------------------------------------------------------------------------
(* What follows for the application.                                       *)

TypeOK ==
    /\ published \in Seq(MsgIds)
    /\ handled \in [Subs -> Seq(Published)]
    /\ reclaimed \subseteq Published

(* Nobody handles a publication twice.                                     *)
AtMostOnce == \A s \in Subs : \A i, j \in 1..Len(handled[s]) :
    handled[s][i] = handled[s][j] => i = j

(* Callback and msgq subscribers handle in the order published.            *)
InOrderFromBroker ==
    \A s \in Subs : RxType[s] # "fifo" =>
        \A i, j \in 1..Len(handled[s]) : i < j => handled[s][i] < handled[s][j]

(* A fifo subscriber handles in the order published what comes to it       *)
(* through the same fifo subscribers.                                      *)
InOrderAlongPath ==
    \A s \in Subs : \A i, j \in 1..Len(handled[s]) :
        i < j /\ Path(s, published[handled[s][i]]) = Path(s, published[handled[s][j]])
        => handled[s][i] < handled[s][j]

(* Whoever handles a publication does so after the callback subscribers    *)
(* ahead of it in the list.                                                *)
CallbacksFirst ==
    \A s \in Subs : \A n \in ToSet(handled[s]) : \A u \in Recipients(n) :
        RxType[u] = "callback" /\ Before(List, u, s) => HasHandled(u, n)

(* Only its subscribers handle a publication, all of them before its       *)
(* message is released.                                                    *)
ReclaimedAfterAllHandled ==
    /\ \A s \in Subs : \A n \in ToSet(handled[s]) : s \in Recipients(n)
    /\ \A n \in reclaimed : HandledByAll(n)
=============================================================================
