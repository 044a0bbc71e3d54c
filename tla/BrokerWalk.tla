------------------------------ MODULE BrokerWalk ------------------------------
(***************************************************************************)
(* The walk of process_msg over the subscriber list while the handlers it  *)
(* calls change that list.  sub_list_mutex keeps every other thread out,   *)
(* but it is reentrant: a callback handler may add and remove subscribers, *)
(* itself and the one the walk goes to next included.  Priorities change   *)
(* without the lock.                                                       *)
(***************************************************************************)
EXTENDS SubscriberList

VARIABLES
    sub,        \* the subscriber the walk is at, None between walks
    tmp,        \* the next one, read before the handler of sub is called
    due,        \* history: listed when the walk began and never removed
                \* since: those it still has to come to ...
    passed      \* ... and those it has left behind

walkVars == <<sub, tmp, due, passed>>

WalkInit ==
    /\ Init
    /\ sub = None /\ tmp = None
    /\ due = {} /\ passed = {}

(* process_msg takes sub_list_mutex and starts at the head.                *)
StartWalk ==
    /\ sub = None
    /\ list # <<>>
    /\ sub' = HeadOf(list)
    /\ tmp' = NextOf(list, HeadOf(list))
    /\ due' = Listed
    /\ UNCHANGED <<vars, passed>>

(* Mutant: the next subscriber is read when the handler has returned, as   *)
(* SYS_SLIST_FOR_EACH_CONTAINER would.                                     *)
NextNow == NextOf(list, sub)

(* SYS_SLIST_FOR_EACH_CONTAINER_SAFE                                       *)
NextSaved == tmp

(* The handler of sub has returned, or its msgq has taken the message, or  *)
(* sub is not interested in it.                                            *)
AdvanceWalk ==
    /\ sub # None /\ NextSaved # None
    /\ sub' = NextSaved
    /\ tmp' = NextOf(list, NextSaved)
    /\ due' = due \ {sub}
    /\ passed' = passed \cup (due \cap {sub})
    /\ UNCHANGED vars

(* Mutant: fifo_sub_handled is set for a msgq subscriber, too.             *)
MsgqOrFifo == RxType[sub] \in {"msgq", "fifo"}

(* sub is one after which fifo_sub_handled may be true: a fifo subscriber, *)
(* if it is interested.                                                    *)
MayBreak == RxType[sub] = "fifo"

(* The walk is over, at the end of the list or after a fifo subscriber     *)
(* that has taken the message, and sub_list_mutex is given back.           *)
EndWalk ==
    /\ sub # None
    /\ NextSaved = None \/ MayBreak
    /\ sub' = None /\ tmp' = None
    /\ due' = {} /\ passed' = {}
    /\ UNCHANGED vars

(* Who may take sub_list_mutex: anybody between walks, and during a walk   *)
(* the handler that is running in the broker's thread.                     *)
MayLock == sub # None => RxType[sub] = "callback"

LockAndAdd(s) ==
    /\ MayLock
    /\ AddSubscriber(s)
    /\ UNCHANGED walkVars

(* A handler that removes the very subscriber the walk goes to next makes  *)
(* its next pointer null: the walk ends with it, or goes on elsewhere if   *)
(* the handler adds it again.  Nobody is promised anything then.           *)
LockAndRemove(s) ==
    /\ MayLock
    /\ RemoveBroker(s)
    /\ due' = IF s = tmp THEN {} ELSE due \ {s}
    /\ passed' = IF s = tmp THEN {} ELSE passed \ {s}
    /\ UNCHANGED <<sub, tmp>>

WalkNext ==
    \/ StartWalk \/ AdvanceWalk \/ EndWalk
    \/ \E s \in Subs :
          \/ LockAndAdd(s) \/ LockAndRemove(s)
          \/ s \in Prioritized /\ \E p \in Priorities :
                SetPriority(s, p) /\ UNCHANGED walkVars

WalkSpec == WalkInit /\ [][WalkNext]_<<vars, walkVars>>

-----------------------------------------------------------------------------

(* Whatever the handlers add or remove, unless one of them removes the     *)
(* subscriber the walk goes to next, whoever has stayed in the list and    *)
(* was not visited is behind a fifo subscriber at which the walk has ended *)
(* (that one forwards the message), and is a fifo subscriber, too, if the  *)
(* list is sorted by type.  A walk that ends at any other subscriber has   *)
(* missed nobody.                                                          *)
WalkVisitsAll ==
    [][sub # None /\ sub' = None =>
         \A s \in due \ {sub} :
             /\ RxType[sub] = "fifo" /\ Before(list, sub, s)
             /\ IsSortedByType(list) => RxType[s] = "fifo"]_walkVars

(* Nor does the walk come back to one that has stayed: nobody gets a       *)
(* message twice but who was added again behind the walk.                  *)
VisitedOnce == sub \notin passed

(* "fifo subscribers are all at the end of the list" (broker.c), so that a *)
(* walk that breaks off after one of them leaves no other type without its *)
(* message.  A callback or msgq subscriber that is added when no other of  *)
(* its type is in the list goes behind the fifo subscribers.               *)
OthersBeforeFifo ==
    [][sub # None /\ sub' = None =>
         \A s \in due \ {sub} : RxType[s] = "fifo"]_walkVars

(* "Removing a subscriber from a broker will stop it receiving any         *)
(* published messages" (broker.h): the walk goes to listed subscribers     *)
(* only.  The one it has saved as the next it goes to all the same.        *)
VisitsListedOnly ==
    [][sub' # sub /\ sub' # None => sub' \in Listed]_walkVars
=============================================================================
