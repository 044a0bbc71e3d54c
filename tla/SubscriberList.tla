---------------------------- MODULE SubscriberList ----------------------------
(***************************************************************************)
(* The life of a broker's subscriber list: any sequence of                 *)
(* pub_sub_add_subscriber_to_broker, pub_sub_subscriber_remove_broker and  *)
(* pub_sub_subscriber_set_priority.  The mutations of the list are made    *)
(* under sub_list_mutex, so each is one step here; PubSub splits the calls *)
(* at the lock and shows what happens around it.                           *)
(***************************************************************************)
EXTENDS SubscriberOrder

CONSTANTS
    Priorities,     \* the values of the uint8_t priority field in use
    Prioritized     \* the subscribers whose priority is set by somebody

ASSUME PrioritiesAssumption == Priorities \subseteq 0..255 /\ 0 \in Priorities
ASSUME PrioritizedAssumption == Prioritized \subseteq Subs

VARIABLES
    list,           \* broker->subscribers
    priority,       \* subscriber->priority
    addedPriority,  \* history: the priority each listed one was added with
    reprioritized   \* history: the types of which a listed one's priority
                    \* has changed since the last time none was listed

vars == <<list, priority, addedPriority, reprioritized>>

Listed == ToSet(list)

(* common_subscriber_init gives every subscriber priority 0.               *)
Init ==
    /\ list = <<>>
    /\ priority = [s \in Subs |-> 0]
    /\ addedPriority = [s \in Subs |-> 0]
    /\ reprioritized = {}

(* Mutant: the assertion is compiled out.                                  *)
AddTwice(s) ==
    /\ list' = Inserted(list, priority, s)
    /\ Len(list) < 6
    /\ addedPriority' = [addedPriority EXCEPT ![s] = priority[s]]
    /\ UNCHANGED <<priority, reprioritized>>

(* pub_sub_add_subscriber_to_broker; the guard is its assertion that the   *)
(* subscriber has no broker.                                               *)
AddSubscriber(s) ==
    /\ s \notin Listed
    /\ list' = Inserted(list, priority, s)
    /\ addedPriority' = [addedPriority EXCEPT ![s] = priority[s]]
    /\ UNCHANGED <<priority, reprioritized>>

(* pub_sub_subscriber_remove_broker                                        *)
RemoveBroker(s) ==
    /\ s \in Listed
    /\ list' = Removed(list, s)
    /\ addedPriority' = [addedPriority EXCEPT ![s] = 0]
    /\ reprioritized' = {k \in reprioritized : \E t \in Listed \ {s} : RxType[t] = k}
    /\ UNCHANGED priority

(* pub_sub_subscriber_set_priority, which nothing stops from being called  *)
(* on a listed subscriber.                                                 *)
SetPriority(s, p) ==
    /\ priority' = [priority EXCEPT ![s] = p]
    /\ reprioritized' = IF s \in Listed /\ p # priority[s]
                        THEN reprioritized \cup {RxType[s]} ELSE reprioritized
    /\ UNCHANGED <<list, addedPriority>>

Next ==
    \E s \in Subs :
        \/ AddSubscriber(s)
        \/ RemoveBroker(s)
        \/ s \in Prioritized /\ \E p \in Priorities : SetPriority(s, p)

Spec == Init /\ [][Next]_vars

-----------------------------------------------------------------------------

(* No node is in the list twice: its links would otherwise form a cycle.   *)
NoDuplicates == \A i, j \in 1..Len(list) : list[i] = list[j] => i = j

(* The variables have their types and the list has no duplicates.          *)
TypeOK ==
    /\ list \in Seq(Subs)
    /\ NoDuplicates
    /\ priority \in [Subs -> Priorities]
    /\ addedPriority \in [Subs -> Priorities]
    /\ reprioritized \subseteq RxTypes

(* Subscribers of one type always stay together, whatever the order of     *)
(* adds, removes and priority changes: the two search loops of             *)
(* pub_sub_add_subscriber_to_broker never split a group.                   *)
GroupedByType == IsGrouped(list)

(* Every type's part of the list is sorted by the priorities its           *)
(* subscribers were added with (lib/pub_sub/broker.c: "Then they are       *)
(* sorted by priority value for each type"), as long as none of them has   *)
(* been given another priority; a change for another type does no harm.    *)
SortedAsAdded ==
    \A k \in RxTypes \ reprioritized : IsSortedWithin(list, addedPriority, k)

(* The order callback, msgq, fifo survives every remove, and every add     *)
(* that finds its own type in the list or only earlier types: the order of *)
(* adds the code needs and does not check.                                 *)
SortedByTypeKept ==
    [][/\ IsSortedByType(list)
       /\ \A s \in ToSet(list') \ ToSet(list) :
              \/ \E t \in Listed : SameType(s, t)
              \/ \A t \in Listed : TypeRank(t) < TypeRank(s)
       => IsSortedByType(list')]_vars

(* Equal priorities keep the order of adding: a new subscriber goes behind *)
(* those of its type that were added with the same priority (a larger      *)
(* priority value stops the second loop, an equal one does not), as long   *)
(* as no priority of that type has been changed.                           *)
NewestLastAmongEquals ==
    [][\A s \in ToSet(list') \ Listed, t \in Listed :
           /\ SameType(s, t) /\ RxType[s] \notin reprioritized
           /\ addedPriority'[s] = addedPriority[t]
           => Before(list', t, s)]_vars

(* "Changing a subscriber's priority after it has been added to a broker   *)
(* has no effect as the broker only checks the priority value when it is   *)
(* added" (subscriber.h): the order would be that of the priorities at the *)
(* time of adding, whatever was changed since.  It is not, as the second   *)
(* loop compares with the priorities that listed subscribers have now.     *)
PriorityOnlyWhenAdded ==
    \A k \in RxTypes : IsSortedWithin(list, addedPriority, k)
=============================================================================
