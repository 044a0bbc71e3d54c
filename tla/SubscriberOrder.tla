--------------------------- MODULE SubscriberOrder ---------------------------
(***************************************************************************)
(* The broker's list of subscribers as a pure data structure: where        *)
(* pub_sub_add_subscriber_to_broker puts a subscriber, what                *)
(* pub_sub_subscriber_remove_broker leaves, and which node the list links  *)
(* of a subscriber lead to (lib/pub_sub/broker.c).                         *)
(*                                                                         *)
(* The intrusive sys_slist is a sequence of subscribers without            *)
(* repetition; a subscriber outside of it has a null next pointer, which   *)
(* is what sys_slist_find_and_remove leaves in the node it unlinks.        *)
(***************************************************************************)
EXTENDS Integers, Sequences, SequencesExt

CONSTANTS
    Subs,       \* the subscribers (struct pub_sub_subscriber objects)
    RxType,     \* how each of them receives messages: rx_type
    None        \* the null pointer

RxTypes == {"callback", "msgq", "fifo"}

ASSUME RxTypeAssumption == RxType \in [Subs -> RxTypes]
ASSUME NoneIsNoSub      == None \notin Subs

(* The numeric value of enum pub_sub_rx_type.                              *)
TypeRank(s) == CASE RxType[s] = "callback" -> 0
                 [] RxType[s] = "msgq"     -> 1
                 [] RxType[s] = "fifo"     -> 2

SameType(s, t) == RxType[s] = RxType[t]

-----------------------------------------------------------------------------

(* Mutants: the end of the own group is not seen; the comparison of        *)
(* priorities is reversed; an equal priority stops; the search for the own *)
(* group is missing.                                                       *)
StopsAtPriority(list, prio, s, i) ==
    i = Len(list) + 1 \/ ((\E j \in 1..i : SameType(list[j], s)) /\ prio[list[i]] > prio[s])
StopsAtSmaller(list, prio, s, i) ==
    i = Len(list) + 1 \/ ((\E j \in 1..i : SameType(list[j], s))
                          /\ (~SameType(list[i], s) \/ prio[list[i]] < prio[s]))
StopsAtEqual(list, prio, s, i) ==
    i = Len(list) + 1 \/ ((\E j \in 1..i : SameType(list[j], s))
                          /\ (~SameType(list[i], s) \/ prio[list[i]] >= prio[s]))
StopsAtOtherType(list, prio, s, i) ==
    i = Len(list) + 1 \/ ~SameType(list[i], s) \/ prio[list[i]] > prio[s]

(* The insertion loops end at position i of the list: at its end, or, once *)
(* a subscriber of the new one's type has been met at or before i, at a    *)
(* subscriber of another type or of a larger priority value.               *)
StopsAt(list, prio, s, i) ==
    \/ i = Len(list) + 1
    \/ /\ \E j \in 1..i : SameType(list[j], s)
       /\ \/ ~SameType(list[i], s)
          \/ prio[list[i]] > prio[s]

InsertPos(list, prio, s) ==
    CHOOSE i \in 1..(Len(list) + 1) :
        /\ StopsAt(list, prio, s, i)
        /\ \A j \in 1..(i - 1) : ~StopsAt(list, prio, s, j)

(* sys_slist_insert after prev_node, the last node the loops passed.       *)
Inserted(list, prio, s) == InsertAt(list, InsertPos(list, prio, s), s)

IndexOf(list, s) == CHOOSE i \in 1..Len(list) : list[i] = s

(* Mutant: the nodes behind it are lost.                                   *)
RemovedTail(list, s) ==
    IF s \in ToSet(list) THEN SubSeq(list, 1, IndexOf(list, s) - 1) ELSE list

(* sys_slist_find_and_remove: nothing happens to a list without s.         *)
Removed(list, s) ==
    IF s \in ToSet(list) THEN RemoveAt(list, IndexOf(list, s)) ELSE list

HeadOf(list) == IF list = <<>> THEN None ELSE Head(list)

(* SYS_SLIST_PEEK_NEXT_CONTAINER(s, sub_list_node)                         *)
NextOf(list, s) ==
    IF s \in ToSet(list) /\ IndexOf(list, s) < Len(list)
    THEN list[IndexOf(list, s) + 1]
    ELSE None

-----------------------------------------------------------------------------

(* s comes before t in the list.                                           *)
Before(list, s, t) ==
    \E i, j \in 1..Len(list) : i < j /\ list[i] = s /\ list[j] = t

(* Subscribers of one type are contiguous.                                 *)
IsGrouped(list) ==
    \A i, j, k \in 1..Len(list) :
        i < j /\ j < k /\ SameType(list[i], list[k]) => SameType(list[i], list[j])

(* Among subscribers of type k, values of prio never decrease along the    *)
(* list.                                                                   *)
IsSortedWithin(list, prio, k) ==
    \A i, j \in 1..Len(list) :
        i < j /\ RxType[list[i]] = k /\ RxType[list[j]] = k
        => prio[list[i]] <= prio[list[j]]

(* Types appear in the order callback, msgq, fifo.                         *)
IsSortedByType(list) ==
    \A i, j \in 1..Len(list) : i < j => TypeRank(list[i]) <= TypeRank(list[j])
=============================================================================
