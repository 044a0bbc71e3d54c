------------------------- MODULE SubscriberListProofs -------------------------
(***************************************************************************)
(* Safety of the broker's subscriber list for every set of subscribers,    *)
(* every assignment of types and every history of adds, removes and        *)
(* priority changes, and of the broker's walk over it.                     *)
(***************************************************************************)
EXTENDS BrokerWalk, SubscriberOrderProofs

(* Adding a subscriber that is not listed makes no duplicates.             *)
LEMMA AddKeepsTypes ==
    ASSUME TypeOK, NEW s \in Subs, AddSubscriber(s)
    PROVE  TypeOK'
<1> DEFINE p == InsertPos(list, priority, s)
           old(i) == IF i < p THEN i ELSE i - 1
<1> USE DEF AddSubscriber, TypeOK, Listed
<1>1. /\ Len(list) \in Nat /\ p \in 1..(Len(list) + 1)
      /\ list' \in Seq(Subs)
      /\ Len(list') = Len(list) + 1
      /\ \A i \in 1..Len(list') :
            list'[i] = IF i = p THEN s ELSE list[old(i)]
  BY InsertPosFirst, InsertedAt
<1> HIDE DEF p
<1>2. \A i \in 1..Len(list) : list[i] # s
  BY DEF ToSet
<1>3. ASSUME NEW i \in 1..Len(list'), NEW j \in 1..Len(list'), list'[i] = list'[j]
      PROVE  i = j
  <2>1. \A a, b \in 1..Len(list) : list[a] = list[b] => a = b
    BY DEF NoDuplicates
  <2>2. i # p => old(i) \in 1..Len(list)
    BY <1>1
  <2>3. j # p => old(j) \in 1..Len(list)
    BY <1>1
  <2>4. CASE i # p /\ j # p
    <3>1. list[old(i)] = list[old(j)]
      BY <1>1, <1>3, <2>4
    <3>2. old(i) = old(j)
      BY <2>1, <2>2, <2>3, <2>4, <3>1
    <3> QED
      BY <1>1, <2>4, <3>2
  <2>5. CASE i = p \/ j = p
    <3>1. i = p /\ j = p
      BY <1>1, <1>2, <1>3, <2>2, <2>3, <2>5
    <3> QED
      BY <3>1
  <2> QED
    BY <2>4, <2>5
<1>4. /\ priority' \in [Subs -> Priorities] /\ reprioritized' \subseteq RxTypes
      /\ addedPriority' \in [Subs -> Priorities]
  OBVIOUS
<1> QED
  BY <1>1, <1>3, <1>4 DEF NoDuplicates

(* Neither does removing one.                                              *)
LEMMA RemoveKeepsTypes ==
    ASSUME TypeOK, NEW s \in Subs, RemoveBroker(s)
    PROVE  TypeOK'
<1> DEFINE p == IndexOf(list, s)
           old(i) == IF i < p THEN i ELSE i + 1
<1> USE DEF RemoveBroker, TypeOK, Listed
<1>1. /\ Len(list) \in Nat /\ p \in 1..Len(list)
      /\ list' \in Seq(Subs)
      /\ Len(list') = Len(list) - 1
      /\ \A i \in 1..Len(list') : list'[i] = list[old(i)]
  BY RemovedAt
<1> HIDE DEF p
<1>2. ASSUME NEW i \in 1..Len(list'), NEW j \in 1..Len(list'), list'[i] = list'[j]
      PROVE  i = j
  <2>1. \A a, b \in 1..Len(list) : list[a] = list[b] => a = b
    BY DEF NoDuplicates
  <2>2. old(i) \in 1..Len(list) /\ old(j) \in 1..Len(list)
    BY <1>1
  <2>3. list[old(i)] = list[old(j)]
    BY <1>1, <1>2
  <2>4. old(i) = old(j)
    BY <2>1, <2>2, <2>3
  <2> QED
    BY <1>1, <2>4
<1>3. /\ priority' \in [Subs -> Priorities] /\ reprioritized' \subseteq RxTypes
      /\ addedPriority' \in [Subs -> Priorities]
  BY PrioritiesAssumption
<1> QED
  BY <1>1, <1>2, <1>3 DEF NoDuplicates

(* Every variable keeps its type and no subscriber is ever linked into the *)
(* list twice, for all subscribers and priorities.                         *)
THEOREM TypeCorrect == Spec => []TypeOK
<1>1. Init => TypeOK
  BY PrioritiesAssumption DEF Init, TypeOK, NoDuplicates
<1>2. TypeOK /\ [Next]_vars => TypeOK'
  <2> SUFFICES ASSUME TypeOK, [Next]_vars
               PROVE  TypeOK'
    OBVIOUS
  <2>1. ASSUME NEW s \in Subs, AddSubscriber(s)
        PROVE  TypeOK'
    BY <2>1, AddKeepsTypes
  <2>2. ASSUME NEW s \in Subs, RemoveBroker(s)
        PROVE  TypeOK'
    BY <2>2, RemoveKeepsTypes
  <2>3. ASSUME NEW s \in Subs, NEW q \in Priorities, SetPriority(s, q)
        PROVE  TypeOK'
    <3>1. RxType[s] \in RxTypes
      BY RxTypeAssumption
    <3> QED
      BY <2>3, <3>1 DEF TypeOK, NoDuplicates, SetPriority
  <2>4. CASE UNCHANGED vars
    BY <2>4 DEF TypeOK, NoDuplicates, vars
  <2> QED
    BY <2>1, <2>2, <2>3, <2>4 DEF Next
<1> QED
  BY <1>1, <1>2, PTL DEF Spec

(* The subscribers of a type always form one block of the list, whatever   *)
(* is added, removed or given another priority, and in whatever order: the *)
(* invariant is inductive once the list is known to be a sequence of       *)
(* subscribers.                                                            *)
THEOREM AlwaysGrouped == Spec => []GroupedByType
<1>1. Init => GroupedByType
  BY DEF Init, GroupedByType, IsGrouped
<1>2. TypeOK /\ GroupedByType /\ [Next]_vars => GroupedByType'
  <2> SUFFICES ASSUME TypeOK, GroupedByType, [Next]_vars
               PROVE  GroupedByType'
    OBVIOUS
  <2> USE DEF GroupedByType
  <2>1. ASSUME NEW s \in Subs, AddSubscriber(s)
        PROVE  GroupedByType'
    BY <2>1, InsertedIsGrouped DEF AddSubscriber, TypeOK
  <2>2. ASSUME NEW s \in Subs, RemoveBroker(s)
        PROVE  GroupedByType'
    BY <2>2, RemovedIsGrouped DEF RemoveBroker, TypeOK, Listed
  <2>3. ASSUME NEW s \in Subs, NEW q \in Priorities, SetPriority(s, q)
        PROVE  GroupedByType'
    BY <2>3 DEF SetPriority
  <2>4. CASE UNCHANGED vars
    BY <2>4 DEF vars
  <2> QED
    BY <2>1, <2>2, <2>3, <2>4 DEF Next
<1> QED
  BY <1>1, <1>2, TypeCorrect, PTL DEF Spec
-----------------------------------------------------------------------------
(* What a call may not do to the order.                                    *)

(* The three kinds of steps, each with what it makes of the list.          *)
LEMMA StepOfList ==
    ASSUME TypeOK, [Next]_vars
    PROVE  \/ UNCHANGED list
           \/ \E s \in Subs : s \notin Listed /\ AddSubscriber(s)
           \/ \E s \in Listed : list' = Removed(list, s)
BY DEF Next, vars, AddSubscriber, RemoveBroker, SetPriority

(* What the lemmas about sequences ask of the list.                        *)
LEMMA TypesOfList ==
    ASSUME TypeOK
    PROVE  /\ list \in Seq(Subs) /\ NoRepeats(list) /\ priority \in [Subs -> Int]
           /\ \A s : s \in ToSet(list) <=> \E i \in 1..Len(list) : list[i] = s
<1>1. /\ list \in Seq(Subs) /\ NoRepeats(list)
      /\ priority \in [Subs -> Priorities] /\ Priorities \subseteq Int
  BY PrioritiesAssumption DEF TypeOK, NoDuplicates, NoRepeats
<1>2. priority \in [Subs -> Int]
  BY <1>1
<1>3. \A s : s \in ToSet(list) <=> \E i \in 1..Len(list) : list[i] = s
  BY <1>1 DEF ToSet
<1> QED
  BY <1>1, <1>2, <1>3

(* Where no priority has changed the listed subscribers still have the one *)
(* they were added with, which is what new ones are compared with.         *)
AsAdded ==
    \A s \in Listed : RxType[s] \notin reprioritized => addedPriority[s] = priority[s]

Sorted == AsAdded /\ SortedAsAdded

(* Two functions that agree on the listed subscribers of a type sort them  *)
(* alike.                                                                  *)
LEMMA SortedAlike ==
    ASSUME NEW l \in Seq(Subs), NEW f, NEW g, NEW k, IsSortedWithin(l, f, k),
           \A s \in ToSet(l) : RxType[s] = k => f[s] = g[s]
    PROVE  IsSortedWithin(l, g, k)
<1>1. \A i \in 1..Len(l) : l[i] \in ToSet(l)
  BY DEF ToSet
<1> QED
  BY <1>1 DEF IsSortedWithin

(* An added subscriber is compared with the priorities of its type, which  *)
(* are those the others were added with.                                   *)
LEMMA AddKeepsSorted ==
    ASSUME TypeOK, GroupedByType, Sorted, NEW s \in Subs, AddSubscriber(s)
    PROVE  Sorted'
<1>1. /\ list \in Seq(Subs) /\ NoRepeats(list) /\ priority \in [Subs -> Int]
      /\ IsGrouped(list)
  BY TypesOfList DEF GroupedByType
<1>2. /\ list' = Inserted(list, priority, s) /\ s \notin Listed
      /\ priority' = priority /\ reprioritized' = reprioritized
      /\ addedPriority' = [addedPriority EXCEPT ![s] = priority[s]]
      /\ addedPriority \in [Subs -> Priorities]
  BY DEF AddSubscriber, TypeOK
<1>3. ToSet(list') = ToSet(list) \cup {s} /\ list' \in Seq(Subs)
  BY <1>1, <1>2, InsertedKeepsOrder, InsertedShifts
<1>4. ASSUME NEW t \in ToSet(list'), RxType[t] \notin reprioritized
      PROVE  addedPriority'[t] = priority[t]
  <2>1. t \in Subs
    BY <1>3 DEF ToSet
  <2>2. CASE t = s
    BY <1>2, <2>2
  <2>3. CASE t # s
    BY <1>2, <1>3, <1>4, <2>1, <2>3 DEF Sorted, AsAdded, Listed
  <2> QED
    BY <2>2, <2>3
<1>5. ASSUME NEW k \in RxTypes \ reprioritized
      PROVE  IsSortedWithin(list', addedPriority', k)
  <2>1. \A t \in ToSet(list) : RxType[t] = k => addedPriority[t] = priority[t]
    BY DEF Sorted, AsAdded, Listed
  <2>2. IsSortedWithin(list, priority, k)
    BY <1>1, <2>1, SortedAlike DEF Sorted, SortedAsAdded
  <2>3. IsSortedWithin(list', priority, k)
    BY <1>1, <1>2, <2>2, InsertedSortedWithin
  <2> QED
    BY <1>3, <1>4, <2>3, SortedAlike
<1> QED
  BY <1>2, <1>4, <1>5 DEF Sorted, AsAdded, SortedAsAdded, Listed

(* A removal leaves the others where they are; the changes of priority are *)
(* forgotten with the last subscriber of the type.                         *)
LEMMA RemoveKeepsSorted ==
    ASSUME TypeOK, Sorted, NEW s \in Subs, RemoveBroker(s)
    PROVE  Sorted'
<1>1. list \in Seq(Subs) /\ NoRepeats(list)
  BY TypesOfList
<1>2. /\ list' = Removed(list, s) /\ priority' = priority
      /\ addedPriority' = [addedPriority EXCEPT ![s] = 0]
      /\ addedPriority \in [Subs -> Priorities]
      /\ reprioritized' = {k \in reprioritized : \E t \in Listed \ {s} : RxType[t] = k}
  BY DEF RemoveBroker, TypeOK
<1>3. ToSet(list') = ToSet(list) \ {s} /\ list' \in Seq(Subs)
  BY <1>1, <1>2, RemovedKeepsOrder, RemoveKeepsTypes DEF TypeOK
<1>4. ASSUME NEW t \in ToSet(list')
      PROVE  t \in Subs /\ t \in Listed \ {s} /\ addedPriority'[t] = addedPriority[t]
  <2>1. t \in Subs
    BY <1>3 DEF ToSet
  <2> QED
    BY <1>2, <1>3, <2>1 DEF Listed
<1>5. AsAdded'
  BY <1>2, <1>4 DEF Sorted, AsAdded, Listed
<1>6. ASSUME NEW k \in RxTypes \ reprioritized'
      PROVE  IsSortedWithin(list', addedPriority', k)
  <2>1. CASE k \notin reprioritized
    <3>1. IsSortedWithin(list', addedPriority, k)
      BY <1>1, <1>2, <2>1, RemovedSorted DEF Sorted, SortedAsAdded
    <3> QED
      BY <1>3, <1>4, <3>1, SortedAlike
  <2>2. CASE k \in reprioritized
    <3>1. \A t \in ToSet(list') : RxType[t] # k
      BY <1>2, <1>4, <2>2
    <3>2. \A i \in 1..Len(list') : list'[i] \in ToSet(list')
      BY <1>3 DEF ToSet
    <3> QED
      BY <3>1, <3>2 DEF IsSortedWithin
  <2> QED
    BY <2>1, <2>2
<1> QED
  BY <1>5, <1>6 DEF Sorted, SortedAsAdded

(* What is kept is inductive: a priority that is changed to another value  *)
(* takes the promise about its type away.                                  *)
LEMMA NextSorted == TypeOK /\ GroupedByType /\ Sorted /\ [Next]_vars => Sorted'
<1> SUFFICES ASSUME TypeOK, GroupedByType, Sorted, [Next]_vars
             PROVE  Sorted'
  OBVIOUS
<1>1. ASSUME NEW s \in Subs, NEW q \in Priorities, SetPriority(s, q)
      PROVE  Sorted'
  <2>1. /\ list' = list /\ addedPriority' = addedPriority /\ reprioritized \subseteq reprioritized'
        /\ priority' = [priority EXCEPT ![s] = q] /\ priority \in [Subs -> Priorities]
        /\ s \in Listed /\ q # priority[s] => RxType[s] \in reprioritized'
    BY <1>1 DEF SetPriority, TypeOK
  <2>2. AsAdded'
    BY <2>1, TypesOfList DEF Sorted, AsAdded, Listed
  <2> QED
    BY <2>1, <2>2 DEF Sorted, SortedAsAdded
<1>2. CASE UNCHANGED vars
  BY <1>2 DEF Sorted, AsAdded, SortedAsAdded, Listed, vars
<1> QED
  BY <1>1, <1>2, AddKeepsSorted, RemoveKeepsSorted DEF Next

(* The subscribers of each type are in the order of the priorities they    *)
(* were added with, as long as none of that type gets another one:         *)
(* AlwaysGrouped is what makes the second loop stop inside the right       *)
(* group.                                                                  *)
THEOREM AlwaysSortedAsAdded == Spec => []SortedAsAdded
<1>1. Init => Sorted
  BY DEF Init, Sorted, AsAdded, SortedAsAdded, IsSortedWithin, Listed, ToSet
<1>2. Sorted => SortedAsAdded
  BY DEF Sorted
<1> QED
  BY <1>1, <1>2, NextSorted, TypeCorrect, AlwaysGrouped, PTL DEF Spec

(* The whole of it, for the property of the steps below.                   *)
LEMMA AlwaysSorted == Spec => [](TypeOK /\ GroupedByType /\ Sorted)
<1>1. Init => Sorted
  BY DEF Init, Sorted, AsAdded, SortedAsAdded, IsSortedWithin, Listed, ToSet
<1> QED
  BY <1>1, NextSorted, TypeCorrect, AlwaysGrouped, PTL DEF Spec

(* A list whose types are in the order callback, msgq, fifo stays so under *)
(* every remove, and under every add of a type that is in the list or      *)
(* comes after all that are.                                               *)
THEOREM AlwaysSortedByType == Spec => SortedByTypeKept
<1>1. ASSUME TypeOK, [Next]_vars, IsSortedByType(list),
             \A s \in ToSet(list') \ ToSet(list) :
                 \/ \E t \in Listed : SameType(s, t)
                 \/ \A t \in Listed : TypeRank(t) < TypeRank(s)
      PROVE  IsSortedByType(list')
  <2>1. list \in Seq(Subs)
    BY <1>1, TypesOfList
  <2>2. CASE UNCHANGED list
    BY <1>1, <2>2
  <2>3. ASSUME NEW u \in Subs, u \notin Listed, AddSubscriber(u)
        PROVE  IsSortedByType(list')
    <3>0. list' = Inserted(list, priority, u)
      BY <2>3 DEF AddSubscriber
    <3>1. u \in ToSet(list') \ ToSet(list)
      BY <2>1, <2>3, <3>0, InsertedKeepsOrder DEF Listed
    <3>2. \/ \E t \in ToSet(list) : SameType(u, t)
          \/ \A t \in ToSet(list) : TypeRank(t) < TypeRank(u)
      BY <1>1, <3>1 DEF Listed
    <3> QED
      BY <1>1, <2>1, <3>0, <3>2, InsertedSortedByType
  <2>4. ASSUME NEW u \in Listed, list' = Removed(list, u)
        PROVE  IsSortedByType(list')
    BY <1>1, <2>1, <2>4, RemovedSorted
  <2> QED
    BY <1>1, <2>2, <2>3, <2>4, StepOfList
<1> QED
  BY <1>1, TypeCorrect, PTL DEF Spec, SortedByTypeKept

(* A subscriber that is added goes behind every one of its type that was   *)
(* added with the same priority value, unless a priority of that type has  *)
(* been changed.                                                           *)
THEOREM AlwaysNewestLast == Spec => NewestLastAmongEquals
<1>1. ASSUME TypeOK, GroupedByType, Sorted, [Next]_vars, NEW s \in ToSet(list') \ Listed,
             NEW t \in Listed, SameType(s, t), RxType[s] \notin reprioritized,
             addedPriority'[s] = addedPriority[t]
      PROVE  Before(list', t, s)
  <2>1. /\ list \in Seq(Subs) /\ NoRepeats(list) /\ priority \in [Subs -> Int]
        /\ IsGrouped(list)
    BY <1>1, TypesOfList DEF GroupedByType
  <2>2. UNCHANGED list => FALSE
    BY <1>1 DEF Listed
  <2>3. ASSUME NEW u \in Subs, AddSubscriber(u)
        PROVE  Before(list', t, s)
    <3>0. list' = Inserted(list, priority, u)
      BY <2>3 DEF AddSubscriber
    <3>1. u = s
      <4>1. ToSet(list') = ToSet(list) \cup {u}
        BY <2>1, <3>0, InsertedKeepsOrder
      <4> QED
        BY <1>1, <4>1 DEF Listed
    <3>2. PICK i \in 1..Len(list) : list[i] = t
      BY <1>1, TypesOfList DEF Listed
    <3>3. PICK p : p = InsertPos(list, priority, s)
      OBVIOUS
    <3>4. priority[s] = priority[t] /\ IsSortedWithin(list, priority, RxType[s])
      <4>1. addedPriority'[s] = priority[s]
        BY <1>1, <2>3, <3>1 DEF AddSubscriber, TypeOK
      <4>2. \A v \in ToSet(list) : RxType[v] = RxType[s] => addedPriority[v] = priority[v]
        BY <1>1 DEF Sorted, AsAdded, Listed
      <4>3. RxType[s] \in RxTypes
        BY <3>1, RxTypeAssumption
      <4>4. IsSortedWithin(list, priority, RxType[s])
        BY <1>1, <2>1, <4>2, <4>3, SortedAlike DEF Sorted, SortedAsAdded
      <4> QED
        BY <1>1, <4>1, <4>2, <4>4 DEF SameType, Listed
    <3>5. i < p
      <4>1. IF i < p THEN priority[list[i]] <= priority[s] ELSE priority[list[i]] > priority[s]
        BY <1>1, <2>1, <3>1, <3>2, <3>3, <3>4, InsertPosWithinType DEF SameType
      <4>2. priority[s] \in Int
        BY <2>1, <3>1
      <4> QED
        BY <3>2, <3>4, <4>1, <4>2
    <3>6. /\ p \in 1..Len(list') /\ list'[p] = s
          /\ Up(p, i) \in 1..Len(list') /\ list'[Up(p, i)] = list[i]
      BY <2>1, <3>0, <3>1, <3>2, <3>3, InsertedShifts, SMTT(30)
    <3> QED
      BY <3>2, <3>5, <3>6 DEF Before, Up
  <2>4. ASSUME NEW u \in Listed, list' = Removed(list, u)
        PROVE  FALSE
    <3>1. ToSet(list') = ToSet(list) \ {u}
      BY <2>1, <2>4, RemovedKeepsOrder
    <3> QED
      BY <1>1, <3>1 DEF Listed
  <2> QED
    BY <1>1, <2>2, <2>3, <2>4, StepOfList
<1>2. TypeOK /\ GroupedByType /\ Sorted /\ [Next]_vars =>
        \A s \in ToSet(list') \ Listed, t \in Listed :
           /\ SameType(s, t) /\ RxType[s] \notin reprioritized
           /\ addedPriority'[s] = addedPriority[t]
           => Before(list', t, s)
  BY <1>1
<1> QED
  BY <1>2, AlwaysSorted, PTL DEF Spec, NewestLastAmongEquals
-----------------------------------------------------------------------------
(* The walk.                                                               *)

walk == <<vars, walkVars>>

(* Whatever the walk and the handlers do, the list lives by the rules of   *)
(* SubscriberList: its theorems above hold of a list that is changed under *)
(* the walk.                                                               *)
THEOREM WalkKeepsListRules == WalkSpec => Spec
<1>1. WalkInit => Init
  BY DEF WalkInit
<1>2. [WalkNext]_walk => [Next]_vars
  BY DEF WalkNext, Next, StartWalk, AdvanceWalk, EndWalk, LockAndAdd, LockAndRemove,
         SetPriority, vars, walk
<1> QED
  BY <1>1, <1>2, PTL DEF WalkSpec, Spec, walk

(* Those that are due are the one the walk is at and some of those it can  *)
(* still reach through the saved pointer; those it has left behind are     *)
(* before that pointer.  Both hold although the handlers change the list,  *)
(* as long as the node tmp points to stays in it.                          *)
Reachable == \A s \in due \ {sub} : tmp # None /\ (s = tmp \/ Before(list, tmp, s))
LeftBehind == \A s \in passed : s # sub /\ (tmp # None => Before(list, s, tmp))
WalkInv ==
    /\ sub = None => tmp = None /\ due = {} /\ passed = {}
    /\ ~MayLock => tmp = NextOf(list, sub)
    /\ Reachable
    /\ LeftBehind
    /\ sub \in due /\ tmp # None => Before(list, sub, tmp)

(* Each step of the walk, and each change of the list between and during   *)
(* walks, keeps what the walk promises.                                    *)
LEMMA WalkStep ==
    ASSUME TypeOK, WalkInv, [WalkNext]_walk
    PROVE  WalkInv'
<1>1. list \in Seq(Subs) /\ NoRepeats(list)
  BY TypesOfList
<1>2. CASE StartWalk
  <2>1. /\ sub = None /\ passed' = {} /\ due' = ToSet(list) /\ list' = list
        /\ sub' = HeadOf(list) /\ tmp' = NextOf(list, HeadOf(list))
    BY <1>2 DEF StartWalk, WalkInv, Listed, vars
  <2>2. ASSUME NEW s \in ToSet(list), s # HeadOf(list)
        PROVE  NextOf(list, HeadOf(list)) # None
               /\ (s = NextOf(list, HeadOf(list)) \/ Before(list, NextOf(list, HeadOf(list)), s))
    BY <1>1, <2>2, HeadIsFirst, NextOfIsNearest
  <2>3. NextOf(list, HeadOf(list)) # None => Before(list, HeadOf(list), NextOf(list, HeadOf(list)))
    BY <1>1, NextOfIsNearest
  <2>4. HeadOf(list) # None
    BY <1>1, <1>2, NoneIsNoSub DEF HeadOf, StartWalk
  <2> QED
    BY <2>1, <2>2, <2>3, <2>4 DEF WalkInv, Reachable, LeftBehind
<1>3. CASE AdvanceWalk
  <2>1. /\ sub # None /\ tmp # None /\ sub' = tmp /\ tmp' = NextOf(list, tmp) /\ list' = list
        /\ due' = due \ {sub} /\ passed' = passed \cup (due \cap {sub})
    BY <1>3 DEF AdvanceWalk, NextSaved, vars
  <2>2. NextOf(list, tmp) # None => Before(list, tmp, NextOf(list, tmp))
    BY <1>1, NextOfIsNearest
  <2>3. Reachable'
    <3>1. ASSUME NEW s \in due' \ {sub'}
          PROVE  NextOf(list, tmp) # None
                 /\ (s = NextOf(list, tmp) \/ Before(list, NextOf(list, tmp), s))
      <4>1. Before(list, tmp, s)
        BY <2>1, <3>1 DEF WalkInv, Reachable
      <4> QED
        BY <1>1, <4>1, NextOfIsNearest
    <3> QED
      BY <2>1, <3>1 DEF Reachable
  <2>4. LeftBehind'
    <3>1. ASSUME NEW s \in passed'
          PROVE  Before(list, s, tmp)
      BY <2>1, <3>1 DEF WalkInv, LeftBehind
    <3>2. ASSUME NEW s \in passed'
          PROVE  s # tmp /\ (NextOf(list, tmp) # None => Before(list, s, NextOf(list, tmp)))
      BY <1>1, <2>2, <3>1, BeforeIsStrict
    <3> QED
      BY <2>1, <3>2 DEF LeftBehind
  <2> QED
    BY <2>1, <2>2, <2>3, <2>4 DEF WalkInv
<1>4. CASE EndWalk
  BY <1>4 DEF EndWalk, MayLock, WalkInv, Reachable, LeftBehind
<1>5. ASSUME NEW u \in Subs, LockAndAdd(u)
      PROVE  WalkInv'
  <2>1. UNCHANGED walkVars /\ \A a, b : Before(list, a, b) => Before(list', a, b)
    BY <1>1, <1>5, InsertedKeepsOrder DEF LockAndAdd, AddSubscriber
  <2>2. MayLock'
    BY <1>5, <2>1 DEF LockAndAdd, MayLock, walkVars
  <2> QED
    BY <2>1, <2>2 DEF WalkInv, Reachable, LeftBehind, walkVars
<1>6. ASSUME NEW u \in Subs, LockAndRemove(u)
      PROVE  WalkInv'
  <2>1. /\ UNCHANGED <<sub, tmp>>
        /\ due' = IF u = tmp THEN {} ELSE due \ {u}
        /\ passed' = IF u = tmp THEN {} ELSE passed \ {u}
        /\ list' = Removed(list, u) /\ MayLock'
    BY <1>6 DEF LockAndRemove, RemoveBroker, MayLock
  <2>2. \A a, b : Before(list, a, b) /\ a # u /\ b # u => Before(list', a, b)
    BY <1>1, <2>1, RemovedKeepsOrder
  <2>3. CASE u = tmp
    BY <2>1, <2>3, NoneIsNoSub DEF WalkInv, Reachable, LeftBehind
  <2>4. CASE u # tmp
    <3>1. Reachable'
      BY <2>1, <2>2, <2>4 DEF WalkInv, Reachable
    <3>2. LeftBehind'
      BY <2>1, <2>2, <2>4 DEF WalkInv, LeftBehind
    <3> QED
      BY <2>1, <2>2, <2>4, <3>1, <3>2 DEF WalkInv
  <2> QED
    BY <2>3, <2>4
<1>7. ASSUME UNCHANGED <<list, walkVars>>
      PROVE  WalkInv'
  BY <1>7 DEF MayLock, WalkInv, Reachable, LeftBehind, walkVars
<1> QED
  BY <1>2, <1>3, <1>4, <1>5, <1>6, <1>7 DEF WalkNext, SetPriority, walk, vars

(* At every step of every walk what is still due can be reached through    *)
(* the saved pointer, and what has been passed is before it.               *)
THEOREM AlwaysWalkInv == WalkSpec => [](TypeOK /\ WalkInv)
<1>1. WalkInit => WalkInv
  BY DEF WalkInit, MayLock, WalkInv, Reachable, LeftBehind
<1> QED
  BY <1>1, WalkStep, WalkKeepsListRules, TypeCorrect, PTL DEF WalkSpec, walk

(* A walk that ends leaves nobody behind who is listed from its start to   *)
(* its end, but those behind a fifo subscriber that has taken the message; *)
(* however the handlers change the rest of the list, unless one removes    *)
(* the node the saved pointer leads to.                                    *)
THEOREM WalkMissesNobody == WalkSpec => WalkVisitsAll
<1>1. ASSUME TypeOK, WalkInv, [WalkNext]_walk, sub # None, sub' = None, NEW s \in due \ {sub}
      PROVE  /\ RxType[sub] = "fifo" /\ Before(list, sub, s)
             /\ IsSortedByType(list) => RxType[s] = "fifo"
  <2>1. EndWalk
    <3>1. ~StartWalk
      BY <1>1 DEF StartWalk
    <3>2. ~AdvanceWalk
      BY <1>1 DEF AdvanceWalk
    <3>3. sub' # sub
      BY <1>1
    <3> QED
      BY <1>1, <3>1, <3>2, <3>3 DEF WalkNext, LockAndAdd, LockAndRemove, walkVars, walk
  <2>2. tmp # None /\ (s = tmp \/ Before(list, tmp, s))
    BY <1>1 DEF WalkInv, Reachable
  <2>3. RxType[sub] = "fifo"
    BY <2>1, <2>2 DEF EndWalk, NextSaved, MayBreak
  <2>4. tmp = NextOf(list, sub) /\ list \in Seq(Subs) /\ NoRepeats(list)
    BY <1>1, <2>3, TypesOfList DEF WalkInv, MayLock
  <2>5. Before(list, sub, tmp)
    BY <2>2, <2>4, NextOfIsNearest
  <2>6. Before(list, sub, s)
    BY <2>2, <2>4, <2>5, BeforeIsStrict
  <2>7. ASSUME IsSortedByType(list) PROVE RxType[s] = "fifo"
    <3>1. PICK i, j \in 1..Len(list) : i < j /\ list[i] = sub /\ list[j] = s
      BY <2>6 DEF Before
    <3>2. sub \in Subs /\ s \in Subs
      BY <2>4, <3>1
    <3>3. TypeRank(sub) <= TypeRank(s)
      BY <2>7, <3>1 DEF IsSortedByType
    <3>4. RxType[s] \in {"callback", "msgq", "fifo"}
      BY <3>2, RxTypeAssumption DEF RxTypes
    <3> QED
      BY <2>3, <3>3, <3>4 DEF TypeRank
  <2> QED
    BY <2>3, <2>6, <2>7
<1>2. TypeOK /\ WalkInv /\ [WalkNext]_walk =>
        [sub # None /\ sub' = None =>
           \A s \in due \ {sub} :
               /\ RxType[sub] = "fifo" /\ Before(list, sub, s)
               /\ IsSortedByType(list) => RxType[s] = "fifo"]_walkVars
  BY <1>1
<1> QED
  BY <1>2, AlwaysWalkInv, PTL DEF WalkSpec, WalkVisitsAll, walk

(* Nor does it come back to one that has stayed.                           *)
THEOREM WalkRepeatsNobody == WalkSpec => []VisitedOnce
<1>1. WalkInv => VisitedOnce
  BY DEF WalkInv, LeftBehind, VisitedOnce
<1> QED
  BY <1>1, AlwaysWalkInv, PTL
=============================================================================
