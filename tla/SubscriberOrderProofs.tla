------------------------ MODULE SubscriberOrderProofs ------------------------
(***************************************************************************)
(* Lemmas about the operators of SubscriberOrder, for any subscribers,     *)
(* types and priorities.                                                   *)
(***************************************************************************)
EXTENDS SubscriberOrder, SequenceTheorems, WellFoundedInduction, TLAPS

(* A non-empty set of natural numbers has a least element.                 *)
LEMMA LeastElement ==
    ASSUME NEW T, T \subseteq Nat, T # {}
    PROVE  \E x \in T : \A y \in T : x <= y
<1>1. PICK x \in T : \A y \in T : <<y, x>> \notin OpToRel(<, Nat)
  BY NatLessThanWellFounded, WFMin
<1>2. \A y \in T : ~(y < x)
  BY <1>1 DEF OpToRel
<1> QED
  BY <1>2

(* The search of pub_sub_add_subscriber_to_broker ends at a position of    *)
(* the list or behind it, the first at which it may stop.                  *)
LEMMA InsertPosFirst ==
    ASSUME NEW list \in Seq(Subs), NEW prio, NEW s
    PROVE  LET p == InsertPos(list, prio, s) IN
           /\ p \in 1..(Len(list) + 1)
           /\ StopsAt(list, prio, s, p)
           /\ \A j \in 1..(p - 1) : ~StopsAt(list, prio, s, j)
<1> DEFINE T == {i \in 1..(Len(list) + 1) : StopsAt(list, prio, s, i)}
<1>1. Len(list) \in Nat
  OBVIOUS
<1>2. Len(list) + 1 \in T
  BY <1>1 DEF StopsAt
<1>3. PICK x \in T : \A y \in T : x <= y
  <2>1. T \subseteq Nat /\ T # {}
    BY <1>1, <1>2
  <2> QED
    BY <2>1, LeastElement
<1>4. \A j \in 1..(x - 1) : ~StopsAt(list, prio, s, j)
  BY <1>1, <1>3
<1>5. \E i \in 1..(Len(list) + 1) :
         /\ StopsAt(list, prio, s, i)
         /\ \A j \in 1..(i - 1) : ~StopsAt(list, prio, s, j)
  BY <1>3, <1>4
<1> QED
  BY <1>5 DEF InsertPos

(* What the list holds at each position after an insertion.                *)
LEMMA InsertedAt ==
    ASSUME NEW list \in Seq(Subs), NEW prio, NEW s \in Subs
    PROVE  LET p == InsertPos(list, prio, s)
               new == Inserted(list, prio, s)
           IN  /\ new \in Seq(Subs)
               /\ Len(new) = Len(list) + 1
               /\ \A i \in 1..Len(new) :
                     new[i] = IF i < p THEN list[i] ELSE IF i = p THEN s ELSE list[i - 1]
<1> DEFINE p == InsertPos(list, prio, s)
           front == SubSeq(list, 1, p - 1)
           back == SubSeq(list, p, Len(list))
<1>1. Len(list) \in Nat /\ p \in 1..(Len(list) + 1) /\ \A i \in 1..Len(list) : list[i] \in Subs
  BY InsertPosFirst
<1> HIDE DEF p
<1>2. /\ front \in Seq(Subs) /\ Len(front) = p - 1
      /\ \A i \in 1..(p - 1) : front[i] = list[i]
  <2>1. \A i \in 1..(p - 1) : list[i] \in Subs
    BY <1>1
  <2> QED
    BY <1>1, <2>1, SubSeqProperties
<1>3. /\ back \in Seq(Subs) /\ Len(back) = Len(list) - p + 1
      /\ \A i \in 1..(Len(list) - p + 1) : back[i] = list[p + i - 1]
  <2>1. \A i \in p..Len(list) : list[i] \in Subs
    BY <1>1
  <2> QED
    BY <1>1, <2>1, SubSeqProperties
<1> HIDE DEF front, back
<1>4. /\ <<s>> \in Seq(Subs) /\ Len(<<s>>) = 1 /\ <<s>>[1] = s
  OBVIOUS
<1>5. /\ front \o <<s>> \in Seq(Subs)
      /\ Len(front \o <<s>>) = p
      /\ \A i \in 1..p : (front \o <<s>>)[i] = IF i < p THEN list[i] ELSE s
  BY <1>1, <1>2, <1>4, ConcatProperties
<1>6. /\ (front \o <<s>>) \o back \in Seq(Subs)
      /\ Len((front \o <<s>>) \o back) = Len(list) + 1
      /\ \A i \in 1..(Len(list) + 1) :
            ((front \o <<s>>) \o back)[i] =
                IF i <= p THEN (front \o <<s>>)[i] ELSE back[i - p]
  BY <1>1, <1>3, <1>5, ConcatProperties, SMTT(30)
<1>7. \A i \in 1..(Len(list) + 1) : i > p => back[i - p] = list[i - 1]
  BY <1>1, <1>3
<1>8. Inserted(list, prio, s) = (front \o <<s>>) \o back
  BY DEF Inserted, InsertAt, p, front, back
<1>9. \A i \in 1..(Len(list) + 1) :
         ((front \o <<s>>) \o back)[i] =
             IF i < p THEN list[i] ELSE IF i = p THEN s ELSE list[i - 1]
  BY <1>1, <1>5, <1>6, <1>7
<1> QED
  BY <1>6, <1>8, <1>9 DEF p

(* What the list holds at each position after a removal.                   *)
LEMMA RemovedAt ==
    ASSUME NEW list \in Seq(Subs), NEW s, s \in ToSet(list)
    PROVE  LET p == IndexOf(list, s)
               new == Removed(list, s)
           IN  /\ p \in 1..Len(list) /\ list[p] = s
               /\ new \in Seq(Subs)
               /\ Len(new) = Len(list) - 1
               /\ \A i \in 1..Len(new) :
                     new[i] = IF i < p THEN list[i] ELSE list[i + 1]
<1> DEFINE p == IndexOf(list, s)
           front == SubSeq(list, 1, p - 1)
           back == SubSeq(list, p + 1, Len(list))
<1>1. \E i \in 1..Len(list) : list[i] = s
  BY DEF ToSet
<1>2. p \in 1..Len(list) /\ list[p] = s
  BY <1>1 DEF IndexOf
<1>3. Len(list) \in Nat /\ \A i \in 1..Len(list) : list[i] \in Subs
  OBVIOUS
<1> HIDE DEF p
<1>4. /\ front \in Seq(Subs) /\ Len(front) = p - 1
      /\ \A i \in 1..(p - 1) : front[i] = list[i]
  <2>1. \A i \in 1..(p - 1) : list[i] \in Subs
    BY <1>2, <1>3
  <2> QED
    BY <1>2, <1>3, <2>1, SubSeqProperties
<1>5. /\ back \in Seq(Subs) /\ Len(back) = Len(list) - p
      /\ \A i \in 1..(Len(list) - p) : back[i] = list[p + i]
  <2>1. \A i \in (p + 1)..Len(list) : list[i] \in Subs
    BY <1>2, <1>3
  <2>2. /\ back \in Seq(Subs)
        /\ Len(back) = IF p + 1 <= Len(list) THEN Len(list) - (p + 1) + 1 ELSE 0
        /\ \A i \in 1..(Len(list) - (p + 1) + 1) : back[i] = list[(p + 1) + i - 1]
    BY <1>2, <1>3, <2>1, SubSeqProperties
  <2>3. \A i \in 1..(Len(list) - p) : (p + 1) + i - 1 = p + i
    BY <1>2, <1>3
  <2> QED
    BY <1>2, <1>3, <2>2, <2>3
<1> HIDE DEF front, back
<1>6. /\ front \o back \in Seq(Subs)
      /\ Len(front \o back) = Len(list) - 1
      /\ \A i \in 1..(Len(list) - 1) :
            (front \o back)[i] = IF i <= p - 1 THEN front[i] ELSE back[i - (p - 1)]
  BY <1>2, <1>3, <1>4, <1>5, ConcatProperties, SMTT(30)
<1>7. \A i \in 1..(Len(list) - 1) : i >= p => back[i - (p - 1)] = list[i + 1]
  BY <1>2, <1>3, <1>5
<1>8. Removed(list, s) = front \o back
  BY DEF Removed, RemoveAt, p, front, back
<1>9. ASSUME NEW i \in 1..(Len(list) - 1)
      PROVE  (front \o back)[i] = IF i < p THEN list[i] ELSE list[i + 1]
  <2>1. CASE i < p
    <3>1. i <= p - 1 /\ i \in 1..(p - 1)
      BY <1>2, <1>3, <2>1
    <3> QED
      BY <1>4, <1>6, <2>1, <3>1
  <2>2. CASE i >= p
    <3>1. ~(i <= p - 1) /\ ~(i < p)
      BY <1>2, <1>3, <2>2
    <3> QED
      BY <1>6, <1>7, <2>2, <3>1
  <2>3. i < p \/ i >= p
    BY <1>2, <1>3
  <2> QED
    BY <2>1, <2>2, <2>3
<1> QED
  BY <1>2, <1>6, <1>8, <1>9 DEF p

(* An insertion keeps the types together: the search stops neither before  *)
(* the last subscriber of the own group nor behind the next group's first. *)
LEMMA InsertedIsGrouped ==
    ASSUME NEW list \in Seq(Subs), NEW prio, NEW s \in Subs, IsGrouped(list)
    PROVE  IsGrouped(Inserted(list, prio, s))
<1> DEFINE p == InsertPos(list, prio, s)
           new == Inserted(list, prio, s)
           old(i) == IF i < p THEN i ELSE i - 1
<1>1. /\ Len(list) \in Nat
      /\ p \in 1..(Len(list) + 1)
      /\ StopsAt(list, prio, s, p)
      /\ \A j \in 1..(p - 1) : ~StopsAt(list, prio, s, j)
  BY InsertPosFirst
<1>2. /\ Len(new) = Len(list) + 1
      /\ \A i \in 1..Len(new) : new[i] = IF i = p THEN s ELSE list[old(i)]
  BY <1>1, InsertedAt
<1> HIDE DEF p, new
<1>3. SUFFICES ASSUME NEW i \in 1..Len(new), NEW j \in 1..Len(new), NEW k \in 1..Len(new),
                      i < j, j < k, SameType(new[i], new[k])
               PROVE  SameType(new[i], new[j])
  BY DEF IsGrouped, new
<1>4. \A a, b, c \in 1..Len(list) :
         a <= b /\ b <= c /\ SameType(list[a], list[c]) => SameType(list[a], list[b])
  <2> SUFFICES ASSUME NEW a \in 1..Len(list), NEW b \in 1..Len(list), NEW c \in 1..Len(list),
                      a <= b, b <= c, SameType(list[a], list[c])
               PROVE  SameType(list[a], list[b])
    OBVIOUS
  <2>1. CASE a = b \/ b = c
    BY <2>1 DEF SameType
  <2>2. CASE a < b /\ b < c
    BY <2>2 DEF IsGrouped
  <2> QED
    BY <1>1, <2>1, <2>2
<1>5. \A a, b \in 1..Len(list) : a < p /\ a <= b /\ b < p /\ SameType(list[a], s)
         => SameType(list[b], s)
  BY <1>1 DEF StopsAt
<1>6. p <= Len(list) => \E a \in 1..p : SameType(list[a], s)
  BY <1>1 DEF StopsAt
<1>7. CASE i # p /\ j # p /\ k # p
  <2>1. /\ old(i) \in 1..Len(list) /\ old(j) \in 1..Len(list) /\ old(k) \in 1..Len(list)
        /\ old(i) <= old(j) /\ old(j) <= old(k)
    BY <1>1, <1>2, <1>3, <1>7
  <2> QED
    BY <1>2, <1>3, <1>4, <1>7, <2>1
<1>8. CASE i = p
  <2>1. /\ new[i] = s /\ new[j] = list[j - 1] /\ new[k] = list[k - 1]
        /\ p <= j - 1 /\ j - 1 <= k - 1 /\ k - 1 <= Len(list) /\ j - 1 \in 1..Len(list)
        /\ k - 1 \in 1..Len(list)
    BY <1>1, <1>2, <1>3, <1>8
  <2>2. PICK a \in 1..p : SameType(list[a], s)
    BY <1>1, <1>6, <2>1
  <2>3. SameType(list[a], list[k - 1])
    BY <1>3, <2>1, <2>2 DEF SameType
  <2>4. a \in 1..Len(list) /\ a <= j - 1
    BY <1>1, <2>1, <2>2
  <2>5. SameType(list[a], list[j - 1])
    BY <1>4, <2>1, <2>3, <2>4
  <2> QED
    BY <2>1, <2>2, <2>5 DEF SameType
<1>9. CASE j = p
  <2>1. /\ new[i] = list[i] /\ new[j] = s /\ new[k] = list[k - 1]
        /\ i < p /\ p <= k - 1 /\ i \in 1..Len(list) /\ k - 1 \in 1..Len(list)
        /\ p \in 1..Len(list)
    BY <1>1, <1>2, <1>3, <1>9
  <2>2. PICK a \in 1..p : SameType(list[a], s)
    BY <1>1, <1>6, <2>1
  <2>3. SameType(list[i], list[p])
    BY <1>3, <1>4, <2>1
  <2>4. CASE a = p
    BY <2>1, <2>2, <2>3, <2>4 DEF SameType
  <2>5. CASE a < p
    <3>1. p - 1 \in 1..Len(list) /\ a \in 1..Len(list) /\ SameType(list[p - 1], s)
      BY <1>1, <1>5, <2>1, <2>2, <2>5, SMTT(30)
    <3>2. SameType(list[i], list[p - 1])
      BY <1>1, <1>3, <1>4, <2>1, <3>1, SMTT(30)
    <3> QED
      BY <2>1, <3>1, <3>2 DEF SameType
  <2> QED
    BY <1>1, <2>2, <2>4, <2>5
<1>10. CASE k = p
  <2>1. /\ new[i] = list[i] /\ new[j] = list[j] /\ new[k] = s
        /\ i < p /\ j < p /\ i \in 1..Len(list) /\ j \in 1..Len(list)
    BY <1>1, <1>2, <1>3, <1>10
  <2>2. SameType(list[j], s)
    BY <1>3, <1>5, <2>1
  <2> QED
    BY <1>3, <2>1, <2>2 DEF SameType
<1> QED
  BY <1>7, <1>8, <1>9, <1>10

(* So does a removal.                                                      *)
LEMMA RemovedIsGrouped ==
    ASSUME NEW list \in Seq(Subs), NEW s \in ToSet(list), IsGrouped(list)
    PROVE  IsGrouped(Removed(list, s))
<1> DEFINE p == IndexOf(list, s)
           new == Removed(list, s)
           old(i) == IF i < p THEN i ELSE i + 1
<1>1. /\ Len(list) \in Nat
      /\ p \in 1..Len(list)
      /\ Len(new) = Len(list) - 1
      /\ \A i \in 1..Len(new) : new[i] = list[old(i)]
  BY RemovedAt
<1> HIDE DEF p, new
<1>2. SUFFICES ASSUME NEW i \in 1..Len(new), NEW j \in 1..Len(new), NEW k \in 1..Len(new),
                      i < j, j < k, SameType(new[i], new[k])
               PROVE  SameType(new[i], new[j])
  BY DEF IsGrouped, new
<1>3. /\ old(i) \in 1..Len(list) /\ old(j) \in 1..Len(list) /\ old(k) \in 1..Len(list)
      /\ old(i) < old(j) /\ old(j) < old(k)
  BY <1>1, <1>2
<1> QED
  BY <1>1, <1>2, <1>3 DEF IsGrouped
-----------------------------------------------------------------------------
(* Order, as a mapping between the positions before and after.             *)

NoRepeats(list) == \A i, j \in 1..Len(list) : list[i] = list[j] => i = j

(* Where the subscriber at position i goes when one is inserted at p, and  *)
(* when the one at p, which is another, is removed.                        *)
Up(p, i)   == IF i < p THEN i ELSE i + 1
Down(p, i) == IF i < p THEN i ELSE i - 1

(* An insertion shifts what is behind it and keeps the rest where it is.   *)
LEMMA InsertedShifts ==
    ASSUME NEW list \in Seq(Subs), NEW prio, NEW s \in Subs,
           NEW p, p = InsertPos(list, prio, s), NEW new, new = Inserted(list, prio, s)
    PROVE  /\ new \in Seq(Subs) /\ Len(new) = Len(list) + 1 /\ Len(list) \in Nat
           /\ p \in 1..Len(new) /\ new[p] = s
           /\ \A i \in 1..Len(list) : Up(p, i) \in 1..Len(new) /\ new[Up(p, i)] = list[i]
           /\ \A i \in 1..Len(new) \ {p} : Down(p, i) \in 1..Len(list) /\ new[i] = list[Down(p, i)]
<1>1. /\ Len(list) \in Nat /\ p \in 1..(Len(list) + 1)
      /\ new \in Seq(Subs) /\ Len(new) = Len(list) + 1
      /\ \A i \in 1..Len(new) :
            new[i] = IF i < p THEN list[i] ELSE IF i = p THEN s ELSE list[i - 1]
  BY InsertPosFirst, InsertedAt
<1> QED
  BY <1>1 DEF Up, Down

(* Removing moves those behind the removed subscriber up by one and leaves *)
(* the others where they are.                                              *)
LEMMA RemovedShifts ==
    ASSUME NEW list \in Seq(Subs), NEW s \in ToSet(list),
           NEW p, p = IndexOf(list, s), NEW new, new = Removed(list, s)
    PROVE  /\ new \in Seq(Subs) /\ Len(new) = Len(list) - 1 /\ Len(list) \in Nat
           /\ p \in 1..Len(list) /\ list[p] = s
           /\ \A i \in 1..Len(new) : Up(p, i) \in 1..Len(list) /\ new[i] = list[Up(p, i)]
           /\ \A i \in 1..Len(list) \ {p} : Down(p, i) \in 1..Len(new) /\ new[Down(p, i)] = list[i]
<1>1. /\ Len(list) \in Nat /\ p \in 1..Len(list) /\ list[p] = s
      /\ new \in Seq(Subs) /\ Len(new) = Len(list) - 1
      /\ \A i \in 1..Len(new) : new[i] = IF i < p THEN list[i] ELSE list[i + 1]
  BY RemovedAt
<1> QED
  BY <1>1 DEF Up, Down

(* An insertion adds s, leaves no subscriber out and reorders none.        *)
LEMMA InsertedKeepsOrder ==
    ASSUME NEW list \in Seq(Subs), NEW prio, NEW s \in Subs,
           NEW new, new = Inserted(list, prio, s)
    PROVE  /\ ToSet(new) = ToSet(list) \cup {s}
           /\ \A a, b : Before(list, a, b) => Before(new, a, b)
           /\ NoRepeats(list) /\ s \notin ToSet(list) => NoRepeats(new)
<1> DEFINE p == InsertPos(list, prio, s)
<1>1. /\ new \in Seq(Subs) /\ Len(new) = Len(list) + 1 /\ Len(list) \in Nat
      /\ p \in 1..Len(new) /\ new[p] = s
      /\ \A i \in 1..Len(list) : Up(p, i) \in 1..Len(new) /\ new[Up(p, i)] = list[i]
      /\ \A i \in 1..Len(new) \ {p} : Down(p, i) \in 1..Len(list) /\ new[i] = list[Down(p, i)]
  BY InsertedShifts
<1> HIDE DEF p
<1>2. ToSet(new) = ToSet(list) \cup {s}
  <2>1. ASSUME NEW a \in ToSet(new), a # s
        PROVE  a \in ToSet(list)
    <3>1. PICK i \in 1..Len(new) : new[i] = a
      BY <2>1 DEF ToSet
    <3>2. Down(p, i) \in 1..Len(list) /\ list[Down(p, i)] = a
      BY <1>1, <2>1, <3>1
    <3> QED
      BY <3>2 DEF ToSet
  <2>2. ASSUME NEW a \in ToSet(list)
        PROVE  a \in ToSet(new)
    <3>1. PICK i \in 1..Len(list) : list[i] = a
      BY <2>2 DEF ToSet
    <3> QED
      BY <1>1, <3>1 DEF ToSet
  <2>3. s \in ToSet(new)
    BY <1>1 DEF ToSet
  <2> QED
    BY <2>1, <2>2, <2>3
<1>3. ASSUME NEW a, NEW b, Before(list, a, b)
      PROVE  Before(new, a, b)
  <2>1. PICK i, j \in 1..Len(list) : i < j /\ list[i] = a /\ list[j] = b
    BY <1>3 DEF Before
  <2>2. /\ Up(p, i) \in 1..Len(new) /\ new[Up(p, i)] = a
        /\ Up(p, j) \in 1..Len(new) /\ new[Up(p, j)] = b
    BY <1>1, <2>1
  <2>3. Up(p, i) < Up(p, j)
    BY <1>1, <2>1 DEF Up
  <2> QED
    BY <2>2, <2>3 DEF Before
<1>4. ASSUME NoRepeats(list), s \notin ToSet(list),
             NEW i \in 1..Len(new), NEW j \in 1..Len(new), new[i] = new[j]
      PROVE  i = j
  <2>1. \A k \in 1..Len(list) : list[k] # s
    BY <1>4 DEF ToSet
  <2>2. CASE i = p \/ j = p
    BY <1>1, <1>4, <2>1, <2>2
  <2>3. CASE i # p /\ j # p
    <3>1. Down(p, i) = Down(p, j)
      BY <1>1, <1>4, <2>3, SMTT(30) DEF NoRepeats
    <3> QED
      BY <1>1, <2>3, <3>1 DEF Down
  <2> QED
    BY <2>2, <2>3
<1> QED
  BY <1>2, <1>3, <1>4 DEF NoRepeats

(* A removal leaves out no other subscriber and reorders none.             *)
LEMMA RemovedKeepsOthers ==
    ASSUME NEW list \in Seq(Subs), NEW s, NEW new, new = Removed(list, s)
    PROVE  /\ new \in Seq(Subs)
           /\ ToSet(new) \subseteq ToSet(list) /\ ToSet(list) \ {s} \subseteq ToSet(new)
           /\ \A a, b : Before(list, a, b) /\ a # s /\ b # s => Before(new, a, b)
<1>1. CASE s \notin ToSet(list)
  BY <1>1 DEF Removed
<1>2. CASE s \in ToSet(list)
  <2> DEFINE p == IndexOf(list, s)
  <2>1. /\ new \in Seq(Subs) /\ Len(new) = Len(list) - 1 /\ Len(list) \in Nat
        /\ p \in 1..Len(list) /\ list[p] = s
        /\ \A i \in 1..Len(new) : Up(p, i) \in 1..Len(list) /\ new[i] = list[Up(p, i)]
        /\ \A i \in 1..Len(list) \ {p} : Down(p, i) \in 1..Len(new) /\ new[Down(p, i)] = list[i]
    BY <1>2, RemovedShifts
  <2> HIDE DEF p
  <2>2. ASSUME NEW a \in ToSet(new)
        PROVE  a \in ToSet(list)
    <3>1. PICK i \in 1..Len(new) : new[i] = a
      BY <2>2 DEF ToSet
    <3>2. Up(p, i) \in 1..Len(list) /\ list[Up(p, i)] = a
      BY <2>1, <3>1
    <3> QED
      BY <3>2 DEF ToSet
  <2>3. ASSUME NEW a \in ToSet(list) \ {s}
        PROVE  a \in ToSet(new)
    <3>1. PICK i \in 1..Len(list) : list[i] = a
      BY <2>3 DEF ToSet
    <3> QED
      BY <2>1, <2>3, <3>1 DEF ToSet
  <2>4. ASSUME NEW a, NEW b, Before(list, a, b), a # s, b # s
        PROVE  Before(new, a, b)
    <3>1. PICK i, j \in 1..Len(list) : i < j /\ list[i] = a /\ list[j] = b
      BY <2>4 DEF Before
    <3>2. /\ Down(p, i) \in 1..Len(new) /\ new[Down(p, i)] = a
          /\ Down(p, j) \in 1..Len(new) /\ new[Down(p, j)] = b
          /\ i # p /\ j # p
      BY <2>1, <2>4, <3>1
    <3>3. Down(p, i) < Down(p, j)
      BY <2>1, <3>1, <3>2 DEF Down
    <3> QED
      BY <3>2, <3>3 DEF Before
  <2> QED
    BY <2>1, <2>2, <2>3, <2>4
<1> QED
  BY <1>1, <1>2

(* From a list without repetition it takes out s.                          *)
LEMMA RemovedKeepsOrder ==
    ASSUME NEW list \in Seq(Subs), NoRepeats(list), NEW s, NEW new, new = Removed(list, s)
    PROVE  /\ new \in Seq(Subs)
           /\ ToSet(new) = ToSet(list) \ {s}
           /\ \A a, b : Before(list, a, b) /\ a # s /\ b # s => Before(new, a, b)
           /\ NoRepeats(new)
<1>1. CASE s \notin ToSet(list)
  BY <1>1 DEF Removed
<1>2. CASE s \in ToSet(list)
  <2> DEFINE p == IndexOf(list, s)
  <2>1. /\ new \in Seq(Subs) /\ Len(new) = Len(list) - 1 /\ Len(list) \in Nat
        /\ p \in 1..Len(list) /\ list[p] = s
        /\ \A i \in 1..Len(new) : Up(p, i) \in 1..Len(list) /\ new[i] = list[Up(p, i)]
    BY <1>2, RemovedShifts
  <2> HIDE DEF p
  <2>2. s \notin ToSet(new)
    <3>1. SUFFICES ASSUME NEW i \in 1..Len(new), new[i] = s
                   PROVE  FALSE
      BY DEF ToSet
    <3>2. Up(p, i) = p
      BY <2>1, <3>1 DEF NoRepeats
    <3> QED
      BY <2>1, <3>1, <3>2 DEF Up
  <2>3. ASSUME NEW i \in 1..Len(new), NEW j \in 1..Len(new), new[i] = new[j]
        PROVE  i = j
    <3>1. Up(p, i) = Up(p, j)
      BY <2>1, <2>3 DEF NoRepeats
    <3> QED
      BY <2>1, <3>1 DEF Up
  <2> QED
    BY <2>2, <2>3, RemovedKeepsOthers DEF NoRepeats
<1> QED
  BY <1>1, <1>2
-----------------------------------------------------------------------------
(* The order of types and of priorities.                                   *)

(* Two subscribers have the same type iff they have the same rank.         *)
LEMMA TypeRanks ==
    ASSUME NEW s \in Subs, NEW t \in Subs
    PROVE  TypeRank(s) \in 0..2 /\ (SameType(s, t) <=> TypeRank(s) = TypeRank(t))
<1>1. RxType[s] \in RxTypes /\ RxType[t] \in RxTypes
  BY RxTypeAssumption
<1> QED
  BY <1>1 DEF RxTypes, TypeRank, SameType

(* Where the search may stop in a sorted list: behind those of the own     *)
(* type with the same or a smaller priority value, before the others.      *)
LEMMA InsertPosWithinType ==
    ASSUME NEW list \in Seq(Subs), NEW prio \in [Subs -> Int], NEW s \in Subs,
           IsGrouped(list), IsSortedWithin(list, prio, RxType[s]),
           NEW i \in 1..Len(list), SameType(list[i], s)
    PROVE  IF i < InsertPos(list, prio, s) THEN prio[list[i]] <= prio[s]
                                           ELSE prio[list[i]] > prio[s]
<1> DEFINE p == InsertPos(list, prio, s)
<1>1. /\ Len(list) \in Nat /\ p \in 1..(Len(list) + 1) /\ StopsAt(list, prio, s, p)
      /\ \A j \in 1..(p - 1) : ~StopsAt(list, prio, s, j)
      /\ \A j \in 1..Len(list) : list[j] \in Subs /\ prio[list[j]] \in Int
      /\ prio[s] \in Int
  BY InsertPosFirst
<1> HIDE DEF p
<1>2. CASE i < p
  <2>1. ~StopsAt(list, prio, s, i) /\ i # Len(list) + 1 /\ i \in 1..i
    BY <1>1, <1>2
  <2>2. ~(prio[list[i]] > prio[s])
    BY <2>1 DEF StopsAt
  <2> QED
    BY <1>1, <1>2, <2>2 DEF p
<1>3. CASE i >= p
  <2>1. p \in 1..Len(list) /\ p # Len(list) + 1
    BY <1>1, <1>3
  <2>2. PICK j \in 1..p : SameType(list[j], s)
    BY <1>1, <2>1 DEF StopsAt
  <2>3. SameType(list[p], s)
    <3>1. j \in 1..Len(list) /\ SameType(list[j], list[i])
      BY <1>1, <2>1, <2>2 DEF SameType
    <3>2. CASE j = p \/ p = i
      BY <2>2, <3>2
    <3>3. CASE j < p /\ p < i
      BY <2>1, <2>2, <3>1, <3>3 DEF IsGrouped, SameType
    <3> QED
      BY <1>1, <1>3, <2>2, <3>2, <3>3
  <2>4. prio[list[p]] > prio[s]
    BY <1>1, <2>1, <2>3 DEF StopsAt
  <2>5. prio[list[p]] <= prio[list[i]]
    <3>1. CASE p = i
      BY <1>1, <3>1
    <3>2. CASE p < i
      BY <2>1, <2>3, <3>2 DEF IsSortedWithin, SameType
    <3> QED
      BY <1>1, <1>3, <3>1, <3>2
  <2> QED
    BY <1>1, <1>3, <2>1, <2>4, <2>5 DEF p
<1> QED
  BY <1>1, <1>2, <1>3

(* An insertion keeps the priorities of each type sorted.                  *)
LEMMA InsertedSortedWithin ==
    ASSUME NEW list \in Seq(Subs), NEW prio \in [Subs -> Int], NEW s \in Subs,
           NEW k, IsGrouped(list), IsSortedWithin(list, prio, k),
           NEW new, new = Inserted(list, prio, s)
    PROVE  IsSortedWithin(new, prio, k)
<1> DEFINE p == InsertPos(list, prio, s)
<1>1. /\ new \in Seq(Subs) /\ Len(new) = Len(list) + 1 /\ Len(list) \in Nat
      /\ p \in 1..Len(new) /\ new[p] = s
      /\ \A i \in 1..Len(new) \ {p} : Down(p, i) \in 1..Len(list) /\ new[i] = list[Down(p, i)]
  BY InsertedShifts
<1>2. RxType[s] = k => \A i \in 1..Len(list) : SameType(list[i], s) =>
          IF i < p THEN prio[list[i]] <= prio[s] ELSE prio[list[i]] > prio[s]
  BY InsertPosWithinType
<1> HIDE DEF p
<1>3. \A i \in 1..Len(list) : list[i] \in Subs /\ prio[list[i]] \in Int
  OBVIOUS
<1>4. ASSUME NEW i \in 1..Len(new), NEW j \in 1..Len(new), i < j, RxType[new[i]] = k, RxType[new[j]] = k
      PROVE  prio[new[i]] <= prio[new[j]]
  <2>1. CASE i # p /\ j # p
    <3>1. Down(p, i) < Down(p, j)
      BY <1>1, <1>4, <2>1, SMTT(30) DEF Down
    <3>2. /\ Down(p, i) \in 1..Len(list) /\ new[i] = list[Down(p, i)]
          /\ Down(p, j) \in 1..Len(list) /\ new[j] = list[Down(p, j)]
      BY <1>1, <2>1
    <3> QED
      BY <1>4, <3>1, <3>2 DEF IsSortedWithin
  <2>2. CASE j = p
    <3>1. Down(p, i) \in 1..Len(list) /\ Down(p, i) < p /\ new[i] = list[Down(p, i)]
      BY <1>1, <1>4, <2>2 DEF Down
    <3> QED
      BY <1>1, <1>2, <1>4, <2>2, <3>1 DEF SameType
  <2>3. CASE i = p
    <3>1. Down(p, j) \in 1..Len(list) /\ ~(Down(p, j) < p) /\ new[j] = list[Down(p, j)]
      BY <1>1, <1>4, <2>3, SMTT(30) DEF Down
    <3>2. prio[list[Down(p, j)]] > prio[s]
      BY <1>1, <1>2, <1>4, <2>3, <3>1 DEF SameType
    <3> QED
      BY <1>1, <1>3, <2>3, <3>1, <3>2
  <2> QED
    BY <2>1, <2>2, <2>3
<1> QED
  BY <1>4 DEF IsSortedWithin

(* And where the types are in the order callback, msgq, fifo, it keeps     *)
(* them so, if the new one's type is in the list or only earlier ones are. *)
LEMMA InsertedSortedByType ==
    ASSUME NEW list \in Seq(Subs), NEW prio, NEW s \in Subs,
           NEW new, new = Inserted(list, prio, s)
    PROVE  /\ IsSortedByType(list)
           /\ \/ \E t \in ToSet(list) : SameType(s, t)
              \/ \A t \in ToSet(list) : TypeRank(t) < TypeRank(s)
           => IsSortedByType(new)
<1> DEFINE p == InsertPos(list, prio, s)
<1>1. /\ new \in Seq(Subs) /\ Len(new) = Len(list) + 1 /\ Len(list) \in Nat
      /\ p \in 1..Len(new) /\ new[p] = s
      /\ \A i \in 1..Len(new) \ {p} : Down(p, i) \in 1..Len(list) /\ new[i] = list[Down(p, i)]
  BY InsertedShifts
<1>6. SUFFICES ASSUME IsSortedByType(list),
                      \/ \E t \in ToSet(list) : SameType(s, t)
                      \/ \A t \in ToSet(list) : TypeRank(t) < TypeRank(s)
               PROVE  IsSortedByType(new)
  OBVIOUS
<1>2. StopsAt(list, prio, s, p) /\ \A j \in 1..(p - 1) : ~StopsAt(list, prio, s, j)
  BY InsertPosFirst
<1> HIDE DEF p
<1>3. \A i \in 1..Len(list) :
          /\ list[i] \in Subs /\ TypeRank(list[i]) \in Int /\ TypeRank(s) \in Int
          /\ SameType(list[i], s) <=> TypeRank(list[i]) = TypeRank(s)
  BY TypeRanks
<1>4. ASSUME NEW i \in 1..Len(list)
      PROVE  IF i < p THEN TypeRank(list[i]) <= TypeRank(s) ELSE TypeRank(list[i]) >= TypeRank(s)
  <2>1. CASE \E k \in 1..Len(list) : SameType(list[k], s)
    <3>1. PICK k \in 1..Len(list) : SameType(list[k], s)
      BY <2>1
    <3>2. CASE i < p
      <4>1. ~StopsAt(list, prio, s, i) /\ i # Len(list) + 1 /\ i \in 1..i
        BY <1>1, <1>2, <3>2
      <4>2. CASE SameType(list[i], s)
        BY <1>3, <3>2, <4>2
      <4>3. CASE ~SameType(list[i], s)
        <5>1. i < k
          BY <3>1, <4>1, <4>3 DEF StopsAt
        <5> QED
          BY <1>6, <1>3, <3>1, <3>2, <5>1 DEF IsSortedByType
      <4> QED
        BY <4>2, <4>3
    <3>3. CASE ~(i < p)
      <4>1. p # Len(list) + 1 /\ p <= i
        BY <1>1, <3>3
      <4>2. PICK j \in 1..p : SameType(list[j], s)
        BY <1>2, <4>1 DEF StopsAt
      <4>3. j \in 1..Len(list) /\ (j = i \/ j < i)
        BY <1>1, <4>1, <4>2
      <4>4. TypeRank(list[j]) <= TypeRank(list[i])
        BY <1>6, <1>3, <4>3 DEF IsSortedByType
      <4> QED
        BY <1>3, <3>3, <4>2, <4>3, <4>4
    <3> QED
      BY <3>2, <3>3
  <2>2. CASE ~ \E k \in 1..Len(list) : SameType(list[k], s)
    <3>1. TypeRank(list[i]) < TypeRank(s)
      <4>1. \A t \in ToSet(list) : ~SameType(s, t)
        BY <2>2 DEF ToSet, SameType
      <4>2. list[i] \in ToSet(list)
        BY DEF ToSet
      <4> QED
        BY <1>6, <4>1, <4>2
    <3>2. p = Len(list) + 1
      <4>1. ~(p \in 1..Len(list))
        <5>1. ASSUME p \in 1..Len(list)
              PROVE  \A j \in 1..p : ~SameType(list[j], s)
          BY <1>1, <2>2, <5>1
        <5> QED
          BY <1>1, <1>2, <5>1 DEF StopsAt
      <4> QED
        BY <1>1, <4>1
    <3> QED
      BY <1>1, <1>3, <3>1, <3>2
  <2> QED
    BY <2>1, <2>2
<1>5. ASSUME NEW i \in 1..Len(new), NEW j \in 1..Len(new), i < j
      PROVE  TypeRank(new[i]) <= TypeRank(new[j])
  <2>1. CASE i # p /\ j # p
    <3>1. Down(p, i) < Down(p, j)
      BY <1>1, <1>5, <2>1 DEF Down
    <3> QED
      BY <1>6, <1>1, <1>5, <2>1, <3>1 DEF IsSortedByType
  <2>2. CASE j = p
    <3>1. Down(p, i) \in 1..Len(list) /\ Down(p, i) < p /\ new[i] = list[Down(p, i)]
      BY <1>1, <1>5, <2>2 DEF Down
    <3> QED
      BY <1>1, <1>4, <2>2, <3>1
  <2>3. CASE i = p
    <3>1. Down(p, j) \in 1..Len(list) /\ ~(Down(p, j) < p) /\ new[j] = list[Down(p, j)]
      BY <1>1, <1>5, <2>3 DEF Down
    <3>2. TypeRank(list[Down(p, j)]) >= TypeRank(s)
      BY <1>4, <3>1
    <3> QED
      BY <1>1, <1>3, <2>3, <3>1, <3>2
  <2> QED
    BY <2>1, <2>2, <2>3
<1> QED
  BY <1>5 DEF IsSortedByType

(* A removal keeps both orders.                                            *)
LEMMA RemovedSorted ==
    ASSUME NEW list \in Seq(Subs), NEW s, NEW new, new = Removed(list, s), NEW prio
    PROVE  /\ \A k : IsSortedWithin(list, prio, k) => IsSortedWithin(new, prio, k)
           /\ IsSortedByType(list) => IsSortedByType(new)
<1>1. CASE s \notin ToSet(list)
  BY <1>1 DEF Removed
<1>2. CASE s \in ToSet(list)
  <2> DEFINE p == IndexOf(list, s)
  <2>1. /\ Len(new) \in Nat /\ p \in Nat
        /\ \A i \in 1..Len(new) : Up(p, i) \in 1..Len(list) /\ new[i] = list[Up(p, i)]
    BY <1>2, RemovedShifts
  <2> HIDE DEF p
  <2>2. \A i, j \in 1..Len(new) : i < j => Up(p, i) < Up(p, j)
    BY <2>1 DEF Up
  <2>3. ASSUME NEW k, IsSortedWithin(list, prio, k)
        PROVE  IsSortedWithin(new, prio, k)
    <3>1. ASSUME NEW i \in 1..Len(new), NEW j \in 1..Len(new), i < j,
                 RxType[new[i]] = k, RxType[new[j]] = k
          PROVE  prio[new[i]] <= prio[new[j]]
      <4>1. /\ Up(p, i) \in 1..Len(list) /\ new[i] = list[Up(p, i)]
            /\ Up(p, j) \in 1..Len(list) /\ new[j] = list[Up(p, j)]
            /\ Up(p, i) < Up(p, j)
        BY <2>1, <2>2, <3>1
      <4> QED
        BY <2>3, <3>1, <4>1 DEF IsSortedWithin
    <3> QED
      BY <3>1 DEF IsSortedWithin
  <2>4. IsSortedByType(list) => IsSortedByType(new)
    BY <2>1, <2>2 DEF IsSortedByType
  <2> QED
    BY <2>3, <2>4
<1> QED
  BY <1>1, <1>2
-----------------------------------------------------------------------------
(* Following the links.                                                    *)

(* Being before another in a list without duplicates is a strict order.    *)
LEMMA BeforeIsStrict ==
    ASSUME NEW list \in Seq(Subs), NoRepeats(list), NEW a, NEW b
    PROVE  /\ Before(list, a, b) => a # b /\ a \in ToSet(list) /\ b \in ToSet(list)
           /\ \A c : Before(list, a, b) /\ Before(list, b, c) => Before(list, a, c)
<1>1. Before(list, a, b) => a # b /\ a \in ToSet(list) /\ b \in ToSet(list)
  BY DEF Before, NoRepeats, ToSet
<1>2. ASSUME NEW c, Before(list, a, b), Before(list, b, c)
      PROVE  Before(list, a, c)
  <2>1. PICK i, j \in 1..Len(list) : i < j /\ list[i] = a /\ list[j] = b
    BY <1>2 DEF Before
  <2>2. PICK k, l \in 1..Len(list) : k < l /\ list[k] = b /\ list[l] = c
    BY <1>2 DEF Before
  <2>3. i < l
    BY <2>1, <2>2 DEF NoRepeats
  <2> QED
    BY <2>1, <2>2, <2>3 DEF Before
<1> QED
  BY <1>1, <1>2

(* The place of a subscriber that is listed once.                          *)
LEMMA IndexOfPlace ==
    ASSUME NEW list \in Seq(Subs), NoRepeats(list), NEW i \in 1..Len(list)
    PROVE  IndexOf(list, list[i]) = i /\ list[i] \in ToSet(list) /\ list[i] # None
<1>1. list[i] \in ToSet(list) /\ list[i] \in Subs
  BY DEF ToSet
<1>2. IndexOf(list, list[i]) \in 1..Len(list) /\ list[IndexOf(list, list[i])] = list[i]
  BY <1>1, RemovedAt
<1> QED
  BY <1>1, <1>2, NoneIsNoSub DEF NoRepeats

(* The next pointer leads to the nearest of those behind.                  *)
LEMMA NextOfIsNearest ==
    ASSUME NEW list \in Seq(Subs), NoRepeats(list), NEW s
    PROVE  /\ NextOf(list, s) # None => Before(list, s, NextOf(list, s))
           /\ \A u : Before(list, s, u) =>
                  /\ NextOf(list, s) # None
                  /\ u = NextOf(list, s) \/ Before(list, NextOf(list, s), u)
<1>1. ASSUME NextOf(list, s) # None
      PROVE  Before(list, s, NextOf(list, s))
  <2>1. s \in ToSet(list) /\ IndexOf(list, s) < Len(list)
        /\ NextOf(list, s) = list[IndexOf(list, s) + 1]
    BY <1>1 DEF NextOf
  <2>2. IndexOf(list, s) \in 1..Len(list) /\ list[IndexOf(list, s)] = s
    BY <2>1, RemovedAt
  <2>3. PICK n : n = IndexOf(list, s)
    OBVIOUS
  <2>4. n \in 1..Len(list) /\ n + 1 \in 1..Len(list) /\ n < n + 1
        /\ list[n] = s /\ list[n + 1] = NextOf(list, s)
    BY <2>1, <2>2, <2>3
  <2> QED
    BY <2>4 DEF Before
<1>2. ASSUME NEW u, Before(list, s, u)
      PROVE  /\ NextOf(list, s) # None
             /\ u = NextOf(list, s) \/ Before(list, NextOf(list, s), u)
  <2>1. PICK i, j \in 1..Len(list) : i < j /\ list[i] = s /\ list[j] = u
    BY <1>2 DEF Before
  <2>2. IndexOf(list, s) = i /\ s \in ToSet(list)
    BY <2>1, IndexOfPlace
  <2>3. i + 1 \in 1..Len(list) /\ NextOf(list, s) = list[i + 1]
    BY <2>1, <2>2 DEF NextOf
  <2>4. list[i + 1] # None
    BY <2>3, IndexOfPlace
  <2>5. CASE j = i + 1
    BY <2>1, <2>3, <2>4, <2>5
  <2>6. CASE j # i + 1
    <3>1. i + 1 < j
      BY <2>1, <2>6
    <3> QED
      BY <2>1, <2>3, <2>4, <3>1 DEF Before
  <2> QED
    BY <2>5, <2>6
<1> QED
  BY <1>1, <1>2

(* Everybody else is behind the head.                                      *)
LEMMA HeadIsFirst ==
    ASSUME NEW list \in Seq(Subs), NEW u \in ToSet(list)
    PROVE  /\ HeadOf(list) # None
           /\ u = HeadOf(list) \/ Before(list, HeadOf(list), u)
<1>1. PICK i \in 1..Len(list) : list[i] = u
  BY DEF ToSet
<1>2. list # <<>> /\ HeadOf(list) = list[1] /\ 1 \in 1..Len(list) /\ list[1] \in Subs
  BY <1>1 DEF HeadOf
<1>3. CASE i = 1
  BY <1>1, <1>2, <1>3, NoneIsNoSub
<1>4. CASE i # 1
  BY <1>1, <1>2, <1>4, NoneIsNoSub DEF Before
<1> QED
  BY <1>3, <1>4
=============================================================================
