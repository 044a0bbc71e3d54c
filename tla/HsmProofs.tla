------------------------------- MODULE HsmProofs -------------------------------
(***************************************************************************)
(* Hsm for all state functions, hierarchies and bounds on the nesting: the *)
(* machine's types, which states are active between two messages, and in   *)
(* which order they are entered and left.                                  *)
(***************************************************************************)
EXTENDS Hsm, SequenceTheorems, TLAPS

-----------------------------------------------------------------------------
(* The path from a state to the top.                                       *)

DepthOf(h) == CHOOSE depth \in Depths(h) : TRUE

(* Every hierarchy has depths within CONFIG_HSM_MAX_NESTED_STATES which    *)
(* decrease towards the top.                                               *)
LEMMA DepthsFit ==
    ASSUME NEW h \in Hierarchies
    PROVE  /\ h \in [States -> States \cup {None}]
           /\ DepthOf(h) \in [States -> 1..MaxNested]
           /\ \A s \in States : h[s] # None => DepthOf(h)[h[s]] < DepthOf(h)[s]
<1>1. h \in [States -> States \cup {None}] /\ Depths(h) # {}
  BY HierarchyAssumption
<1>2. DepthOf(h) \in Depths(h)
  BY <1>1 DEF DepthOf
<1> QED
  BY <1>1, <1>2 DEF Depths

(* What is above x, itself included; nothing is above the top.             *)
AboveIn(h, x) == IF x = None THEN {} ELSE Path(h, x)

(* The path of a state is the state and its parent's path.                 *)
LEMMA PathUnfolds ==
    ASSUME NEW h \in Hierarchies, NEW s \in States
    PROVE  /\ Path(h, s) \subseteq States
           /\ Path(h, s) = {s} \cup AboveIn(h, h[s])
<1>1. h \in [States -> States \cup {None}]
  BY DepthsFit
<1>2. \A x \in States : Path(h, x) \in SUBSET States /\ x \in Path(h, x) /\ Closed(h, Path(h, x))
  <2> SUFFICES ASSUME NEW x \in States
               PROVE  x \in Path(h, x) /\ Closed(h, Path(h, x))
    BY DEF Path
  <2>1. x \in Path(h, x)
    BY DEF Path
  <2>2. ASSUME NEW y \in Path(h, x), h[y] # None
        PROVE  h[y] \in Path(h, x)
    <3>1. y \in States /\ h[y] \in States
      BY <1>1, <2>2 DEF Path
    <3>2. ASSUME NEW S \in SUBSET States, x \in S, Closed(h, S)
          PROVE  h[y] \in S
      <4>1. y \in S
        BY <3>2 DEF Path
      <4> QED
        BY <2>2, <3>2, <4>1 DEF Closed
    <3> QED
      BY <3>1, <3>2 DEF Path
  <2> QED
    BY <2>1, <2>2 DEF Closed
<1>3. ASSUME NEW x \in States, NEW S \in SUBSET States, x \in S, Closed(h, S)
      PROVE  Path(h, x) \subseteq S
  BY <1>3 DEF Path
<1>4. AboveIn(h, h[s]) \subseteq States
  BY DEF AboveIn, Path
<1>5. {s} \cup AboveIn(h, h[s]) \in SUBSET States
  BY <1>4
<1>6. Closed(h, {s} \cup AboveIn(h, h[s]))
  <2>1. CASE h[s] = None
    BY <2>1 DEF AboveIn, Closed
  <2>2. CASE h[s] # None
    <3>1. h[s] \in States
      BY <1>1, <2>2
    <3>2. h[s] \in Path(h, h[s]) /\ Closed(h, Path(h, h[s]))
      BY <1>2, <3>1
    <3> QED
      BY <2>2, <3>2 DEF AboveIn, Closed
  <2> QED
    BY <2>1, <2>2
<1>7. Path(h, s) \subseteq {s} \cup AboveIn(h, h[s])
  BY <1>3, <1>5, <1>6
<1>8. AboveIn(h, h[s]) \subseteq Path(h, s)
  <2>1. CASE h[s] = None
    BY <2>1 DEF AboveIn
  <2>2. CASE h[s] # None
    <3>1. h[s] \in States /\ h[s] \in Path(h, s) /\ Closed(h, Path(h, s))
          /\ Path(h, s) \in SUBSET States
      BY <1>1, <1>2, <2>2 DEF Closed
    <3>2. Path(h, h[s]) \subseteq Path(h, s)
      BY <1>3, <3>1
    <3> QED
      BY <2>2, <3>2 DEF AboveIn
  <2> QED
    BY <2>1, <2>2
<1> QED
  BY <1>2, <1>7, <1>8

(* It only holds what is less deep, so a state is not above itself.        *)
LEMMA PathRises ==
    ASSUME NEW h \in Hierarchies, NEW s \in States
    PROVE  /\ \A x \in Path(h, s) : x \in States /\ DepthOf(h)[x] <= DepthOf(h)[s]
           /\ \A x \in AboveIn(h, h[s]) : x \in States /\ DepthOf(h)[x] < DepthOf(h)[s]
           /\ s \notin AboveIn(h, h[s])
<1>1. /\ h \in [States -> States \cup {None}]
      /\ \A x \in States : DepthOf(h)[x] \in 1..MaxNested /\ MaxNested \in Nat
      /\ \A x \in States : h[x] # None => DepthOf(h)[h[x]] < DepthOf(h)[x]
  BY DepthsFit, NestedAssumption
<1>2. ASSUME NEW u \in States
      PROVE  \A x \in Path(h, u) : x \in States /\ DepthOf(h)[x] <= DepthOf(h)[u]
  <2>1. PICK S : S = {x \in States : DepthOf(h)[x] <= DepthOf(h)[u]}
    OBVIOUS
  <2>2. S \in SUBSET States /\ u \in S
    BY <1>1, <2>1
  <2>3. ASSUME NEW y \in S
        PROVE  h[y] \in S \cup {None}
    <3>1. y \in States /\ h[y] \in States \cup {None}
      BY <1>1, <2>1
    <3>2. h[y] # None => DepthOf(h)[h[y]] <= DepthOf(h)[u]
      BY <1>1, <2>1, <3>1
    <3> QED
      BY <2>1, <3>1, <3>2
  <2>4. Closed(h, S)
    BY <2>3 DEF Closed
  <2> QED
    BY <2>1, <2>2, <2>4 DEF Path
<1>3. ASSUME NEW x \in AboveIn(h, h[s])
      PROVE  x \in States /\ DepthOf(h)[x] < DepthOf(h)[s]
  <2>1. h[s] # None /\ h[s] \in States /\ x \in Path(h, h[s])
    BY <1>1, <1>3 DEF AboveIn
  <2> QED
    BY <1>1, <1>2, <2>1
<1> QED
  BY <1>1, <1>2, <1>3
-----------------------------------------------------------------------------
(* The inductive invariant.                                                *)

(* The array holds the parents of the new state, one above the other, and  *)
(* each takes one of the MaxNested levels.                                 *)
Child(i) == IF i = 1 THEN new ELSE parents[i - 1]
Chain ==
    /\ new \in States
    /\ \A i \in 1..Len(parents) :
          /\ Child(i) \in States
          /\ parents[i] = parent[Child(i)]
          /\ parents[i] \in States => DepthOf(parent)[parents[i]] + i <= MaxNested

Walking ==
    /\ Chain
    /\ Len(parents) < MaxNested /\ \A i \in 1..Len(parents) : parents[i] \in States
    /\ tmp = Child(Len(parents) + 1)
    /\ nest = 0

(* The new state's parents up to the top have been collected, the state to *)
(* be left is not among them and is the innermost one that is active, and  *)
(* no common parent has been left.                                         *)
Leaving ==
    /\ Chain
    /\ Len(parents) > 0 /\ parents[Len(parents)] = None
    /\ left = Len(parents) - 1
    /\ tmp \in States
    /\ active = Path(parent, tmp)
    /\ nest + DepthOf(parent)[tmp] <= MaxNested
    /\ \A i \in 1..Len(parents) : parents[i] # tmp
    /\ Ancestors(parent, new) \cap Path(parent, current) \subseteq Path(parent, tmp)

(* What is still to be entered is below what is active.                    *)
Entering ==
    /\ Chain
    /\ left \in 0..(Len(parents) - 1)
    /\ active = AboveIn(parent, parents[left + 1])
    /\ new # current => Ancestors(parent, new) \cap Path(parent, current) \subseteq active

Inv ==
    /\ TypeOK
    /\ pc \in {"collect", "exit"} => new # current
    /\ pc = "off" => active = {} /\ parents = <<>> /\ nest = 0
    /\ pc = "start" => active = {} /\ new = current /\ Walking
    /\ pc \in {"idle", "dispatch"} =>
          active = Path(parent, current) /\ parents = <<>> /\ nest = 0
    /\ pc = "collect" =>
          /\ active = Path(parent, current) /\ Walking
          /\ \A i \in 1..Len(parents) : parents[i] # current
    /\ pc = "exit" => Leaving
    /\ pc = "enter" => Entering

(* One WALK call keeps the chain, and after at most MaxNested of them the  *)
(* top has been reached.                                                   *)
LEMMA WalkKeepsChain ==
    ASSUME TypeOK, Walking, parents' = Append(parents, parent[tmp]),
           UNCHANGED <<new, parent>>
    PROVE  /\ Chain'
           /\ Len(parents') = Len(parents) + 1 /\ Len(parents) \in Nat
           /\ parents' \in Seq(States \cup {None})
           /\ parents'[Len(parents')] = parent[tmp]
           /\ \A i \in 1..Len(parents) : parents'[i] = parents[i] /\ parents'[i] \in States
           /\ Len(parents') = MaxNested => parent[tmp] = None
<1>1. /\ parents \in Seq(States \cup {None}) /\ Len(parents) \in Nat /\ new \in States
      /\ MaxNested \in Nat /\ parent \in Hierarchies
  BY NestedAssumption DEF TypeOK, Walking, Chain
<1>2. /\ parent \in [States -> States \cup {None}]
      /\ \A x \in States : DepthOf(parent)[x] \in 1..MaxNested
      /\ \A x \in States : parent[x] # None => DepthOf(parent)[parent[x]] < DepthOf(parent)[x]
  BY <1>1, DepthsFit
<1>3. tmp \in States /\ DepthOf(parent)[tmp] + Len(parents) <= MaxNested
  <2>1. CASE Len(parents) = 0
    BY <1>1, <1>2, <2>1 DEF Walking, Child
  <2>2. CASE Len(parents) # 0
    <3>1. tmp = parents[Len(parents)] /\ Len(parents) \in 1..Len(parents)
      BY <1>1, <2>2 DEF Walking, Child
    <3> QED
      BY <3>1 DEF Walking, Chain
  <2> QED
    BY <2>1, <2>2
<1>4. parent[tmp] \in States \cup {None}
  BY <1>2, <1>3
<1>5. /\ parents' \in Seq(States \cup {None}) /\ Len(parents') = Len(parents) + 1
      /\ parents'[Len(parents) + 1] = parent[tmp]
      /\ \A i \in 1..Len(parents) : parents'[i] = parents[i]
  BY <1>1, <1>4, AppendProperties
<1>6. parent[tmp] \in States => DepthOf(parent)[parent[tmp]] + (Len(parents) + 1) <= MaxNested
  <2>1. ASSUME parent[tmp] \in States
        PROVE  DepthOf(parent)[parent[tmp]] + (Len(parents) + 1) <= MaxNested
    <3>1. /\ DepthOf(parent)[parent[tmp]] \in 1..MaxNested /\ DepthOf(parent)[tmp] \in 1..MaxNested
          /\ DepthOf(parent)[parent[tmp]] < DepthOf(parent)[tmp]
      BY <1>2, <1>3, <2>1, NullAssumption
    <3> QED
      BY <1>1, <1>3, <3>1
  <2> QED
    BY <2>1
<1>7. ASSUME NEW i \in 1..Len(parents')
      PROVE  /\ Child(i)' \in States /\ parents'[i] = parent[Child(i)']
             /\ parents'[i] \in States => DepthOf(parent)[parents'[i]] + i <= MaxNested
  <2>1. CASE i = Len(parents) + 1
    <3>1. Child(i)' = tmp
      <4>1. CASE i = 1
        BY <1>1, <2>1, <4>1 DEF Walking, Child
      <4>2. CASE i # 1
        <5>1. i - 1 \in 1..Len(parents) /\ Child(i)' = parents'[i - 1] /\ Child(i) = parents[i - 1]
          BY <1>1, <2>1, <4>2 DEF Child
        <5> QED
          BY <1>5, <2>1, <5>1 DEF Walking
      <4> QED
        BY <4>1, <4>2
    <3> QED
      BY <1>3, <1>5, <1>6, <2>1, <3>1
  <2>2. CASE i \in 1..Len(parents)
    <3>1. Child(i)' = Child(i)
      <4>1. CASE i = 1
        BY <4>1 DEF Child
      <4>2. CASE i # 1
        <5>1. i - 1 \in 1..Len(parents)
          BY <1>1, <2>2, <4>2
        <5> QED
          BY <1>5, <4>2, <5>1 DEF Child
      <4> QED
        BY <4>1, <4>2
    <3> QED
      BY <1>5, <2>2, <3>1 DEF Walking, Chain
  <2> QED
    BY <1>1, <1>5, <2>1, <2>2
<1>8. Chain'
  BY <1>1, <1>7 DEF Chain
<1>9. Len(parents') = MaxNested => parent[tmp] = None
  <2>1. ASSUME Len(parents') = MaxNested, parent[tmp] \in States
        PROVE  FALSE
    <3>1. DepthOf(parent)[parent[tmp]] \in 1..MaxNested
      BY <1>2, <2>1
    <3> QED
      BY <1>1, <1>5, <1>6, <2>1, <3>1
  <2> QED
    BY <1>4, <2>1
<1> QED
  BY <1>1, <1>5, <1>8, <1>9 DEF Walking

(* Once the top has been reached the array holds all that is above the new *)
(* state.                                                                  *)
LEMMA ChainIsPath ==
    ASSUME TypeOK, Chain, Len(parents) > 0, parents[Len(parents)] = None
    PROVE  \A x \in Ancestors(parent, new) : \E i \in 1..(Len(parents) - 1) : parents[i] = x
<1>1. /\ parents \in Seq(States \cup {None}) /\ Len(parents) \in Nat /\ new \in States
      /\ parent \in Hierarchies
  BY DEF TypeOK, Chain
<1>2. PICK S : S = {new} \cup {parents[i] : i \in 1..(Len(parents) - 1)}
  OBVIOUS
<1>3. ASSUME NEW i \in 1..(Len(parents) - 1)
      PROVE  parents[i] \in States /\ parents[i + 1] = parent[parents[i]]
  <2>1. i + 1 \in 1..Len(parents) /\ i + 1 # 1 /\ (i + 1) - 1 = i
    BY <1>1, <1>3
  <2>2. Child(i + 1) = parents[i]
    BY <2>1 DEF Child
  <2> QED
    BY <2>1, <2>2 DEF Chain
<1>4. \A i \in 1..Len(parents) : parents[i] \in S \cup {None}
  <2> SUFFICES ASSUME NEW i \in 1..Len(parents)
               PROVE  parents[i] \in S \cup {None}
    OBVIOUS
  <2>1. i = Len(parents) \/ i \in 1..(Len(parents) - 1)
    BY <1>1
  <2> QED
    BY <1>2, <2>1
<1>5. S \in SUBSET States
  BY <1>1, <1>2, <1>3
<1>6. ASSUME NEW y \in S
      PROVE  parent[y] \in S \cup {None}
  <2>1. CASE y = new
    <3>1. 1 \in 1..Len(parents) /\ Child(1) = new
      BY <1>1 DEF Child
    <3>2. parent[y] = parents[1]
      BY <2>1, <3>1 DEF Chain
    <3> QED
      BY <1>4, <3>1, <3>2
  <2>2. ASSUME NEW i \in 1..(Len(parents) - 1), y = parents[i]
        PROVE  parent[y] \in S \cup {None}
    <3>1. i + 1 \in 1..Len(parents)
      BY <1>1
    <3> QED
      BY <1>3, <1>4, <2>2, <3>1
  <2> QED
    BY <1>2, <2>1, <2>2
<1>7. Path(parent, new) \subseteq S
  BY <1>2, <1>5, <1>6 DEF Path, Closed
<1> QED
  BY <1>2, <1>7 DEF Ancestors

(* What ENTRY to s does when what is above s has been entered.             *)
LEMMA EnteredIsPath ==
    ASSUME TypeOK, Chain, NEW i \in 1..Len(parents), active = AboveIn(parent, parents[i])
    PROVE  /\ Child(i) \in States /\ Child(i) \notin active
           /\ parent[Child(i)] \in active \cup {None}
           /\ active \cup {Child(i)} = Path(parent, Child(i))
<1>1. Child(i) \in States /\ parents[i] = parent[Child(i)] /\ parent \in Hierarchies
  BY DEF Chain, TypeOK
<1>2. Path(parent, Child(i)) = {Child(i)} \cup AboveIn(parent, parent[Child(i)])
  BY <1>1, PathUnfolds
<1>3. Child(i) \notin AboveIn(parent, parent[Child(i)])
  BY <1>1, PathRises
<1>4. parent[Child(i)] \in AboveIn(parent, parent[Child(i)]) \cup {None}
  <2>1. CASE parent[Child(i)] = None
    BY <2>1
  <2>2. CASE parent[Child(i)] # None
    <3>1. parent[Child(i)] \in States
      BY <1>1, <2>2, DepthsFit
    <3>2. parent[Child(i)] \in Path(parent, parent[Child(i)])
      BY <1>1, <3>1, PathUnfolds
    <3> QED
      BY <2>2, <3>2 DEF AboveIn
  <2> QED
    BY <2>1, <2>2
<1> QED
  BY <1>1, <1>2, <1>3, <1>4

(* A WALK call in hsm_start or transition_state.                           *)
LEMMA WalkInv ==
    ASSUME Inv, pc \in {"start", "collect"}, NEW found \in BOOLEAN, Walk(found),
           found <=> pc = "collect" /\ parent[tmp] = current,
           UNCHANGED <<parent, current, new, nest, active>>
    PROVE  Inv'
<1> DEFINE up == parent[tmp]
<1>1. /\ TypeOK /\ parent \in Hierarchies /\ parent \in [States -> States \cup {None}]
      /\ MaxNested \in Nat \ {0} /\ current \in States /\ None \notin States
      /\ Walking /\ tmp \in States /\ new \in States /\ nest = 0 /\ Len(parents) < MaxNested
      /\ parents' = Append(parents, up)
  BY DepthsFit, NestedAssumption, NullAssumption DEF Inv, TypeOK, Walking, Chain, Walk
<1>2. /\ Chain'
      /\ Len(parents') = Len(parents) + 1 /\ Len(parents) \in Nat
      /\ parents' \in Seq(States \cup {None})
      /\ parents'[Len(parents')] = up
      /\ \A i \in 1..Len(parents) : parents'[i] = parents[i] /\ parents'[i] \in States
      /\ Len(parents') = MaxNested => up = None
  BY <1>1, WalkKeepsChain
<1>3. up \in States \cup {None}
  BY <1>1
<1>4. \A i \in 1..Len(parents') : i = Len(parents') \/ i \in 1..Len(parents)
  BY <1>2
<1>5. /\ left' = Len(parents') - 1 /\ left' = Len(parents) /\ left' \in 0..(MaxNested - 1)
      /\ left' + 1 = Len(parents') /\ Len(parents') <= MaxNested
  BY <1>1, <1>2 DEF Walk
<1>6. CASE up # None /\ ~found /\ Len(parents') < MaxNested /\ tmp' = up /\ pc' = pc
  <2>1. \A i \in 1..Len(parents') : parents'[i] \in States
    BY <1>2, <1>3, <1>4, <1>6
  <2>2. tmp' = Child(Len(parents) + 1)'
    <3>1. Len(parents') + 1 # 1 /\ (Len(parents') + 1) - 1 = Len(parents')
      BY <1>2
    <3> QED
      BY <1>2, <1>6, <3>1 DEF Child
  <2>3. Walking'
    BY <1>1, <1>2, <1>6, <2>1, <2>2 DEF Walking
  <2>4. pc = "collect" => \A i \in 1..Len(parents') : parents'[i] # current
    BY <1>1, <1>2, <1>4, <1>6 DEF Inv
  <2>5. TypeOK'
    BY <1>1, <1>2, <1>3, <1>5, <1>6 DEF TypeOK
  <2> QED
    BY <1>6, <2>3, <2>4, <2>5 DEF Inv
<1>7. CASE (up = None \/ found \/ Len(parents') = MaxNested)
           /\ (pc = "start" \/ found) /\ pc' = "enter" /\ tmp' = up
  <2>1. active = AboveIn(parent, up)
    <3>1. CASE found
      BY <1>1, <3>1 DEF Inv, AboveIn
    <3>2. CASE ~found
      BY <1>1, <1>2, <1>7, <3>2 DEF Inv, AboveIn
    <3> QED
      BY <3>1, <3>2
  <2>2. new # current => Ancestors(parent, new) \cap Path(parent, current) \subseteq active
    BY <1>7 DEF Inv
  <2>3. Entering'
    BY <1>2, <1>5, <2>1, <2>2 DEF Entering
  <2>4. TypeOK'
    BY <1>1, <1>2, <1>3, <1>5, <1>7 DEF TypeOK
  <2> QED
    BY <1>7, <2>3, <2>4 DEF Inv
<1>8. CASE (up = None \/ found \/ Len(parents') = MaxNested)
           /\ pc = "collect" /\ ~found /\ pc' = "exit" /\ tmp' = current
  <2>1. up = None
    BY <1>2, <1>8
  <2>2. \A i \in 1..Len(parents') : parents'[i] # current
    BY <1>1, <1>2, <1>4, <1>8, <2>1 DEF Inv
  <2>3. nest + DepthOf(parent)[current] <= MaxNested
    BY <1>1, DepthsFit
  <2>4. Leaving'
    BY <1>1, <1>2, <1>5, <1>8, <2>1, <2>2, <2>3 DEF Leaving, Inv
  <2>5. TypeOK'
    BY <1>1, <1>2, <1>3, <1>5, <1>8 DEF TypeOK
  <2> QED
    BY <1>8, <2>4, <2>5 DEF Inv
<1> QED
  BY <1>1, <1>6, <1>7, <1>8 DEF Walk

(* Each call of a state function keeps Inv: starting, dispatching, passing *)
(* a message up, leaving, collecting the parents and entering.             *)
LEMMA NextInv ==
    ASSUME Inv, [Next]_vars
    PROVE  Inv'
<1>1. /\ TypeOK /\ parent \in Hierarchies /\ parent \in [States -> States \cup {None}]
      /\ MaxNested \in Nat \ {0} /\ current \in States /\ None \notin States
      /\ parents \in Seq(States \cup {None}) /\ Len(parents) \in Nat /\ Len(parents) <= MaxNested
  BY DepthsFit, NestedAssumption, NullAssumption DEF Inv, TypeOK
<1>2. CASE Start
  <2>1. /\ pc = "off" /\ pc' = "start" /\ tmp' = current /\ new' = current /\ parents = <<>>
        /\ UNCHANGED <<parent, current, parents, nest, left, active>>
        /\ active = {} /\ nest = 0
    BY <1>2 DEF Start, Inv
  <2>2. Len(parents') = 0
    BY <2>1
  <2>3. Walking'
    BY <1>1, <2>1, <2>2 DEF Walking, Chain, Child
  <2>4. TypeOK'
    BY <1>1, <2>1 DEF TypeOK
  <2> QED
    BY <2>1, <2>3, <2>4 DEF Inv
<1>3. CASE StartWalk
  BY <1>3, WalkInv DEF StartWalk
<1>4. CASE Collect
  <2>1. (parent[tmp] = current) \in BOOLEAN
    OBVIOUS
  <2> QED
    BY <1>4, <2>1, WalkInv DEF Collect
<1>5. CASE Receive \/ Consumed
  <2>1. TypeOK'
    BY <1>1, <1>5 DEF Receive, Consumed, TypeOK, locals
  <2> QED
    BY <1>5, <2>1 DEF Receive, Consumed, Inv, locals
<1>6. CASE PassedUp
  <2>1. TypeOK'
    BY <1>1, <1>6 DEF PassedUp, TypeOK, locals
  <2> QED
    BY <1>6, <2>1 DEF PassedUp, Inv, locals
<1>7. ASSUME NEW s \in States, Transition(s)
      PROVE  Inv'
  <2>1. /\ pc = "dispatch" /\ parents = <<>> /\ nest = 0 /\ active = Path(parent, current)
        /\ UNCHANGED <<parent, current, parents, nest, left, active>> /\ tmp' = s
    BY <1>7 DEF Transition, Inv
  <2>2. TypeOK'
    BY <1>1, <1>7 DEF Transition, TypeOK
  <2>3. CASE pc' = "idle"
    BY <2>1, <2>2, <2>3 DEF Inv
  <2>4. CASE s # current /\ pc' = "collect" /\ new' = s
    <3>1. Len(parents') = 0
      BY <2>1
    <3>2. Walking'
      BY <1>1, <2>1, <2>4, <3>1 DEF Walking, Chain, Child
    <3> QED
      BY <2>1, <2>2, <2>4, <3>1, <3>2 DEF Inv
  <2> QED
    BY <1>7, <2>3, <2>4 DEF Transition
<1>8. CASE Exit
  <2> DEFINE up == parent[tmp]
  <2>1. /\ pc = "exit" /\ Leaving /\ new # current /\ tmp \in States
        /\ active' = active \ {tmp} /\ tmp' = up /\ nest' = nest + 1 /\ nest \in Nat
        /\ UNCHANGED <<parent, current, new, parents>>
    BY <1>8 DEF Exit, Inv, TypeOK
  <2>2. up \in States \cup {None}
    BY <1>1, <2>1
  <2>3. active' = AboveIn(parent, up)
    BY <1>1, <2>1, PathUnfolds, PathRises DEF Leaving
  <2>4. Ancestors(parent, new) \cap Path(parent, current) \subseteq active'
    <3>1. tmp \notin Ancestors(parent, new)
      <4>1. \A x \in Ancestors(parent, new) : \E i \in 1..(Len(parents) - 1) : parents[i] = x
        BY <1>1, <2>1, ChainIsPath DEF Leaving
      <4>2. \A i \in 1..(Len(parents) - 1) : i \in 1..Len(parents)
        BY <1>1
      <4> QED
        BY <2>1, <4>1, <4>2 DEF Leaving
    <3> QED
      BY <2>1, <3>1 DEF Leaving
  <2>5. /\ DepthOf(parent)[tmp] \in 1..MaxNested
        /\ up \in States => DepthOf(parent)[up] \in 1..MaxNested
                            /\ DepthOf(parent)[up] < DepthOf(parent)[tmp]
        /\ nest + DepthOf(parent)[tmp] <= MaxNested
    BY <1>1, <2>1, DepthsFit DEF Leaving
  <2>6. nest' \in 0..MaxNested
    BY <1>1, <2>1, <2>5
  <2>7. Chain'
    BY <2>1 DEF Leaving, Chain, Child
  <2>8. \A i \in 1..(Len(parents) - 1) : parents[i] \in States
    <3> SUFFICES ASSUME NEW i \in 1..(Len(parents) - 1)
                 PROVE  parents[i] \in States
      OBVIOUS
    <3>1. i + 1 \in 1..Len(parents) /\ i + 1 # 1 /\ (i + 1) - 1 = i
      BY <1>1
    <3>2. Child(i + 1) = parents[i]
      BY <3>1 DEF Child
    <3> QED
      BY <2>1, <3>1, <3>2 DEF Leaving, Chain
  <2>9. ASSUME NEW i \in 1..(Len(parents) - 1), up # None, parents[i] = up,
               pc' = "enter", left' = i - 1
        PROVE  Inv'
    <3>1. /\ left' \in 0..(MaxNested - 1) /\ left' \in 0..(Len(parents) - 1) /\ left' + 1 = i
          /\ \A j \in 1..left' : j \in 1..(Len(parents) - 1)
      BY <1>1, <2>9
    <3>2. TypeOK'
      BY <1>1, <2>1, <2>2, <2>6, <2>8, <2>9, <3>1 DEF TypeOK
    <3>3. Entering'
      BY <2>1, <2>3, <2>4, <2>7, <2>9, <3>1 DEF Entering
    <3> QED
      BY <2>9, <3>2, <3>3 DEF Inv
  <2>10. ASSUME up = None \/ nest + 1 = MaxNested, pc' = "enter", left' = left
         PROVE  Inv'
    <3>1. up = None
      BY <1>1, <2>1, <2>2, <2>5, <2>10
    <3>2. /\ left' = Len(parents) - 1 /\ left' \in 0..(MaxNested - 1)
          /\ left' \in 0..(Len(parents) - 1) /\ left' + 1 = Len(parents)
          /\ parents[Len(parents)] = None
      BY <1>1, <2>1, <2>10 DEF Leaving
    <3>3. TypeOK'
      BY <1>1, <2>1, <2>2, <2>6, <2>8, <2>10, <3>2 DEF TypeOK
    <3>4. Entering'
      BY <2>1, <2>3, <2>4, <2>7, <3>1, <3>2 DEF Entering
    <3> QED
      BY <2>10, <3>3, <3>4 DEF Inv
  <2>11. ASSUME up # None, Common(up) = {}, pc' = "exit", left' = left
         PROVE  Inv'
    <3>1. up \in States
      BY <2>2, <2>11
    <3>2. ASSUME NEW i \in 1..Len(parents)
          PROVE  parents[i] # up
      <4>1. i = Len(parents) \/ i \in 1..(Len(parents) - 1)
        BY <1>1
      <4> QED
        BY <2>1, <2>11, <4>1 DEF Common, Leaving
    <3>3. nest' + DepthOf(parent)[up] <= MaxNested
      BY <1>1, <2>1, <2>5, <3>1
    <3>4. active' = Path(parent, up)
      BY <2>3, <2>11 DEF AboveIn
    <3>5. Leaving'
      BY <2>1, <2>4, <2>7, <2>11, <3>1, <3>2, <3>3, <3>4 DEF Leaving
    <3>6. TypeOK'
      BY <1>1, <2>1, <2>6, <2>11, <3>1 DEF TypeOK
    <3> QED
      BY <2>1, <2>11, <3>5, <3>6 DEF Inv
  <2>12. \/ \E i \in 1..(Len(parents) - 1) :
               up # None /\ parents[i] = up /\ pc' = "enter" /\ left' = i - 1
         \/ (up = None \/ nest + 1 = MaxNested) /\ pc' = "enter" /\ left' = left
         \/ up # None /\ Common(up) = {} /\ pc' = "exit" /\ left' = left
    BY <1>8 DEF Exit, Common, LastExit
  <2> QED
    BY <2>9, <2>10, <2>11, <2>12
<1>9. CASE EnterParent
  <2>1. /\ pc = "enter" /\ Entering /\ left > 0 /\ left \in 0..(MaxNested - 1)
        /\ active' = active \cup {parents[left]} /\ left' = left - 1
        /\ tmp' \in {tmp, parent[parents[left]]}
        /\ UNCHANGED <<parent, current, pc, new, parents, nest>>
        /\ left \in 0..(Len(parents) - 1)
    BY <1>9 DEF EnterParent, NextParent, Inv, TypeOK, Entering
  <2>2. /\ left + 1 \in 1..Len(parents) /\ left + 1 # 1 /\ (left + 1) - 1 = left
        /\ left' \in 0..(MaxNested - 1) /\ left' \in 0..(Len(parents) - 1) /\ left' + 1 = left
        /\ \A i \in 1..left' : i \in 1..left
    BY <1>1, <2>1
  <2>3. Child(left + 1) = parents[left]
    BY <2>2 DEF Child
  <2>4. parents[left] \in States /\ active' = Path(parent, parents[left])
    BY <1>1, <2>1, <2>2, <2>3, EnteredIsPath DEF Entering
  <2>5. tmp' \in States \cup {None}
    BY <1>1, <2>1, <2>4 DEF TypeOK
  <2>6. TypeOK'
    BY <1>1, <2>1, <2>2, <2>4, <2>5 DEF TypeOK
  <2>7. active' = AboveIn(parent, parents[left])
    BY <1>1, <2>4 DEF AboveIn
  <2>8. Chain'
    BY <2>1 DEF Entering, Chain, Child
  <2>9. Entering'
    BY <2>1, <2>2, <2>7, <2>8 DEF Entering
  <2> QED
    BY <2>1, <2>6, <2>9 DEF Inv
<1>10. CASE EnterNew
  <2>1. /\ pc = "enter" /\ Entering /\ left = 0 /\ new \in States
        /\ active' = active \cup {new} /\ tmp' \in {tmp, parent[new]} /\ current' = new
        /\ pc' = "idle" /\ new' = None /\ parents' = <<>> /\ nest' = 0
        /\ UNCHANGED <<parent, left>>
    BY <1>10 DEF EnterNew, Inv, TypeOK
  <2>2. left + 1 \in 1..Len(parents) /\ Child(left + 1) = new
    BY <1>1, <2>1 DEF Entering, Child
  <2>3. active' = Path(parent, new)
    BY <1>1, <2>1, <2>2, EnteredIsPath DEF Entering
  <2>4. tmp' \in States \cup {None}
    BY <1>1, <2>1 DEF TypeOK
  <2>5. TypeOK'
    BY <1>1, <2>1, <2>4 DEF TypeOK
  <2> QED
    BY <2>1, <2>3, <2>5 DEF Inv
<1>11. CASE UNCHANGED vars
  <2>1. UNCHANGED <<parent, current, tmp, pc, new, parents, nest, left, active>>
    BY <1>11 DEF vars, locals
  <2>2. TypeOK' /\ (Walking => Walking') /\ (Leaving => Leaving') /\ (Entering => Entering')
    BY <1>1, <2>1 DEF TypeOK, Walking, Leaving, Entering, Chain, Child
  <2> QED
    BY <2>1, <2>2 DEF Inv
<1> QED
  BY <1>2, <1>3, <1>4, <1>5, <1>6, <1>7, <1>8, <1>9, <1>10, <1>11 DEF Next, Step

(* The invariant, and the properties that follow from it.                  *)
THEOREM InvHolds == Spec => []Inv
<1>1. Init => Inv
  <2> SUFFICES ASSUME Init
               PROVE  Inv
    OBVIOUS
  <2>1. parents = <<>> /\ parents \in Seq(States \cup {None}) /\ Len(parents) = 0
    BY DEF Init
  <2>2. TypeOK
    BY <2>1, NestedAssumption DEF Init, TypeOK
  <2> QED
    BY <2>2 DEF Init, Inv
<1> QED
  BY <1>1, NextInv, PTL DEF Spec

(* No state function that does not exist is called, and the local array    *)
(* parents of hsm_start and transition_state is never written beyond its   *)
(* end, whatever hierarchy of at most CONFIG_HSM_MAX_NESTED_STATES levels  *)
(* the state functions form.                                               *)
THEOREM TypeCorrect == Spec => []TypeOK
<1>1. Inv => TypeOK
  BY DEF Inv
<1> QED
  BY <1>1, InvHolds, PTL

(* Between two messages exactly the current state and its parents have had *)
(* ENTRY and not EXIT, after any history of transitions.                   *)
THEOREM ActiveBetweenMessages == Spec => []ActiveIsPath
<1>1. Inv => ActiveIsPath
  BY DEF Inv, ActiveIsPath
<1> QED
  BY <1>1, InvHolds, PTL

(* transition_state leaves no state that both the old and the new one have *)
(* as a parent, nor the old one when it is a parent of the new one.        *)
THEOREM CommonParentsKept == Spec => []KeepsCommonParents
<1>1. Inv => KeepsCommonParents
  <2> SUFFICES ASSUME Inv, InTransition
               PROVE  Ancestors(parent, new) \cap Path(parent, current) \subseteq active
    BY DEF KeepsCommonParents
  <2> QED
    BY DEF Inv, InTransition, Leaving, Entering
<1> QED
  BY <1>1, InvHolds, PTL

(* A state is entered when its parent is active and left when none of its  *)
(* children is.                                                            *)
LEMMA NextNested ==
    ASSUME Inv, Next
    PROVE  /\ pc = "enter" => LET s == IF left > 0 THEN NextParent ELSE new
                              IN  s \notin active /\ parent[s] \in active \cup {None}
           /\ \A s \in active \ active' : \A t \in active : parent[t] # s
<1>1. TypeOK /\ parent \in Hierarchies /\ Len(parents) \in Nat
  BY DEF Inv, TypeOK
<1>2. ASSUME pc = "enter"
      PROVE  LET s == IF left > 0 THEN NextParent ELSE new
             IN  s \notin active /\ parent[s] \in active \cup {None}
  <2>1. Entering /\ left \in 0..(Len(parents) - 1) /\ left + 1 \in 1..Len(parents)
    BY <1>1, <1>2 DEF Inv, Entering
  <2>2. Child(left + 1) = IF left > 0 THEN NextParent ELSE new
    BY <1>1, <2>1 DEF Child, NextParent
  <2> QED
    BY <1>1, <2>1, <2>2, EnteredIsPath DEF Entering
<1>3. CASE Exit
  <2>1. tmp \in States /\ active = Path(parent, tmp) /\ active' = active \ {tmp}
    BY <1>3 DEF Exit, Inv, Leaving
  <2>2. \A t \in active : t \in States /\ DepthOf(parent)[t] <= DepthOf(parent)[tmp]
    BY <1>1, <2>1, PathRises
  <2>3. /\ \A t \in States : DepthOf(parent)[t] \in 1..MaxNested
        /\ \A t \in States : parent[t] # None => DepthOf(parent)[parent[t]] < DepthOf(parent)[t]
    BY <1>1, DepthsFit
  <2>4. ASSUME NEW t \in active, parent[t] = tmp
        PROVE  FALSE
    <3>1. /\ t \in States /\ DepthOf(parent)[t] \in 1..MaxNested
          /\ DepthOf(parent)[tmp] \in 1..MaxNested
          /\ DepthOf(parent)[t] <= DepthOf(parent)[tmp]
          /\ DepthOf(parent)[tmp] < DepthOf(parent)[t]
      BY <2>1, <2>2, <2>3, <2>4, NullAssumption
    <3> QED
      BY <3>1, NestedAssumption
  <2> QED
    BY <1>2, <2>1, <2>4
<1>4. CASE ~Exit
  <2>1. active \subseteq active'
    BY <1>4 DEF Next, Step, Receive, Start, StartWalk, Consumed, PassedUp, Transition, Collect,
                EnterParent, EnterNew
  <2> QED
    BY <1>2, <2>1
<1> QED
  BY <1>3, <1>4

(* ENTRY goes to a state that is not active and whose parent is, EXIT to   *)
(* one of which no child is active: from the outermost state inwards and   *)
(* back, each once.                                                        *)
THEOREM EntryAndExitNest == Spec => NestedEntryAndExit
<1>1. Inv /\ [Next]_vars =>
          [/\ pc = "enter" => LET s == IF left > 0 THEN NextParent ELSE new
                              IN  s \notin active /\ parent[s] \in active \cup {None}
           /\ \A s \in active \ active' : \A t \in active : parent[t] # s]_vars
  BY NextNested
<1> QED
  BY <1>1, InvHolds, PTL DEF Spec, NestedEntryAndExit
=============================================================================
