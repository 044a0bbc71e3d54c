---------------------------------- MODULE Hsm ----------------------------------
(***************************************************************************)
(* The hierarchical state machine of lib/hsm/hsm.c.  A state is a function *)
(* that is called with a message; hsm_start, msg_handler and               *)
(* transition_state are sequences of such calls, and each call is one step *)
(* here.  What a state function does with a message is its own choice:     *)
(* consume it, pass it to its parent or ask for a transition.              *)
(***************************************************************************)
EXTENDS Integers, Sequences, FiniteSets

CONSTANTS
    States,         \* the state functions
    None,           \* NULL
    MaxNested,      \* CONFIG_HSM_MAX_NESTED_STATES
    Hierarchies     \* the hierarchies to look at, functions from state to parent

VARIABLES
    parent,     \* what each state function passes to HSM_PARENT, or None at the top
    current,    \* hsm->current_state
    tmp,        \* hsm->tmp_state
    pc,         \* off, start, idle, dispatch, collect, exit or enter
    new,        \* new_state of transition_state, and current_state in hsm_start
    parents,    \* the local array parents, up to its last entry written
    nest,       \* nest_count
    left,       \* the number of parents still to be entered, the loop's i + 1
    active      \* history: the states that have had ENTRY and not EXIT

locals == <<new, parents, nest, left>>
vars == <<parent, current, tmp, pc, locals, active>>

(* A hierarchy ends at the top: a state is deeper than its parent, and no  *)
(* more than MaxNested states are on the path from one to the top, itself  *)
(* included; without that bound hsm_start and transition_state leave out   *)
(* the outermost ones.                                                     *)
Depths(h) ==
    {depth \in [States -> 1..MaxNested] :
        \A s \in States : h[s] # None => depth[h[s]] < depth[s]}

ASSUME NestedAssumption == MaxNested \in Nat \ {0}
ASSUME NullAssumption   == None \notin States
ASSUME HierarchyAssumption ==
    \A h \in Hierarchies : h \in [States -> States \cup {None}] /\ Depths(h) # {}

(* s and the state functions above it: what is in every set that contains  *)
(* s and the parents of its members.                                       *)
Closed(h, S) == \A s \in S : h[s] \in S \cup {None}
Path(h, s) == {x \in States : \A S \in SUBSET States : s \in S /\ Closed(h, S) => x \in S}
Ancestors(h, s) == Path(h, s) \ {s}

Init ==
    /\ parent \in Hierarchies
    /\ current \in States
    /\ tmp = None
    /\ pc = "off"
    /\ new = None /\ parents = <<>> /\ nest = 0 /\ left = 0
    /\ active = {}

-----------------------------------------------------------------------------

(* hsm_start                                                               *)
Start ==
    /\ pc = "off"
    /\ pc' = "start"
    /\ tmp' = current
    /\ new' = current
    /\ UNCHANGED <<parent, current, parents, nest, left, active>>

(* The WALK call: the state function answers with its parent, which is     *)
(* written into the array, NULL included.  The loop ends at the top, at    *)
(* the end of the array and, in transition_state, at the current state;    *)
(* only where it has not been found there is anything to leave.            *)
Walk(found) ==
    LET up == parent[tmp]
        all == Append(parents, up)
    IN  /\ parents' = all
        /\ left' = Len(all) - 1
        /\ \/ /\ up # None /\ ~found /\ Len(all) < MaxNested
              /\ tmp' = up
              /\ UNCHANGED pc
           \/ /\ up = None \/ found \/ Len(all) = MaxNested
              /\ \/ (pc = "start" \/ found) /\ pc' = "enter" /\ tmp' = up
                 \/ pc = "collect" /\ ~found /\ pc' = "exit" /\ tmp' = current

StartWalk ==
    /\ pc = "start"
    /\ Walk(FALSE)
    /\ UNCHANGED <<parent, current, new, nest, active>>

(* msg_handler: a message arrives at the current state.                    *)
Receive ==
    /\ pc = "idle"
    /\ pc' = "dispatch"
    /\ tmp' = current
    /\ UNCHANGED <<parent, current, locals, active>>

(* The state function consumes the message.                                *)
Consumed ==
    /\ pc = "dispatch"
    /\ pc' = "idle"
    /\ UNCHANGED <<parent, current, tmp, locals, active>>

(* Mutant: the top state's answer is taken for a parent.                   *)
TopPassedUp ==
    /\ pc = "dispatch"
    /\ tmp' = parent[tmp]
    /\ UNCHANGED <<parent, current, pc, locals, active>>

(* It does not: HSM_PARENT or HSM_TOP_STATE.                               *)
PassedUp ==
    /\ pc = "dispatch"
    /\ tmp' = parent[tmp]
    /\ pc' = IF tmp' = None THEN "idle" ELSE "dispatch"
    /\ UNCHANGED <<parent, current, locals, active>>

(* It asks for a transition, ignored if it is to the current state.        *)
Transition(s) ==
    /\ pc = "dispatch"
    /\ tmp' = s
    /\ \/ s = current /\ pc' = "idle" /\ UNCHANGED new
       \/ s # current /\ pc' = "collect" /\ new' = s
    /\ UNCHANGED <<parent, current, parents, nest, left, active>>

(* transition_state collects the parents of the new state up to the        *)
(* current one.                                                            *)
Collect ==
    /\ pc = "collect"
    /\ Walk(parent[tmp] = current)
    /\ UNCHANGED <<parent, current, new, nest, active>>

(* Mutant: the collected parents are searched for the state being left.    *)
CommonOneLate(up) == {i \in 1..(Len(parents) - 1) : parents[i] = tmp}

(* The place of state function up among the collected parents, the last    *)
(* one left out.                                                           *)
Common(up) == {i \in 1..(Len(parents) - 1) : up # None /\ parents[i] = up}

(* No more EXIT although no common parent was found.                       *)
LastExit(up) == up = None \/ nest + 1 = MaxNested

(* EXIT to one state, from the current one upwards.  A state that consumes *)
(* it is then asked for its parent by WALK.                                *)
Exit ==
    /\ pc = "exit"
    /\ LET up == parent[tmp] IN
           /\ active' = active \ {tmp}
           /\ tmp' = up
           /\ nest' = nest + 1
           /\ \/ \E i \in Common(up) : pc' = "enter" /\ left' = i - 1
              \/ /\ Common(up) = {}
                 /\ pc' = IF LastExit(up) THEN "enter" ELSE "exit"
                 /\ UNCHANGED left
    /\ UNCHANGED <<parent, current, new, parents>>

(* Mutant: innermost first.                                                *)
NextInnermost == parents[Len(parents) - left]

(* The parent that is entered next.                                        *)
NextParent == parents[left]

(* Mutant: the loop does not count down.                                   *)
EnterSameParent ==
    /\ pc = "enter"
    /\ left > 0
    /\ active' = active \cup {NextParent}
    /\ tmp' \in {tmp, parent[NextParent]}
    /\ UNCHANGED <<parent, current, pc, new, parents, nest, left>>

(* ENTRY to one parent, outermost first.  Whatever it returns is ignored,  *)
(* but HSM_PARENT and HSM_TOP_STATE still write tmp_state.                 *)
EnterParent ==
    /\ pc = "enter"
    /\ left > 0
    /\ active' = active \cup {NextParent}
    /\ left' = left - 1
    /\ tmp' \in {tmp, parent[NextParent]}
    /\ UNCHANGED <<parent, current, pc, new, parents, nest>>

(* Mutant: the current state is not updated.                               *)
EnterOnly ==
    /\ pc = "enter"
    /\ left = 0
    /\ active' = active \cup {new}
    /\ pc' = "idle"
    /\ new' = None /\ parents' = <<>> /\ nest' = 0
    /\ UNCHANGED <<parent, current, tmp, left>>

(* ENTRY to the new state, which then becomes the current one.             *)
EnterNew ==
    /\ pc = "enter"
    /\ left = 0
    /\ active' = active \cup {new}
    /\ tmp' \in {tmp, parent[new]}
    /\ current' = new
    /\ pc' = "idle"
    /\ new' = None /\ parents' = <<>> /\ nest' = 0
    /\ UNCHANGED <<parent, left>>

-----------------------------------------------------------------------------

Step ==
    \/ Start \/ StartWalk
    \/ Consumed \/ PassedUp \/ \E s \in States : Transition(s)
    \/ Collect \/ Exit \/ EnterParent \/ EnterNew

Next == Receive \/ Step

Spec == Init /\ [][Next]_vars

(* The thread that runs the handler keeps running.                         *)
FairSpec == Spec /\ WF_vars(Step)

-----------------------------------------------------------------------------
(* Properties.                                                             *)

InTransition == pc \in {"collect", "exit", "enter"} /\ new # current

(* Every variable has its type, no NULL state function is called, and the  *)
(* local array is never written beyond its end.                            *)
TypeOK ==
    /\ parent \in Hierarchies
    /\ current \in States
    /\ tmp \in States \cup {None}
    /\ pc \in {"off", "start", "idle", "dispatch", "collect", "exit", "enter"}
    /\ pc \in {"start", "dispatch", "collect", "exit"} => tmp \in States
    /\ new \in States \cup {None}
    /\ pc \in {"collect", "exit", "enter"} => new \in States
    /\ parents \in Seq(States \cup {None}) /\ Len(parents) <= MaxNested
    /\ nest \in 0..MaxNested
    /\ pc = "enter" => /\ left \in 0..(MaxNested - 1)
                       /\ \A i \in 1..left : parents[i] \in States
    /\ active \subseteq States

(* Between two messages the states that have been entered and not left are *)
(* exactly the current state and its parents, after any history of         *)
(* transitions between any two states.                                     *)
ActiveIsPath == pc \in {"idle", "dispatch"} => active = Path(parent, current)

(* A state is entered when it is not active and its parent is, and left    *)
(* when none of its children is active: ENTRY goes outermost first, EXIT   *)
(* innermost first, and neither is sent twice.                             *)
NestedEntryAndExit ==
    [][/\ pc = "enter" => LET s == IF left > 0 THEN NextParent ELSE new
                          IN  /\ s \notin active
                              /\ parent[s] \in active \cup {None}
       /\ \A s \in active \ active' :
              \A t \in active : parent[t] # s]_vars

(* A transition does not leave and enter again a parent that both states   *)
(* have in common, nor the old state when it is a parent of the new one.   *)
KeepsCommonParents ==
    InTransition => Ancestors(parent, new) \cap Path(parent, current) \subseteq active

(* The handling of every message ends: the loops through the parents       *)
(* terminate and the machine is ready for the next message.                *)
RunsToCompletion == (pc # "idle") ~> (pc = "idle")
=============================================================================
