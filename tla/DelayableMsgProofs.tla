-------------------------- MODULE DelayableMsgProofs --------------------------
(***************************************************************************)
(* Proofs about DelayableMsg.  The reference count can only be shown to be *)
(* a number together with what it counts; and what the return values call  *)
(* off is right on one processor because a call that has found the         *)
(* timeout gone, or taken it away, is not interrupted until it ends.       *)
(***************************************************************************)
EXTENDS DelayableMsg, TLAPS

Counted == TypeOK /\ RefCountExact

(* One processor: the interrupt makes calls in a callback handler only,    *)
(* and a call that is past z_abort_timeout is alone.                       *)
Alone ==
    /\ timer # "call" => call["timer"] = "none"
    /\ call["thread"] \in {"check", "add"} => timer = "idle"

(* A reception that was called off and is still expected.                  *)
CalledOff(c) == call[c] = "check" /\ ~failed[c]

Expected ==
    expected = Pending + (IF \E c \in Contexts : CalledOff(c) THEN 1 ELSE 0)

Unlinked == \A c \in Contexts : call[c] \in {"check", "add"} => ~linked

Known == Alone /\ Unlinked /\ Expected

-----------------------------------------------------------------------------

(* At first the message is nowhere and its count is 0.                     *)
LEMMA InitCounted == Init => Counted
<1>1. ASSUME Init PROVE TypeOK
  <2>1. /\ call \in [Contexts -> {"none", "abort", "check", "add"}]
        /\ op \in [Contexts -> Ops]
        /\ failed \in [Contexts -> BOOLEAN]
    BY <1>1 DEF Init, Ops
  <2>2. 0 \in 0..MaxOthers /\ 0 <= MsgqLen /\ 0 \in 0..MaxCalls
    BY DelayableAssumption
  <2>3. /\ rx \in RxTypes /\ linked = FALSE /\ timer = "idle" /\ serving = FALSE
        /\ ref = 0 /\ queued = 0 /\ others = 0 /\ calls = 0 /\ expected = 0
    BY <1>1 DEF Init
  <2>4. linked \in BOOLEAN /\ serving \in BOOLEAN
    BY <2>3
  <2>5. rx = "msgq" => queued + others <= MsgqLen
    BY <2>2, <2>3
  <2> QED
    BY <2>1, <2>2, <2>3, <2>4, <2>5 DEF TypeOK
<1>2. ASSUME Init PROVE RefCountExact
  BY <1>2 DEF Init, RefCountExact
<1> QED
  BY <1>1, <1>2 DEF Counted

(* The timer interrupt keeps types and count: it acquires the reference    *)
(* that it publishes.                                                      *)
LEMMA TimerCounted ==
    ASSUME Counted, Timer
    PROVE  Counted'
<1> USE DelayableAssumption DEF Counted, TypeOK, RefCountExact, callVars, msgVars
<1>1. CASE Expire
  BY <1>1 DEF Expire
<1>2. CASE Acquire
  BY <1>2 DEF Acquire
<1>3. CASE Publish
  BY <1>3 DEF Publish, HasRoom, Less
<1>4. CASE Called
  BY <1>4 DEF Called
<1> QED
  BY <1>1, <1>2, <1>3, <1>4 DEF Timer

(* So does the subscriber's thread, which releases the reference it got    *)
(* with the message.                                                       *)
LEMMA ThreadCounted ==
    ASSUME Counted, Get \/ HandlerReturns \/ OtherPut \/ OtherGet
    PROVE  Counted'
<1> USE DelayableAssumption DEF Counted, TypeOK, RefCountExact, callVars, msgVars
<1>1. CASE Get
  BY <1>1 DEF Get, Between, Less
<1>2. CASE HandlerReturns
  <2>1. serving = TRUE /\ serving' = FALSE /\ ref' = ref - 1
    BY <1>2 DEF HandlerReturns
  <2>2. ref = (IF timer \in {"publish", "call", "waits"} THEN 1 ELSE 0) + queued + 1
    BY <2>1
  <2>3. ref' = (IF timer \in {"publish", "call", "waits"} THEN 1 ELSE 0) + queued
        /\ ref' \in Nat
    BY <2>1, <2>2
  <2>4. UNCHANGED <<rx, linked, queued, others, timer, callVars, expected>>
    BY <1>2 DEF HandlerReturns
  <2>5. RefCountExact'
    BY <2>1, <2>3, <2>4
  <2>6. TypeOK'
    BY <2>1, <2>3, <2>4
  <2> QED
    BY <2>5, <2>6
<1>3. CASE OtherPut
  BY <1>3 DEF OtherPut, HasRoom
<1>4. CASE OtherGet
  BY <1>4 DEF OtherGet, Between
<1> QED
  BY <1>1, <1>2, <1>3, <1>4

(* The calls that start, update and abort do not touch the count; they only *)
(* read it.                                                                *)
LEMMA CallCounted ==
    ASSUME Counted, NEW c \in Contexts,
           CallStep(c) \/ \E o \in Ops : Begin(c, o)
    PROVE  Counted'
<1> USE DelayableAssumption DEF Counted, TypeOK, RefCountExact, callVars, msgVars, Ops
<1>1. CASE \E o \in Ops : Begin(c, o)
  BY <1>1 DEF Begin
<1>2. CASE AbortTimeout(c)
  BY <1>2 DEF AbortTimeout, TimeoutAfterAbort
<1>3. CASE CheckRef(c)
  BY <1>3 DEF CheckRef, Less
<1>4. CASE AddTimeout(c)
  BY <1>4 DEF AddTimeout
<1> QED
  BY <1>1, <1>2, <1>3, <1>4 DEF CallStep

(* Types and count are inductive.                                          *)
LEMMA NextCounted == Counted /\ [Next]_vars => Counted'
<1> SUFFICES ASSUME Counted, [Next]_vars PROVE Counted'
  OBVIOUS
<1>1. CASE UNCHANGED vars
  BY <1>1 DEF Counted, TypeOK, RefCountExact, vars, msgVars, callVars
<1> QED
  BY <1>1, TimerCounted, ThreadCounted, CallCounted DEF Next

(* Every variable has its type in every reachable state, the reference     *)
(* count among them: no release of pub_sub_handle_queued_msg or            *)
(* pub_sub_publish_to_subscriber takes it below 0.                         *)
THEOREM TypeCorrect == Spec => []TypeOK
<1>1. Counted => TypeOK
  BY DEF Counted
<1> QED
  BY <1>1, InitCounted, NextCounted, PTL DEF Spec

(* The reference count of a delayable message is the number of places it   *)
(* is in, whatever is called when and on however many processors.          *)
THEOREM CountsReferences == Spec => []RefCountExact
<1>1. Counted => RefCountExact
  BY DEF Counted
<1> QED
  BY <1>1, InitCounted, NextCounted, PTL DEF Spec

(* Abort refuses, on any number of processors, only while the message is   *)
(* to come or is being handled.  (That it is still to come, as             *)
(* delayable_msg.h says, is not true of an abort in its handler.)          *)
THEOREM RefusesOnlyInUse == Spec => RefusedOnlyInUse
<1>1. ASSUME Counted, NEW c \in Contexts, Refused(c)
      PROVE  Pending > 0 \/ Handling
  <2>1. ref # 0 /\ ref \in Nat /\ queued \in Nat
    BY <1>1 DEF Counted, TypeOK, Refused, Aborted
  <2>2. CASE queued > 0
    BY <2>1, <2>2 DEF Pending, InFlight
  <2>3. CASE queued = 0
    <3>1. timer \in {"publish", "call", "waits"} \/ serving
      BY <1>1, <2>1, <2>3 DEF Counted, RefCountExact
    <3> QED
      BY <2>3, <3>1 DEF Pending, InFlight, Handling
  <2> QED
    BY <2>1, <2>2, <2>3
<1>2. Counted /\ [Next]_vars =>
          [\A c \in Contexts : Refused(c) => Pending > 0 \/ Handling]_vars
  BY <1>1
<1> QED
  BY <1>2, InitCounted, NextCounted, PTL DEF Spec, RefusedOnlyInUse
-----------------------------------------------------------------------------

(* At first nothing is expected and no call is under way.                  *)
LEMMA InitKnown == Init => Known
BY DEF Init, Known, Alone, Unlinked, Expected, CalledOff, Pending, InFlight, Contexts

(* The timer interrupt turns a linked timeout into a message in flight:    *)
(* what is to come stays the same.                                         *)
LEMMA TimerKnown ==
    ASSUME Counted, Known, Timer
    PROVE  Known'
<1> USE DEF Counted, TypeOK, Known, Alone, Unlinked, Expected, CalledOff, Pending,
            InFlight, Contexts, callVars, msgVars
<1>1. CASE Expire
  BY <1>1 DEF Expire
<1>2. CASE Acquire
  BY <1>2 DEF Acquire
<1>3. CASE Publish
  BY <1>3 DEF Publish, Less
<1>4. CASE Called
  BY <1>4 DEF Called
<1> QED
  BY <1>1, <1>2, <1>3, <1>4 DEF Timer

(* On one processor the thread runs only while the interrupt is idle, and  *)
(* what it receives is no longer expected.                                 *)
LEMMA ThreadKnown ==
    ASSUME Counted, Known, ~Smp, Get \/ HandlerReturns \/ OtherPut \/ OtherGet
    PROVE  Known'
<1> USE DEF Counted, TypeOK, Known, Alone, Unlinked, Expected, CalledOff, Pending,
            InFlight, Contexts, callVars, msgVars, ThreadRuns, Between
<1>1. CASE Get
  BY <1>1 DEF Get, Less
<1>2. CASE HandlerReturns
  BY <1>2 DEF HandlerReturns
<1>3. CASE OtherPut \/ OtherGet
  BY <1>3 DEF OtherPut, OtherGet
<1> QED
  BY <1>1, <1>2, <1>3

(* Each step of a call keeps what the caller knows: what an abort calls off *)
(* is what it unlinked.                                                    *)
LEMMA CallKnown ==
    ASSUME Counted, Known, ~Smp, NEW c \in Contexts,
           CallStep(c) \/ \E o \in Ops : Begin(c, o)
    PROVE  Known'
<1> USE DEF Counted, TypeOK, Known, Alone, Unlinked, Expected, CalledOff, Pending,
            InFlight, Contexts, callVars, msgVars, ThreadRuns, Runs
<1>1. CASE \E o \in Ops : Begin(c, o)
  BY <1>1 DEF Begin
<1>2. CASE AbortTimeout(c)
  <2>1. /\ linked' = FALSE
        /\ call' = [call EXCEPT ![c] = "check"]
        /\ failed' = [failed EXCEPT ![c] = ~linked]
        /\ call[c] = "abort"
        /\ UNCHANGED <<rx, ref, queued, others, timer, serving, op, calls, expected>>
    BY <1>2 DEF AbortTimeout, TimeoutAfterAbort
  <2>2. timer = IF c = "thread" THEN "idle" ELSE "call"
    BY <1>2 DEF AbortTimeout
  <2>3. \A d \in Contexts : ~CalledOff(d)
    BY <2>1, <2>2
  <2>4. \A d \in Contexts : CalledOff(d)' <=> d = c /\ linked
    BY <2>1, <2>3
  <2>5. expected = (IF linked THEN 1 ELSE 0) + InFlight + queued
    BY <2>3
  <2>6. Expected'
    <3>1. CASE linked
      BY <3>1, <2>1, <2>4, <2>5
    <3>2. CASE ~linked
      BY <3>2, <2>1, <2>4, <2>5
    <3> QED
      BY <3>1, <3>2
  <2>7. Alone' /\ Unlinked'
    BY <2>1, <2>2
  <2> QED
    BY <2>6, <2>7
<1>3. CASE CheckRef(c)
  BY <1>3 DEF CheckRef, Less, Aborted, RefCountExact
<1>4. CASE AddTimeout(c)
  BY <1>4 DEF AddTimeout
<1> QED
  BY <1>1, <1>2, <1>3, <1>4 DEF CallStep

(* What callers know on one processor is inductive.                        *)
LEMMA NextKnown == ~Smp /\ Counted /\ Known /\ [Next]_vars => Known'
<1> SUFFICES ASSUME ~Smp, Counted, Known, [Next]_vars PROVE Known'
  OBVIOUS
<1>1. CASE UNCHANGED vars
  BY <1>1 DEF Known, Alone, Unlinked, Expected, CalledOff, Pending, InFlight,
              vars, msgVars, callVars
<1> QED
  BY <1>1, TimerKnown, ThreadKnown, CallKnown DEF Next

(* On one processor a 0 of pub_sub_delayable_msg_abort calls off exactly   *)
(* one reception and a -EINVAL none: what was started and not called off   *)
(* is still to come, and nothing else is.                                  *)
THEOREM CallsOffWhatItSays ==
    ASSUME ~Smp
    PROVE  Spec => []ReturnsTellWhatIsToCome
<1>1. Counted /\ Known => ReturnsTellWhatIsToCome
  <2> SUFFICES ASSUME Counted, Known, \A c \in Contexts : call[c] = "none"
               PROVE  expected = Pending
    BY DEF ReturnsTellWhatIsToCome
  <2>1. ~\E c \in Contexts : CalledOff(c)
    BY DEF CalledOff
  <2>2. Pending \in Nat
    BY DEF Counted, TypeOK, Pending, InFlight
  <2>3. expected = Pending + 0
    BY <2>1 DEF Known, Expected
  <2> QED
    BY <2>2, <2>3
<1>2. Counted /\ Known /\ [Next]_vars => Known'
  BY NextKnown
<1> QED
  BY <1>1, <1>2, InitCounted, NextCounted, InitKnown, PTL DEF Spec

(* And z_add_timeout is never called for a timeout the kernel has already. *)
THEOREM AddsAreLegal ==
    ASSUME ~Smp
    PROVE  Spec => []NeverAddedTwice
<1>1. Known => NeverAddedTwice
  BY DEF Known, Unlinked, NeverAddedTwice
<1>2. Counted /\ Known /\ [Next]_vars => Known'
  BY NextKnown
<1> QED
  BY <1>1, <1>2, InitCounted, NextCounted, InitKnown, PTL DEF Spec
=============================================================================
