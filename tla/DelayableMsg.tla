----------------------------- MODULE DelayableMsg -----------------------------
(***************************************************************************)
(* One delayable message (lib/pub_sub/delayable_msg.c): its kernel         *)
(* timeout, the timer interrupt that publishes it to its subscriber, the   *)
(* subscriber's thread and the calls that start, update and abort it.  All *)
(* calls are made by the subscriber, from its handler or between messages, *)
(* as README.md ("Delayable messages") advises.                            *)
(***************************************************************************)
EXTENDS Integers

CONSTANTS
    RxTypes,    \* the types of subscriber to look at
    MsgqLen,    \* capacity of the k_msgq of a msgq subscriber
    MaxOthers,  \* other messages that are in it at any time
    MaxCalls,   \* bound: calls of start, update and abort
    Smp         \* the interrupt runs on another processor than the thread

ASSUME DelayableAssumption ==
    /\ RxTypes \subseteq {"callback", "msgq", "fifo"}
    /\ MsgqLen \in Nat \ {0} /\ MaxOthers \in 0..MsgqLen
    /\ MaxCalls \in Nat
    /\ Smp \in BOOLEAN

VARIABLES
    rx,         \* subscriber->rx_type
    linked,     \* the kernel: the timeout is in its queue
    ref,        \* the message's reference count
    timer,      \* the interrupt: idle, fired, publish, call or waits
    queued,     \* how often the message is in the subscriber's queue
    others,     \* other messages in a msgq
    serving,    \* the subscriber's thread is in the handler with the message
    call,       \* per context, the step of its call: none, abort, check or add
    op,         \* per context, the function called
    failed,     \* per context, z_abort_timeout returned an error
    calls,      \* history: the number of calls
    expected    \* history: the receptions the callers have to expect (see Begin)

msgVars == <<linked, ref, queued, others>>
callVars == <<call, op, failed, calls>>
vars == <<rx, msgVars, timer, serving, callVars, expected>>

Contexts == {"thread", "timer"}
Ops == {"start", "update", "abort"}

Less(n) == IF n = 0 THEN 0 ELSE n - 1

(* pub_sub_delayable_msg_init                                              *)
Init ==
    /\ rx \in RxTypes
    /\ linked = FALSE /\ ref = 0 /\ queued = 0 /\ others = 0
    /\ timer = "idle"
    /\ serving = FALSE
    /\ call = [c \in Contexts |-> "none"]
    /\ op = [c \in Contexts |-> "start"]
    /\ failed = [c \in Contexts |-> FALSE]
    /\ calls = 0 /\ expected = 0

-----------------------------------------------------------------------------
(* The timer interrupt.  On one processor it is not interrupted by the     *)
(* thread; the kernel has unlinked the timeout before it calls             *)
(* pub_sub_delayable_msg_handler.                                          *)

(* README.md: "A subscriber must process a delayable message before it     *)
(* times out a second time".                                               *)
InTime == queued = 0

Expire ==
    /\ linked /\ timer = "idle" /\ InTime
    /\ linked' = FALSE
    /\ timer' = "fired"
    /\ UNCHANGED <<rx, ref, queued, others, serving, callVars, expected>>

(* Mutant: the reference is not acquired.                                  *)
NotAcquired ==
    /\ timer = "fired"
    /\ timer' = "publish"
    /\ UNCHANGED <<rx, msgVars, serving, callVars, expected>>

(* pub_sub_acquire_msg, after an assertion that is compiled out by default *)
(* (NotInUseWhenFired)                                                     *)
Acquire ==
    /\ timer = "fired"
    /\ ref' = ref + 1
    /\ timer' = "publish"
    /\ UNCHANGED <<rx, linked, queued, others, serving, callVars, expected>>

(* Mutant: one place is never used.                                        *)
HasRoomForTwo == rx = "msgq" => queued + others + 1 < MsgqLen

(* k_msgq_put does not have to wait.                                       *)
HasRoom == rx = "msgq" => queued + others < MsgqLen

(* pub_sub_publish_to_subscriber calls a callback subscriber's handler or  *)
(* puts the message into the queue.  If there is no room k_msgq_put waits, *)
(* with K_FOREVER, in an interrupt.                                        *)
Publish ==
    /\ timer = "publish"
    /\ \/ /\ rx = "callback"
          /\ timer' = "call"
          /\ expected' = Less(expected)
          /\ UNCHANGED queued
       \/ /\ rx # "callback"
          /\ timer' = IF HasRoom THEN "idle" ELSE "waits"
          /\ queued' = IF HasRoom THEN queued + 1 ELSE queued
          /\ UNCHANGED expected
    /\ UNCHANGED <<rx, linked, ref, others, serving, callVars>>

(* A callback subscriber's handler returns and the reference is released.  *)
Called ==
    /\ timer = "call" /\ call["timer"] = "none"
    /\ ref' = ref - 1
    /\ timer' = "idle"
    /\ UNCHANGED <<rx, linked, queued, others, serving, callVars, expected>>

-----------------------------------------------------------------------------
(* The subscriber's thread, which runs while no interrupt does.            *)

ThreadRuns == Smp \/ timer = "idle"
Between == ThreadRuns /\ call["thread"] = "none" /\ ~serving

(* pub_sub_handle_queued_msg gets the message and calls the handler.       *)
Get ==
    /\ Between /\ queued > 0
    /\ queued' = queued - 1
    /\ serving' = TRUE
    /\ expected' = Less(expected)
    /\ UNCHANGED <<rx, linked, ref, others, timer, callVars>>

HandlerReturns ==
    /\ ThreadRuns /\ serving /\ call["thread"] = "none"
    /\ ref' = ref - 1
    /\ serving' = FALSE
    /\ UNCHANGED <<rx, linked, queued, others, timer, callVars, expected>>

(* Other messages come and go.                                             *)
OtherPut ==
    /\ ThreadRuns /\ rx = "msgq" /\ others < MaxOthers /\ HasRoom
    /\ others' = others + 1
    /\ UNCHANGED <<rx, linked, ref, queued, timer, serving, callVars, expected>>

OtherGet ==
    /\ Between /\ others > 0
    /\ others' = others - 1
    /\ UNCHANGED <<rx, linked, ref, queued, timer, serving, callVars, expected>>

-----------------------------------------------------------------------------
(* The calls, one step per access to the timeout or the message.           *)

Runs(c) == IF c = "thread" THEN ThreadRuns ELSE timer = "call"

(* A call starts.  The caller goes by what the functions return: a start   *)
(* announces one reception, an abort that returns 0 calls one off (the one *)
(* of the last start, if an update has left an earlier one in the queue),  *)
(* one that does not return 0 calls off nothing, and an update is an abort *)
(* and a start.  The kernel must not be given a timeout it has already, so the   *)
(* caller only starts a message it does not expect.                        *)
Begin(c, o) ==
    /\ Runs(c) /\ call[c] = "none" /\ calls < MaxCalls
    /\ o = "start" => expected = 0
    /\ call' = [call EXCEPT ![c] = IF o = "start" THEN "add" ELSE "abort"]
    /\ op' = [op EXCEPT ![c] = o]
    /\ calls' = calls + 1
    /\ UNCHANGED <<rx, msgVars, timer, serving, failed, expected>>

(* Mutant: the timeout stays in the kernel's queue.                        *)
KeptTimeout(c) == linked

(* The timeout once z_abort_timeout has been called for it.                *)
TimeoutAfterAbort(c) == FALSE

(* z_abort_timeout                                                         *)
AbortTimeout(c) ==
    /\ Runs(c) /\ call[c] = "abort"
    /\ failed' = [failed EXCEPT ![c] = ~linked]
    /\ linked' = TimeoutAfterAbort(c)
    /\ call' = [call EXCEPT ![c] = "check"]
    /\ UNCHANGED <<rx, ref, queued, others, timer, serving, op, calls, expected>>

(* Mutant: abort always reports success.                                   *)
AbortedOnly(c) == TRUE

(* Mutant: the reference count is not looked at.                           *)
TimeoutOnly(c) == ~failed[c]

(* The value abort returns is 0: the timeout was aborted, or the message   *)
(* is not in use.                                                          *)
Aborted(c) == ~failed[c] \/ ref = 0

CheckRef(c) ==
    /\ Runs(c) /\ call[c] = "check"
    /\ expected' = IF Aborted(c) THEN Less(expected) ELSE expected
    /\ call' = [call EXCEPT ![c] = IF op[c] = "update" THEN "add" ELSE "none"]
    /\ UNCHANGED <<rx, msgVars, timer, serving, op, failed, calls>>

(* z_add_timeout                                                           *)
AddTimeout(c) ==
    /\ Runs(c) /\ call[c] = "add"
    /\ linked' = TRUE
    /\ expected' = expected + 1
    /\ call' = [call EXCEPT ![c] = "none"]
    /\ UNCHANGED <<rx, ref, queued, others, timer, serving, op, failed, calls>>

-----------------------------------------------------------------------------

Timer == Expire \/ Acquire \/ Publish \/ Called
CallStep(c) == AbortTimeout(c) \/ CheckRef(c) \/ AddTimeout(c)

Next ==
    \/ Timer
    \/ Get \/ HandlerReturns \/ OtherPut \/ OtherGet
    \/ \E c \in Contexts : CallStep(c) \/ \E o \in Ops : Begin(c, o)

Spec == Init /\ [][Next]_vars

(* Time passes, the interrupt and the subscriber's thread keep running.    *)
FairSpec ==
    /\ Spec
    /\ WF_vars(Timer)
    /\ WF_vars(Get) /\ WF_vars(HandlerReturns)
    /\ \A c \in Contexts : WF_vars(CallStep(c))

-----------------------------------------------------------------------------
(* Properties.                                                             *)

InFlight == IF timer \in {"fired", "publish", "waits"} THEN 1 ELSE 0
Pending == (IF linked THEN 1 ELSE 0) + InFlight + queued

(* Every variable has its type.                                            *)
TypeOK ==
    /\ rx \in RxTypes
    /\ linked \in BOOLEAN /\ ref \in Nat /\ queued \in Nat /\ others \in 0..MaxOthers
    /\ rx = "msgq" => queued + others <= MsgqLen
    /\ timer \in {"idle", "fired", "publish", "call", "waits"}
    /\ serving \in BOOLEAN
    /\ call \in [Contexts -> {"none", "abort", "check", "add"}]
    /\ op \in [Contexts -> Ops]
    /\ failed \in [Contexts -> BOOLEAN]
    /\ calls \in 0..MaxCalls /\ expected \in Nat

(* The reference count tells where the message is: one for the interrupt   *)
(* that publishes it, one for each place in the queue, one for the         *)
(* handler.  It is what pub_sub_delayable_msg_abort takes for "in use".    *)
RefCountExact ==
    ref = (IF timer \in {"publish", "call", "waits"} THEN 1 ELSE 0)
          + queued + (IF serving THEN 1 ELSE 0)

(* An abort that returns 0 ("0 if successfully aborted") has called off    *)
(* one reception and one that does not return 0 has called off none:       *)
(* whenever no call is under way, the receptions that were started and not *)
(* called off are those still to come, in the timeout, in the interrupt or *)
(* in the queue.                                                           *)
ReturnsTellWhatIsToCome ==
    (\A c \in Contexts : call[c] = "none") => expected = Pending

(* Abort is refused, by -EINVAL, only while the message is to come or is   *)
(* being handled: who asks for a message that is nowhere is told 0.        *)
Handling == serving \/ timer = "call"
Refused(c) == CheckRef(c) /\ ~Aborted(c)
RefusedOnlyInUse == [][\A c \in Contexts : Refused(c) => Pending > 0 \/ Handling]_vars

(* delayable_msg.h: "If this function does not return 0 the subscriber     *)
(* will receive the delayable message some time in the future."            *)
RefusedIsReceived == [][\A c \in Contexts : Refused(c) => Pending > 0]_vars

(* The assertion of pub_sub_delayable_msg_handler: "Ref count must be zero *)
(* otherwise the message is already queued".                               *)
NotInUseWhenFired == timer = "fired" => ref = 0

(* The kernel is never given a timeout that is already in its queue.       *)
NeverAddedTwice == \A c \in Contexts : call[c] = "add" => ~linked

(* A message that abort reported as aborted is not received any more: with *)
(* nothing expected nothing is in flight.                                  *)
AbortedNotReceived ==
    expected = 0 /\ (\A c \in Contexts : call[c] = "none") => InFlight + queued = 0

(* A message that was started is received or called off in the end.        *)
EventuallySettled == (Pending > 0) ~> (Pending = 0)
=============================================================================
