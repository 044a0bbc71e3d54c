------------------------------- MODULE MsgAlloc -------------------------------
(***************************************************************************)
(* Messages and where their memory comes from: the packed word of msg.h    *)
(* (message id, allocator id, reference counter), pub_sub_new_msg and      *)
(* pub_sub_release_msg, the allocators of the linker section and those     *)
(* added at run time, their memory slabs, and static and callback          *)
(* messages.  Who holds a reference does not matter here: a reference is   *)
(* in one of Holders (a queue entry, a handler, a publisher).              *)
(*                                                                         *)
(* A step is what a thread does between two points where another thread    *)
(* can see or change something: an atomic operation on the word, a write   *)
(* to the table of run-time allocators or to an allocator, a slab          *)
(* operation, a callback.                                                  *)
(***************************************************************************)
EXTENDS Integers, Sequences, FiniteSets

CONSTANTS
    Threads, None,
    Section,        \* the allocators of the linker section, in its order
    Runtime,        \* allocators set up by pub_sub_init_mem_slab_allocator
    Blocks,         \* the blocks of all memory slabs ...
    Slab,           \* ... and the allocator whose slab each is part of
    Statics,        \* static messages
    Callbacks,      \* callback messages
    Holders,        \* places for a reference
    MsgIds,
    RefMax,         \* largest value of the 8-bit reference counter (255)
    RuntimeOffset,  \* first allocator id of a run-time allocator (0x80)
    MaxRuntime,     \* CONFIG_PUB_SUB_RUNTIME_ALLOCATORS_MAX_NUM
    AddedFirst      \* the application allocates from a run-time allocator only
                    \* while no adding of it is under way

Msgs == Blocks \cup Statics \cup Callbacks
Allocators == {Section[i] : i \in 1..Len(Section)} \cup Runtime

(* Allocator ids have 8 bits: the lower half is the linker section's, the  *)
(* last four are special.                                                  *)
AllocIds         == 0..(2 * RuntimeOffset - 1)
LinkSectionMaxId == RuntimeOffset - 1
InvalidId        == 2 * RuntimeOffset - 1
StaticId         == 2 * RuntimeOffset - 2
CallbackId       == 2 * RuntimeOffset - 3
LinkSectionId    == 2 * RuntimeOffset - 4

ASSUME NoneAssumption == None \notin Threads \cup Msgs \cup Allocators
ASSUME SectionAssumption ==
    /\ Section \in Seq(Allocators)
    /\ Len(Section) <= RuntimeOffset
    /\ \A i, j \in 1..Len(Section) : Section[i] = Section[j] => i = j
    /\ \A i \in 1..Len(Section) : Section[i] \notin Runtime
ASSUME KindAssumption ==
    /\ Slab \in [Blocks -> Allocators]
    /\ Blocks \cap Statics = {} /\ Blocks \cap Callbacks = {} /\ Statics \cap Callbacks = {}
ASSUME SomeMsgIdAssumption == MsgIds # {} /\ MsgIds \subseteq Nat
ASSUME WidthAssumption == RefMax \in Nat \ {0} /\ RuntimeOffset \in Nat /\ RuntimeOffset >= 4
ASSUME CapacityAssumption == MaxRuntime \in Nat
ASSUME HoldersAssumption == IsFiniteSet(Holders)
ASSUME AddedFirstAssumption == AddedFirst \in BOOLEAN

VARIABLES
    word,   \* pub_sub_msg.atomic_data of each message
    slab,   \* free blocks in the memory slab of each allocator
    ready,  \* callback messages their owners have been told they may re-use
    allocId,\* allocator->allocator_id of each run-time allocator
    table,  \* g_runtime_allocators.allocators
    num,    \* g_runtime_allocators.num_allocators
    mutex,  \* owner of g_runtime_allocators.mutex
    pc, obj,\* a thread: its step, and the allocator or message it works on
    refs    \* history: who holds a reference to each message

tableVars == <<allocId, table, num, mutex>>
vars == <<word, slab, ready, tableVars, pc, obj, refs>>

(* PUB_SUB_MSG_ATOMIC_DATA_INIT                                            *)
Word(i, a, n) == [id |-> i, alloc |-> a, ref |-> n]

(* pub_sub_init_mem_slab_allocator gives a run-time allocator no valid id. *)
Init ==
    /\ \E i \in MsgIds :
          word = [m \in Msgs |-> Word(i, IF m \in Callbacks THEN CallbackId ELSE StaticId, 0)]
    /\ slab = [a \in Allocators |-> {b \in Blocks : Slab[b] = a}]
    /\ ready = Callbacks
    /\ allocId = [a \in Runtime |-> InvalidId]
    /\ table = [i \in 0..(MaxRuntime - 1) |-> None]
    /\ num = 0
    /\ mutex = None
    /\ pc = [t \in Threads |-> "idle"]
    /\ obj = [t \in Threads |-> None]
    /\ refs = [m \in Msgs |-> {}]

Goto(t, step, o) == pc' = [pc EXCEPT ![t] = step] /\ obj' = [obj EXCEPT ![t] = o]

-----------------------------------------------------------------------------
(* pub_sub_add_runtime_allocator.                                          *)

(* Mutant: the table is full one allocator too late.                       *)
TableRoomForOneMore == num <= MaxRuntime

(* Otherwise -ENOMEM is returned and nothing has changed.                  *)
TableRoom == num < MaxRuntime

(* Mutant: the mutex is not taken.                                         *)
NoTableLock(t) == UNCHANGED mutex

LockTable(t) == mutex = None /\ mutex' = t

(* Nothing keeps an allocator from being added a second time.              *)
StartAdd(t, a) ==
    /\ pc[t] = "idle"
    /\ LockTable(t)
    /\ TableRoom
    /\ Goto(t, "assign", a)
    /\ UNCHANGED <<word, slab, ready, allocId, table, num, refs>>

AssignId(t) ==
    /\ pc[t] = "assign"
    /\ allocId' = [allocId EXCEPT ![obj[t]] = (num + RuntimeOffset) % (2 * RuntimeOffset)]
    /\ Goto(t, "enter", obj[t])
    /\ UNCHANGED <<word, slab, ready, table, num, mutex, refs>>

(* The local allocator_id, the uint8_t read when the id was assigned.      *)
LocalId(a) == (allocId[a] - RuntimeOffset) % (2 * RuntimeOffset)

EnterTable(t) ==
    /\ pc[t] = "enter"
    /\ table' = [table EXCEPT ![LocalId(obj[t])] = obj[t]]
    /\ Goto(t, "count", obj[t])
    /\ UNCHANGED <<word, slab, ready, allocId, num, mutex, refs>>

CountAllocator(t) ==
    /\ pc[t] = "count"
    /\ num' = num + 1
    /\ mutex' = None
    /\ Goto(t, "idle", None)
    /\ UNCHANGED <<word, slab, ready, allocId, table, refs>>

-----------------------------------------------------------------------------
(* Getting a message and references to it.                                 *)

(* atomic_inc acts on the whole word: a full counter carries into the      *)
(* allocator id.                                                           *)
Inc(w) ==
    IF w.ref < RefMax THEN [w EXCEPT !.ref = @ + 1]
    ELSE IF w.alloc < InvalidId THEN [w EXCEPT !.ref = 0, !.alloc = @ + 1]
    ELSE [w EXCEPT !.ref = 0, !.alloc = 0, !.id = @ + 1]

(* The assertion of pub_sub_new_msg.                                       *)
HasId(a) == a \in Runtime => allocId[a] # InvalidId

AddSteps == {"assign", "enter", "count"}
UnderWay(a) == \E t \in Threads : pc[t] \in AddSteps /\ obj[t] = a

(* Mutant: the id is not looked at.                                        *)
AnyTime(a) == TRUE

(* "A message can not be allocated from an allocator until it has been     *)
(* added": it must have an id, and an application that is AddedFirst waits *)
(* until pub_sub_add_runtime_allocator has returned.                       *)
MayAllocate(a) == HasId(a) /\ (AddedFirst => ~UnderWay(a))

(* allocator - STRUCT_SECTION_START                                        *)
SectionIndex(a) == (CHOOSE i \in 1..Len(Section) : Section[i] = a) - 1

(* The id a message from a gets.  A linker section allocator has none of   *)
(* its own; for one outside the section that has the same id,              *)
(* SectionIndex is the difference of unrelated pointers, cut to 8 bits.    *)
IdsOf(a) ==
    IF a \notin Runtime THEN {SectionIndex(a)}
    ELSE IF allocId[a] = LinkSectionId THEN AllocIds
    ELSE {allocId[a]}

(* pub_sub_new_msg: nobody else sees the block before it returns.          *)
NewMsg(t, a, i, h) ==
    /\ pc[t] = "idle"
    /\ MayAllocate(a)
    /\ \E b \in slab[a], id \in IdsOf(a) :
          /\ slab' = [slab EXCEPT ![a] = @ \ {b}]
          /\ word' = [word EXCEPT ![b] = Inc(Word(i, id, 0))]
          /\ refs' = [refs EXCEPT ![b] = {h}]
    /\ UNCHANGED <<ready, tableVars, pc, obj>>

(* pub_sub_acquire_msg by a holder of m, on behalf of h.  That the counter *)
(* has room is an assertion only, which most builds leave out.             *)
Acquire(m, h) ==
    /\ refs[m] # {} /\ h \notin refs[m]
    /\ word' = [word EXCEPT ![m] = Inc(@)]
    /\ refs' = [refs EXCEPT ![m] = @ \cup {h}]
    /\ UNCHANGED <<slab, ready, tableVars, pc, obj>>

(* Mutant: the owner does not look at the counter.                         *)
Whenever(m) == TRUE

(* README: "the reference counter should be checked, when it reaches 0".   *)
Unused(m) == word[m].ref = 0

(* The owner of a static message initializes it, or leaves it as it is,    *)
(* and acquires it, as it must "prior to every publish".                   *)
UseStatic(m, i, h) ==
    /\ Unused(m)
    /\ word' = [word EXCEPT ![m] = Inc(Word(i, StaticId, 0))]
    /\ refs' = [refs EXCEPT ![m] = @ \cup {h}]
    /\ UNCHANGED <<slab, ready, tableVars, pc, obj>>

(* Mutant: the owner looks at the counter and does not wait for the call.  *)
CountedOut(m) == word[m].ref = 0

(* The callback has told the owner that the message may be re-used.        *)
CalledBack(m) == m \in ready

UseCallback(m, i, h) ==
    /\ CalledBack(m)
    /\ ready' = ready \ {m}
    /\ word' = [word EXCEPT ![m] = Inc(Word(i, CallbackId, 0))]
    /\ refs' = [refs EXCEPT ![m] = @ \cup {h}]
    /\ UNCHANGED <<slab, tableVars, pc, obj>>

-----------------------------------------------------------------------------
(* pub_sub_release_msg.                                                    *)

Dec(w) ==
    IF w.ref > 0 THEN [w EXCEPT !.ref = @ - 1]
    ELSE IF w.alloc > 0 THEN [w EXCEPT !.ref = RefMax, !.alloc = @ - 1]
    ELSE [w EXCEPT !.ref = RefMax, !.alloc = InvalidId, !.id = @ - 1]

(* atomic_dec returns the previous value.                                  *)
WasLast(m) == word[m].ref = 1

(* The reference of h is dropped: by atomic_dec, after which everybody     *)
(* else may see the counter at 0.                                          *)
Drop(t, m, h) ==
    /\ pc[t] = "idle"
    /\ h \in refs[m]
    /\ word' = [word EXCEPT ![m] = Dec(@)]
    /\ refs' = [refs EXCEPT ![m] = @ \ {h}]
    /\ IF WasLast(m) THEN Goto(t, "free", m) ELSE UNCHANGED <<pc, obj>>
    /\ UNCHANGED <<slab, ready, tableVars>>

(* (allocator_id - PUB_SUB_ALLOC_ID_RUNTIME_OFFSET) < num_allocators       *)
IsRuntime(id) == id > LinkSectionMaxId /\ id - RuntimeOffset < num

(* The allocator that frees a message with this id, None for no one.       *)
FreeingAllocator(id) ==
    IF id <= LinkSectionMaxId THEN IF id < Len(Section) THEN Section[id + 1] ELSE None
    ELSE IF IsRuntime(id) THEN table[id - RuntimeOffset]
    ELSE None

(* Only now is the allocator id read.  A static message has no allocator:  *)
(* its memory is its owner's as soon as the counter is 0.                  *)
Free(t) ==
    LET id == word[obj[t]].alloc
        a  == FreeingAllocator(id)
    IN  /\ pc[t] = "free"
        /\ slab' = IF a = None THEN slab ELSE [slab EXCEPT ![a] = @ \cup {obj[t]}]
        /\ ready' = IF a = None /\ id = CallbackId THEN ready \cup {obj[t]} ELSE ready
        /\ Goto(t, "idle", None)
        /\ UNCHANGED <<word, tableVars, refs>>

-----------------------------------------------------------------------------

Add(t) == \/ \E a \in Runtime : StartAdd(t, a)
          \/ AssignId(t) \/ EnterTable(t) \/ CountAllocator(t)

Next ==
    \/ \E t \in Threads : Add(t) \/ Free(t)
    \/ \E t \in Threads, a \in Allocators, i \in MsgIds, h \in Holders : NewMsg(t, a, i, h)
    \/ \E m \in Msgs, h \in Holders : Acquire(m, h)
    \/ \E m \in Statics, i \in MsgIds, h \in Holders : UseStatic(m, i, h)
    \/ \E m \in Callbacks, i \in MsgIds, h \in Holders : UseCallback(m, i, h)
    \/ \E t \in Threads, m \in Msgs, h \in Holders : Drop(t, m, h)

Spec == Init /\ [][Next]_vars
-----------------------------------------------------------------------------
(* Properties.                                                             *)

Words == [id : MsgIds, alloc : AllocIds, ref : 0..RefMax]

(* Every variable has its type and a thread in the middle of an operation  *)
(* has the allocator or the message the operation is about.                *)
TypeOK ==
    /\ word \in [Msgs -> Words]
    /\ slab \in [Allocators -> SUBSET Msgs]
    /\ ready \subseteq Callbacks
    /\ allocId \in [Runtime -> AllocIds]
    /\ table \in [0..(MaxRuntime - 1) -> Runtime \cup {None}]
    /\ num \in 0..MaxRuntime
    /\ mutex \in Threads \cup {None}
    /\ pc \in [Threads -> AddSteps \cup {"idle", "free"}]
    /\ obj \in [Threads -> Runtime \cup Msgs \cup {None}]
    /\ \A t \in Threads : /\ pc[t] \in AddSteps => obj[t] \in Runtime
                          /\ pc[t] = "free" => obj[t] \in Msgs
                          /\ pc[t] = "idle" => obj[t] = None
    /\ refs \in [Msgs -> SUBSET Holders]

(* The eight bits next to the allocator id count the references exactly.   *)
CountExact == \A m \in Msgs : word[m].ref = Cardinality(refs[m])

Freeing(m) == {t \in Threads : pc[t] = "free" /\ obj[t] = m}

FindsAllocator(m) ==
    /\ m \in Blocks => FreeingAllocator(word[m].alloc) = Slab[m]
    /\ m \in Callbacks => word[m].alloc = CallbackId
    /\ m \in Statics => word[m].alloc = StaticId

(* As long as a message is referred to, or its last holder is about to     *)
(* free it, its word leads to the allocator it came from ("without a valid *)
(* allocator id messages can not be released back to the correct           *)
(* allocator"), to its callback, or to nobody if it is static.             *)
ReleaseFindsAllocator ==
    \A m \in Msgs : refs[m] # {} \/ Freeing(m) # {} => FindsAllocator(m)

(* A message is back where it came from: in its slab, or with its owner,   *)
(* who has been called.                                                    *)
Back(m) == IF m \in Blocks THEN m \in slab[Slab[m]] ELSE m \in ready

OwnBlocks(a) == {b \in Blocks : Slab[b] = a}
Returned(m) ==
    /\ Back(m) <=> refs[m] = {} /\ Freeing(m) = {}
    /\ Freeing(m) # {} => refs[m] = {}
    /\ \A t, u \in Freeing(m) : t = u

(* A block is handed back to its own slab and a callback message to its    *)
(* owner exactly once each time the last reference is dropped, never       *)
(* before: no leak, no double free, no message re-used while a holder or a *)
(* callback to come still relates to its former use.                       *)
ReturnedOnce ==
    /\ \A a \in Allocators : slab[a] \subseteq OwnBlocks(a)
    /\ \A m \in Blocks \cup Callbacks : Returned(m)

(* While a message is referred to nothing, neither counting nor its owner, *)
(* changes the message id or the allocator id in its word.                 *)
IdentityKept ==
    [][\A m \in Msgs : refs[m] # {} =>
           word'[m].id = word[m].id /\ word'[m].alloc = word[m].alloc]_vars

(* "Run time allocators can only be added and never removed so we don't    *)
(* need to lock the mutex to find a run time allocator from an allocator   *)
(* id as it can never change once assigned": an id that has been given out *)
(* means the same allocator for ever, even if that one is added again.     *)
RuntimeIdsFinal ==
    [][\A i \in 0..(num - 1) : i < num' /\ table'[i] = table[i]]_vars

(* The assertion of pub_sub_msg_inc_ref_cnt, "ref count overflow": it is   *)
(* never called with the counter at its largest value.                     *)
NoRefOverflow ==
    [][\A m \in Msgs : \A h \in refs'[m] \ refs[m] :
           refs[m] # {} => word[m].ref < RefMax]_vars
=============================================================================
