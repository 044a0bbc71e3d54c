---------------------------- MODULE MsgAllocProofs ----------------------------
(***************************************************************************)
(* Safety of MsgAlloc for all constants: any number of allocators, blocks, *)
(* messages, threads and holders, and any widths of the word's fields.     *)
(* What the code leaves to its users is a hypothesis of each theorem.      *)
(***************************************************************************)
EXTENDS MsgAlloc, FiniteSetTheorems, TLAPS

(* The run-time ids stay below the special ones.  Kconfig has no range for *)
(* CONFIG_PUB_SUB_RUNTIME_ALLOCATORS_MAX_NUM.                              *)
IdsFit == MaxRuntime <= RuntimeOffset - 4

(* The counter is wide enough for all references there may be.             *)
HoldersFit == Cardinality(Holders) <= RefMax

-----------------------------------------------------------------------------
(* Registration of run-time allocators, which does not look at messages.   *)

TableTypes ==
    /\ allocId \in [Runtime -> AllocIds]
    /\ table \in [0..(MaxRuntime - 1) -> Runtime \cup {None}]
    /\ num \in 0..MaxRuntime
    /\ mutex \in Threads \cup {None}
    /\ pc \in [Threads -> AddSteps \cup {"idle", "free"}]
    /\ obj \in [Threads -> Runtime \cup Msgs \cup {None}]
    /\ \A t \in Threads : /\ pc[t] \in AddSteps => obj[t] \in Runtime
                          /\ pc[t] = "free" => obj[t] \in Msgs
                          /\ pc[t] = "idle" => obj[t] = None

(* The entries that are counted are complete; an allocator with an id that *)
(* is not being added is found at the place its id says; the thread that   *)
(* owns the mutex is the only one adding, and has room.                    *)
Entered == \A i \in 0..(num - 1) : table[i] \in Runtime
Leads(a) == \E i \in 0..(num - 1) : table[i] = a /\ allocId[a] = i + RuntimeOffset
IdsLead == \A a \in Runtime : allocId[a] # InvalidId /\ ~UnderWay(a) => Leads(a)
Adding(t) ==
    /\ pc[t] \in AddSteps => mutex = t /\ num < MaxRuntime
    /\ pc[t] \in {"enter", "count"} => allocId[obj[t]] = num + RuntimeOffset
    /\ pc[t] = "count" => table[num] = obj[t]
TableInv == TableTypes /\ Entered /\ IdsLead /\ \A t \in Threads : Adding(t)

(* Run-time ids do not wrap around and stay below the special ones, so none *)
(* of these is taken for a run-time allocator.                             *)
LEMMA IdArithmetic ==
    ASSUME IdsFit
    PROVE  /\ InvalidId \in AllocIds /\ StaticId \in AllocIds /\ CallbackId \in AllocIds
           /\ \A n \in 0..MaxRuntime :
                 /\ n < MaxRuntime =>
                       /\ (n + RuntimeOffset) % (2 * RuntimeOffset) = n + RuntimeOffset
                       /\ n % (2 * RuntimeOffset) = n
                       /\ n + RuntimeOffset \in AllocIds
                       /\ n + RuntimeOffset < LinkSectionId
                 /\ ~(StaticId - RuntimeOffset < n) /\ ~(CallbackId - RuntimeOffset < n)
           /\ LinkSectionId < CallbackId /\ CallbackId < StaticId /\ StaticId < InvalidId
           /\ LinkSectionMaxId < LinkSectionId
<1>1. ASSUME NEW n \in 0..MaxRuntime, n < MaxRuntime
      PROVE  /\ (n + RuntimeOffset) % (2 * RuntimeOffset) = n + RuntimeOffset
             /\ n % (2 * RuntimeOffset) = n
  <2> DEFINE x == n + RuntimeOffset
             y == 2 * RuntimeOffset
  <2>1. x \in Nat /\ y \in Nat \ {0} /\ x < y /\ n \in Nat /\ n < y
    BY <1>1, WidthAssumption, CapacityAssumption DEF IdsFit
  <2> HIDE DEF x, y
  <2>2. x % y = x /\ n % y = n
    BY <2>1
  <2> QED
    BY <2>2 DEF x, y
<1> QED
  BY <1>1, WidthAssumption, CapacityAssumption
     DEF IdsFit, AllocIds, InvalidId, StaticId, CallbackId, LinkSectionId, LinkSectionMaxId

(* The place an allocator is entered at is the next one.                   *)
LEMMA AddedAtNum ==
    ASSUME IdsFit, TableInv, NEW t \in Threads, pc[t] = "enter"
    PROVE  LocalId(obj[t]) = num
<1>1. num \in 0..MaxRuntime /\ num \in Nat /\ num < MaxRuntime /\ allocId[obj[t]] = num + RuntimeOffset
  BY CapacityAssumption DEF TableInv, TableTypes, Adding, AddSteps
<1>2. num % (2 * RuntimeOffset) = num
  BY <1>1, IdArithmetic
<1>3. allocId[obj[t]] - RuntimeOffset = num
  BY <1>1, WidthAssumption
<1> QED
  BY <1>2, <1>3 DEF LocalId

(* At first no allocator is in the table and nobody is adding one.         *)
LEMMA TableInit ==
    ASSUME IdsFit, Init
    PROVE  TableInv
BY IdArithmetic, WidthAssumption, CapacityAssumption, NoneAssumption
   DEF Init, TableInv, TableTypes, Entered, IdsLead, Adding, AddSteps

(* A step that leaves the table alone and takes an idle thread no further  *)
(* than freeing a message, or back.                                        *)
LEMMA TableKept ==
    ASSUME TableInv, UNCHANGED tableVars, NEW t \in Threads, pc[t] \in {"idle", "free"},
           \/ UNCHANGED <<pc, obj>>
           \/ Goto(t, "idle", None)
           \/ \E m \in Msgs : Goto(t, "free", m)
    PROVE  TableInv'
<1>1. TableTypes'
  BY DEF TableInv, TableTypes, tableVars, Goto, AddSteps
<1>2. Entered'
  BY DEF TableInv, Entered, tableVars
<1>3. ASSUME NEW u \in Threads
      PROVE  Adding(u)'
  <2>1. CASE u = t
    BY <2>1 DEF TableInv, TableTypes, Adding, tableVars, Goto, AddSteps
  <2>2. CASE u # t
    <3>1. pc'[u] = pc[u] /\ obj'[u] = obj[u]
      BY <2>2 DEF TableInv, TableTypes, Goto
    <3> QED
      BY <3>1 DEF TableInv, Adding, tableVars
  <2> QED
    BY <2>1, <2>2
<1>4. ASSUME NEW a \in Runtime PROVE UnderWay(a)' <=> UnderWay(a)
  <2>1. \A u \in Threads \ {t} : pc'[u] = pc[u] /\ obj'[u] = obj[u]
    BY DEF TableInv, TableTypes, Goto
  <2>2. pc[t] \notin AddSteps /\ pc'[t] \notin AddSteps
    BY DEF TableInv, TableTypes, Goto, AddSteps
  <2> QED
    BY <2>1, <2>2 DEF UnderWay
<1>5. IdsLead'
  BY <1>4 DEF TableInv, IdsLead, Leads, tableVars
<1> QED
  BY <1>1, <1>2, <1>3, <1>5 DEF TableInv

(* Every step keeps the table: the thread that owns the mutex fills the    *)
(* next place and then counts it.                                          *)
LEMMA TableNext ==
    ASSUME IdsFit, TableInv, [Next]_vars
    PROVE  TableInv'
<1>1. ASSUME NEW t \in Threads, NEW a \in Runtime, StartAdd(t, a) PROVE TableInv'
  <2>1. TableTypes'
    BY <1>1, IdArithmetic DEF TableInv, TableTypes, StartAdd, LockTable, Goto, AddSteps
  <2>2. Entered'
    BY <1>1 DEF TableInv, Entered, StartAdd
  <2>3. ASSUME NEW u \in Threads PROVE Adding(u)'
    <3>1. CASE u = t
      BY <1>1, <3>1 DEF TableInv, TableTypes, Adding, StartAdd, LockTable, TableRoom, Goto, AddSteps
    <3>2. CASE u # t
      <4>1. pc[u] \notin AddSteps /\ pc'[u] = pc[u]
        BY <1>1, <3>2, NoneAssumption DEF TableInv, TableTypes, Adding, StartAdd, LockTable, Goto
      <4> QED
        BY <4>1 DEF Adding, AddSteps
    <3> QED
      BY <3>1, <3>2
  <2>4. ASSUME NEW b \in Runtime, UnderWay(b) PROVE UnderWay(b)'
    <3>1. PICK u \in Threads : pc[u] \in AddSteps /\ obj[u] = b
      BY <2>4 DEF UnderWay
    <3>2. u # t
      BY <1>1, <3>1 DEF StartAdd, AddSteps
    <3>3. pc'[u] = pc[u] /\ obj'[u] = obj[u]
      BY <1>1, <3>2 DEF StartAdd, Goto, TableInv, TableTypes
    <3> QED
      BY <3>1, <3>3 DEF UnderWay
  <2>5. IdsLead'
    BY <1>1, <2>4 DEF TableInv, IdsLead, Leads, StartAdd
  <2> QED
    BY <2>1, <2>2, <2>3, <2>5 DEF TableInv
<1>2. ASSUME NEW t \in Threads, AssignId(t) \/ EnterTable(t) \/ CountAllocator(t)
      PROVE  TableInv'
  <2>1. /\ pc[t] \in AddSteps /\ mutex = t /\ obj[t] \in Runtime
        /\ num \in 0..(MaxRuntime - 1) /\ num \in Nat
    <3>1. pc[t] \in AddSteps
      BY <1>2 DEF AssignId, EnterTable, CountAllocator, AddSteps
    <3> QED
      BY <3>1, CapacityAssumption DEF TableInv, TableTypes, Adding
  <2>2. \A u \in Threads \ {t} : pc[u] \notin AddSteps
    BY <2>1 DEF TableInv, Adding
  <2>3. ASSUME NEW u \in Threads \ {t}, pc'[u] = pc[u] PROVE Adding(u)'
    BY <2>2, <2>3 DEF Adding, AddSteps
  <2>7. ASSUME NEW b \in Runtime, b # obj[t] PROVE ~UnderWay(b)
    BY <2>2, <2>7 DEF UnderWay
  <2>8. ASSUME pc'[t] \in AddSteps, obj'[t] = obj[t] PROVE UnderWay(obj[t])'
    BY <2>8 DEF UnderWay
  <2>4. CASE AssignId(t)
    <3>1. /\ allocId' = [allocId EXCEPT ![obj[t]] = num + RuntimeOffset]
          /\ num + RuntimeOffset \in AllocIds
      <4>1. /\ (num + RuntimeOffset) % (2 * RuntimeOffset) = num + RuntimeOffset
            /\ num + RuntimeOffset \in AllocIds
        BY <2>1, CapacityAssumption, IdArithmetic
      <4> QED
        BY <2>4, <4>1 DEF AssignId
    <3>2. TableTypes'
      BY <2>1, <2>4, <3>1 DEF TableInv, TableTypes, AssignId, Goto, AddSteps
    <3>3. Entered'
      BY <2>4 DEF TableInv, Entered, AssignId
    <3>4. Adding(t)'
      BY <2>1, <2>4, <3>1 DEF TableInv, TableTypes, Adding, AssignId, Goto, AddSteps
    <3>5. \A u \in Threads \ {t} : pc'[u] = pc[u]
      BY <2>4 DEF TableInv, TableTypes, AssignId, Goto
    <3>6. ASSUME NEW b \in Runtime, allocId'[b] # InvalidId, ~UnderWay(b)' PROVE Leads(b)'
      <4>1. pc'[t] \in AddSteps /\ obj'[t] = obj[t]
        BY <2>4 DEF TableInv, TableTypes, AssignId, Goto, AddSteps
      <4>2. b # obj[t]
        BY <2>8, <3>6, <4>1
      <4>3. allocId'[b] = allocId[b] /\ table' = table /\ num' = num
        BY <2>4, <3>1, <4>2 DEF TableInv, TableTypes, AssignId
      <4> QED
        BY <2>7, <3>6, <4>2, <4>3 DEF TableInv, IdsLead, Leads
    <3> QED
      BY <2>3, <3>2, <3>3, <3>4, <3>5, <3>6 DEF TableInv, IdsLead
  <2>5. CASE EnterTable(t)
    <3>0. table' = [table EXCEPT ![num] = obj[t]]
      <4>1. LocalId(obj[t]) = num
        BY <2>1, <2>5, AddedAtNum DEF EnterTable
      <4> QED
        BY <2>5, <4>1 DEF EnterTable
    <3>1. TableTypes'
      BY <2>1, <2>5, <3>0 DEF TableInv, TableTypes, EnterTable, Goto, AddSteps
    <3>5. num' = num /\ allocId' = allocId /\ \A i \in 0..(num - 1) : table'[i] = table[i]
      BY <2>1, <2>5, <3>0 DEF TableInv, TableTypes, EnterTable
    <3>2. Entered'
      BY <3>5 DEF TableInv, Entered
    <3>3. Adding(t)'
      BY <2>1, <2>5, <3>0, CapacityAssumption
         DEF TableInv, TableTypes, Adding, EnterTable, Goto, AddSteps
    <3>4. \A u \in Threads \ {t} : pc'[u] = pc[u]
      BY <2>5 DEF TableInv, TableTypes, EnterTable, Goto
    <3>6. ASSUME NEW b \in Runtime, allocId'[b] # InvalidId, ~UnderWay(b)' PROVE Leads(b)'
      <4>1. pc'[t] \in AddSteps /\ obj'[t] = obj[t]
        BY <2>5 DEF TableInv, TableTypes, EnterTable, Goto, AddSteps
      <4>2. b # obj[t]
        BY <2>8, <3>6, <4>1
      <4>3. Leads(b)
        BY <2>7, <3>5, <3>6, <4>2 DEF TableInv, IdsLead
      <4> QED
        BY <3>5, <4>3 DEF Leads
    <3> QED
      BY <2>3, <3>1, <3>2, <3>3, <3>4, <3>6 DEF TableInv, IdsLead
  <2>6. CASE CountAllocator(t)
    <3>1. TableTypes'
      BY <2>1, <2>6, CapacityAssumption DEF TableInv, TableTypes, CountAllocator, Goto, AddSteps
    <3>2. table[num] = obj[t] /\ allocId[obj[t]] = num + RuntimeOffset
      BY <2>6 DEF TableInv, Adding, CountAllocator
    <3>7. num' = num + 1 /\ table' = table /\ allocId' = allocId
      BY <2>6 DEF CountAllocator
    <3>5. Entered'
      <4>1. ASSUME NEW i \in 0..num PROVE table[i] \in Runtime
        <5>1. CASE i = num
          BY <2>1, <3>2, <5>1
        <5>2. CASE i # num
          BY <2>1, <5>2 DEF TableInv, Entered
        <5> QED
          BY <5>1, <5>2
      <4> QED
        BY <2>1, <3>7, <4>1 DEF Entered
    <3>3. Adding(t)'
      BY <2>6 DEF TableInv, TableTypes, Adding, CountAllocator, Goto, AddSteps
    <3>4. \A u \in Threads \ {t} : pc'[u] = pc[u]
      BY <2>6 DEF TableInv, TableTypes, CountAllocator, Goto
    <3>6. ASSUME NEW b \in Runtime, allocId'[b] # InvalidId PROVE Leads(b)'
      <4>1. CASE b = obj[t]
        BY <2>1, <3>2, <3>7, <4>1 DEF Leads
      <4>2. CASE b # obj[t]
        <5>1. Leads(b)
          BY <2>7, <3>6, <3>7, <4>2 DEF TableInv, IdsLead
        <5> QED
          BY <2>1, <3>7, <5>1 DEF Leads
      <4> QED
        BY <4>1, <4>2
    <3> QED
      BY <2>3, <3>1, <3>5, <3>3, <3>4, <3>6 DEF TableInv, IdsLead
  <2> QED
    BY <1>2, <2>4, <2>5, <2>6
<1>3. ASSUME NEW t \in Threads, NEW m \in Msgs, NEW h \in Holders, Drop(t, m, h)
      PROVE  TableInv'
  BY <1>3, TableKept DEF Drop
<1>4. ASSUME NEW t \in Threads, Free(t) PROVE TableInv'
  BY <1>4, TableKept DEF Free
<1>5. ASSUME UNCHANGED <<tableVars, pc, obj>> PROVE TableInv'
  BY <1>5 DEF TableInv, TableTypes, Entered, IdsLead, Leads, UnderWay, Adding, tableVars
<1> QED
  BY <1>1, <1>2, <1>3, <1>4, <1>5
     DEF Next, Add, vars, NewMsg, Acquire, UseStatic, UseCallback

-----------------------------------------------------------------------------
(* Messages.                                                               *)

MsgTypes ==
    /\ word \in [Msgs -> Words]
    /\ slab \in [Allocators -> SUBSET Msgs]
    /\ \A a \in Allocators : slab[a] \subseteq OwnBlocks(a)
    /\ ready \subseteq Callbacks
    /\ refs \in [Msgs -> SUBSET Holders]

(* What holds of each message by itself.                                   *)
MsgInv(m) ==
    /\ word[m].ref = Cardinality(refs[m])
    /\ refs[m] # {} \/ Freeing(m) # {} => FindsAllocator(m)
    /\ m \in Blocks \cup Callbacks => Returned(m)

IInv == TableInv /\ MsgTypes /\ \A m \in Msgs : MsgInv(m)

(* The inductive invariant says what the runs check.                       *)
LEMMA IInvImplies ==
    IInv => TypeOK /\ CountExact /\ ReleaseFindsAllocator /\ ReturnedOnce
<1>1. IInv => TypeOK
  BY DEF IInv, TableInv, TableTypes, MsgTypes, TypeOK
<1>2. IInv => CountExact /\ ReleaseFindsAllocator
  BY DEF IInv, MsgInv, CountExact, ReleaseFindsAllocator
<1>3. IInv => ReturnedOnce
  BY DEF IInv, MsgInv, MsgTypes, ReturnedOnce, Msgs
<1> QED
  BY <1>1, <1>2, <1>3

(* Counting holders.                                                       *)
LEMMA Counting ==
    ASSUME NEW R \in SUBSET Holders
    PROVE  /\ Cardinality(R) \in Nat
           /\ Cardinality(R) = 0 <=> R = {}
           /\ \A h \in Holders \ R : Cardinality(R \cup {h}) = Cardinality(R) + 1
           /\ \A h \in R : /\ Cardinality(R \ {h}) = Cardinality(R) - 1
                           /\ Cardinality(R) = 1 <=> R \ {h} = {}
<1>1. IsFiniteSet(R)
  BY HoldersAssumption, FS_Subset
<1>2. Cardinality(R) \in Nat /\ (Cardinality(R) = 0 <=> R = {})
  BY <1>1, FS_CardinalityType, FS_EmptySet
<1>3. ASSUME NEW h \in Holders \ R PROVE Cardinality(R \cup {h}) = Cardinality(R) + 1
  BY <1>1, <1>3, FS_AddElement
<1>4. ASSUME NEW h \in R
      PROVE  /\ Cardinality(R \ {h}) = Cardinality(R) - 1
             /\ Cardinality(R) = 1 <=> R \ {h} = {}
  <2>1. Cardinality(R \ {h}) = Cardinality(R) - 1 /\ IsFiniteSet(R \ {h})
    BY <1>1, <1>4, FS_RemoveElement
  <2>2. Cardinality(R \ {h}) = 0 <=> R \ {h} = {}
    BY <2>1, FS_EmptySet
  <2> QED
    BY <1>2, <2>1, <2>2
<1> QED
  BY <1>2, <1>3, <1>4

(* Within the width of the counter only the counter changes.               *)
LEMMA CountsOnly ==
    ASSUME NEW w \in Words
    PROVE  /\ w.ref < RefMax => Inc(w) = [id |-> w.id, alloc |-> w.alloc, ref |-> w.ref + 1]
           /\ w.ref > 0 => Dec(w) = [id |-> w.id, alloc |-> w.alloc, ref |-> w.ref - 1]
           /\ w.ref < RefMax => Inc(w) \in Words
           /\ w.ref > 0 => Dec(w) \in Words
BY WidthAssumption DEF Words, Inc, Dec

(* pub_sub_new_msg and the static initializers acquire the first reference. *)
LEMMA FirstReference ==
    ASSUME NEW i \in MsgIds, NEW a \in AllocIds
    PROVE  Inc(Word(i, a, 0)) = Word(i, a, 1) /\ Word(i, a, 1) \in Words
BY WidthAssumption DEF Inc, Word, Words

(* A message nothing happens to, while the allocators that are found stay  *)
(* the same.                                                               *)
Untouched(m) ==
    /\ word'[m] = word[m] /\ refs'[m] = refs[m]
    /\ Freeing(m)' = Freeing(m)
    /\ Back(m)' = Back(m)
AllocatorsKept ==
    \A id \in AllocIds :
        FreeingAllocator(id) \in Allocators => FreeingAllocator(id)' = FreeingAllocator(id)

(* What holds of a message that a step does not touch goes on holding.     *)
LEMMA MsgKept ==
    ASSUME NEW m \in Msgs, MsgInv(m), Untouched(m), AllocatorsKept,
           word[m].alloc \in AllocIds
    PROVE  MsgInv(m)'
<1>1. FindsAllocator(m) => FindsAllocator(m)'
  BY KindAssumption DEF FindsAllocator, Untouched, AllocatorsKept
<1>2. Returned(m) => Returned(m)'
  BY DEF Returned, Untouched
<1> QED
  BY <1>1, <1>2 DEF MsgInv, Untouched

(* Adding an allocator changes the way to no other.                        *)
LEMMA AllocatorsStay ==
    ASSUME IdsFit, TableInv, [Next]_vars
    PROVE  AllocatorsKept
<1>1. /\ num' = num \/ num' = num + 1
      /\ \A i \in 0..(num - 1) : table'[i] = table[i]
  <2>1. CASE UNCHANGED <<table, num>>
    BY <2>1
  <2>2. ASSUME NEW t \in Threads, EnterTable(t) PROVE <1>1
    <3>1. num \in 0..MaxRuntime /\ num < MaxRuntime
      BY <2>2 DEF EnterTable, TableInv, TableTypes, Adding, AddSteps
    <3>2. LocalId(obj[t]) = num
      BY <2>2, AddedAtNum DEF EnterTable
    <3> QED
      BY <2>2, <3>1, <3>2, CapacityAssumption DEF EnterTable, TableInv, TableTypes
  <2>3. ASSUME NEW t \in Threads, CountAllocator(t) PROVE <1>1
    BY <2>3 DEF CountAllocator
  <2> QED
    BY <2>1, <2>2, <2>3
       DEF Next, Add, vars, tableVars, StartAdd, AssignId, NewMsg, Acquire, UseStatic,
           UseCallback, Drop, Free
<1>2. ASSUME NEW id \in AllocIds, FreeingAllocator(id) \in Allocators
      PROVE  FreeingAllocator(id)' = FreeingAllocator(id)
  <2>1. CASE id <= LinkSectionMaxId
    BY <2>1 DEF FreeingAllocator
  <2>2. CASE ~(id <= LinkSectionMaxId)
    <3>1. IsRuntime(id)
      BY <1>2, <2>2, NoneAssumption DEF FreeingAllocator
    <3>2. id - RuntimeOffset \in 0..(num - 1) /\ num \in Nat
      BY <3>1, WidthAssumption, CapacityAssumption
         DEF IsRuntime, LinkSectionMaxId, AllocIds, TableInv, TableTypes
    <3>3. IsRuntime(id)'
      BY <1>1, <3>1, <3>2, WidthAssumption DEF IsRuntime, AllocIds
    <3> QED
      BY <1>1, <2>2, <3>1, <3>2, <3>3 DEF FreeingAllocator
  <2> QED
    BY <2>1, <2>2
<1> QED
  BY <1>2 DEF AllocatorsKept

(* The id of a run-time allocator leads to its place in the table.         *)
LEMMA RuntimeFound ==
    ASSUME NEW id, ~(id <= LinkSectionMaxId), IsRuntime(id)
    PROVE  FreeingAllocator(id) = table[id - RuntimeOffset]
BY DEF FreeingAllocator

(* The id pub_sub_new_msg gives a message leads back to the allocator, if  *)
(* the application waits until it has been added.                          *)
LEMMA NewIdFound ==
    ASSUME IdsFit, AddedFirst, TableInv, NEW a \in Allocators, MayAllocate(a), NEW id \in IdsOf(a)
    PROVE  id \in AllocIds /\ FreeingAllocator(id) = a
<1>1. CASE a \in Runtime
  <2>1. PICK i \in 0..(num - 1) : table[i] = a /\ allocId[a] = i + RuntimeOffset
    BY <1>1 DEF MayAllocate, HasId, TableInv, IdsLead, Leads
  <2>2. i \in 0..MaxRuntime /\ i < MaxRuntime /\ i < num /\ i \in Nat
    BY <2>1, CapacityAssumption DEF TableInv, TableTypes
  <2>3. i + RuntimeOffset \in AllocIds /\ i + RuntimeOffset < LinkSectionId
    BY <2>2, IdArithmetic
  <2>4. id = i + RuntimeOffset
    <3>1. allocId[a] # LinkSectionId
      BY <2>1, <2>2, <2>3, WidthAssumption DEF LinkSectionId
    <3> QED
      BY <1>1, <2>1, <3>1 DEF IdsOf
  <2>5. ~(id <= LinkSectionMaxId) /\ IsRuntime(id) /\ id - RuntimeOffset = i
    BY <2>2, <2>4, WidthAssumption DEF LinkSectionMaxId, IsRuntime
  <2>6. FreeingAllocator(id) = table[id - RuntimeOffset]
    BY <2>5, RuntimeFound
  <2> QED
    BY <2>1, <2>3, <2>4, <2>5, <2>6
<1>2. CASE a \notin Runtime
  <2>1. PICK k \in 1..Len(Section) : k = (CHOOSE i \in 1..Len(Section) : Section[i] = a) /\ Section[k] = a
    BY <1>2 DEF Allocators
  <2>2. id = k - 1
    BY <1>2, <2>1 DEF IdsOf, SectionIndex
  <2>3. /\ k \in Nat /\ k >= 1 /\ k <= Len(Section) /\ Len(Section) \in Nat
        /\ Len(Section) <= RuntimeOffset
    BY SectionAssumption
  <2>4. k - 1 \in AllocIds /\ k - 1 <= LinkSectionMaxId /\ k - 1 < Len(Section) /\ k - 1 + 1 = k
    BY <2>3, WidthAssumption DEF AllocIds, LinkSectionMaxId
  <2> QED
    BY <2>1, <2>2, <2>4 DEF FreeingAllocator
<1> QED
  BY <1>1, <1>2

-----------------------------------------------------------------------------
(* The steps that change a message.                                        *)

(* A message that nobody referred to has got its first holder.             *)
LEMMA FirstHolder ==
    ASSUME MsgTypes, NEW m \in Msgs, MsgInv(m), NEW h \in Holders,
           NEW i \in MsgIds, NEW a \in AllocIds,
           word'[m] = Word(i, a, 1), refs'[m] = {h}, Freeing(m) = {}, Freeing(m)' = {},
           FindsAllocator(m)', ~Back(m)' \/ m \in Statics
    PROVE  MsgInv(m)'
<1>1. word'[m].ref = Cardinality(refs'[m])
  <2>1. word'[m].ref = 1
    BY DEF Word
  <2> QED
    BY <2>1, FS_Singleton, Zenon
<1>2. m \in Blocks \cup Callbacks => Returned(m)'
  BY KindAssumption DEF Returned
<1> QED
  BY <1>1, <1>2 DEF MsgInv

(* Allocating takes a block that nobody holds and gives it its first       *)
(* reference.                                                              *)
LEMMA NewMsgKeeps ==
    ASSUME IdsFit, AddedFirst, IInv, AllocatorsKept, NEW t \in Threads, NEW a \in Allocators,
           NEW i \in MsgIds, NEW h \in Holders, NewMsg(t, a, i, h)
    PROVE  MsgTypes' /\ \A m \in Msgs : MsgInv(m)'
<1>1. PICK b \in slab[a], id \in IdsOf(a) :
         /\ slab' = [slab EXCEPT ![a] = @ \ {b}]
         /\ word' = [word EXCEPT ![b] = Inc(Word(i, id, 0))]
         /\ refs' = [refs EXCEPT ![b] = {h}]
  BY DEF NewMsg
<1>2. b \in Blocks /\ Slab[b] = a /\ b \in Msgs
  BY DEF IInv, MsgTypes, OwnBlocks, Msgs
<1>3. id \in AllocIds /\ FreeingAllocator(id) = a
  BY <1>1, NewIdFound DEF IInv, NewMsg
<1>4. word' = [word EXCEPT ![b] = Word(i, id, 1)] /\ Word(i, id, 1) \in Words
  BY <1>1, <1>3, FirstReference
<1>5. MsgTypes'
  BY <1>1, <1>2, <1>4 DEF IInv, MsgTypes, NewMsg, OwnBlocks
<1>6. \A m \in Msgs : Freeing(m)' = Freeing(m)
  BY DEF NewMsg, Freeing
<1>7. MsgInv(b)'
  <2>1. refs[b] = {} /\ Freeing(b) = {}
    BY <1>2 DEF IInv, MsgInv, Returned, Back
  <2>2. FindsAllocator(b)'
    <3>1. word'[b].alloc = id
      BY <1>2, <1>4 DEF IInv, MsgTypes, Word
    <3> QED
      BY <1>2, <1>3, <3>1, KindAssumption DEF FindsAllocator, AllocatorsKept
  <2>3. ~Back(b)'
    BY <1>1, <1>2 DEF IInv, MsgTypes, Back
  <2>4. word'[b] = Word(i, id, 1) /\ refs'[b] = {h}
    BY <1>1, <1>2, <1>4 DEF IInv, MsgTypes
  <2> QED
    BY <1>2, <1>3, <1>6, <2>1, <2>2, <2>3, <2>4, FirstHolder DEF IInv
<1>8. ASSUME NEW m \in Msgs, m # b PROVE MsgInv(m)'
  <2>1. Back(m)' = Back(m)
    BY <1>1, <1>2, <1>8, KindAssumption DEF IInv, MsgTypes, Back, NewMsg
  <2>2. Untouched(m)
    BY <1>1, <1>2, <1>6, <1>8, <2>1 DEF IInv, MsgTypes, Untouched
  <2> QED
    BY <2>2, MsgKept DEF IInv, MsgTypes, Words
<1> QED
  BY <1>5, <1>7, <1>8

(* The owner uses a static or a callback message again.                    *)
LEMMA UseKeeps ==
    ASSUME IdsFit, IInv, AllocatorsKept, NEW m, NEW i \in MsgIds, NEW h \in Holders,
           \/ m \in Statics /\ UseStatic(m, i, h)
           \/ m \in Callbacks /\ UseCallback(m, i, h)
    PROVE  MsgTypes' /\ \A k \in Msgs : MsgInv(k)'
<1> DEFINE a == IF m \in Statics THEN StaticId ELSE CallbackId
<1>1. m \in Msgs /\ m \notin Blocks /\ a \in AllocIds /\ slab' = slab
  BY KindAssumption, IdArithmetic DEF Msgs, UseStatic, UseCallback
<1>2. refs[m] = {} /\ (m \in Callbacks => Freeing(m) = {})
  <2>1. CASE m \in Statics
    BY <1>1, <2>1, Counting, KindAssumption
       DEF UseStatic, UseCallback, Unused, IInv, MsgInv, MsgTypes
  <2>2. CASE m \in Callbacks
    BY <1>1, <2>2, KindAssumption
       DEF UseStatic, UseCallback, CalledBack, IInv, MsgInv, Returned, Back
  <2> QED
    BY <2>1, <2>2
<1>3. /\ word' = [word EXCEPT ![m] = Word(i, a, 1)] /\ Word(i, a, 1) \in Words
      /\ refs' = [refs EXCEPT ![m] = {h}]
  <2>1. Inc(Word(i, a, 0)) = Word(i, a, 1) /\ Word(i, a, 1) \in Words
    BY <1>1, FirstReference
  <2>2. word' = [word EXCEPT ![m] = Inc(Word(i, a, 0))]
    BY KindAssumption DEF UseStatic, UseCallback
  <2>3. refs' = [refs EXCEPT ![m] = refs[m] \cup {h}]
    BY <1>1 DEF UseStatic, UseCallback, IInv, MsgTypes
  <2> QED
    BY <1>2, <2>1, <2>2, <2>3
<1> HIDE DEF a
<1>4. MsgTypes'
  BY <1>1, <1>3 DEF IInv, MsgTypes, UseStatic, UseCallback, OwnBlocks
<1>5. \A k \in Msgs : Freeing(k)' = Freeing(k)
  BY DEF UseStatic, UseCallback, Freeing
<1>6. MsgInv(m)'
  <2>1. word'[m] = Word(i, a, 1) /\ refs'[m] = {h} /\ word'[m].alloc = a /\ word'[m].ref = 1
    BY <1>1, <1>3 DEF IInv, MsgTypes, Word
  <2>2. FindsAllocator(m)'
    BY <1>1, <2>1, KindAssumption DEF FindsAllocator, a
  <2>3. word'[m].ref = Cardinality(refs'[m])
    BY <2>1, FS_Singleton
  <2>4. m \in Callbacks => Returned(m)'
    <3>1. m \in Callbacks => m \notin ready'
      BY KindAssumption DEF UseStatic, UseCallback
    <3> QED
      BY <1>1, <1>2, <1>5, <2>1, <3>1 DEF Returned, Back
  <2> QED
    BY <1>1, <2>2, <2>3, <2>4 DEF MsgInv
<1>7. ASSUME NEW k \in Msgs, k # m PROVE MsgInv(k)'
  <2>1. Back(k)' = Back(k)
    BY <1>1, <1>7 DEF UseStatic, UseCallback, Back
  <2>2. Untouched(k)
    BY <1>3, <1>5, <1>7, <2>1 DEF IInv, MsgTypes, Untouched
  <2> QED
    BY <2>2, MsgKept DEF IInv, MsgTypes, Words
<1> QED
  BY <1>4, <1>6, <1>7

(* A message with a holder missing has room in its counter.                *)
LEMMA RoomToCount ==
    ASSUME HoldersFit, NEW R \in SUBSET Holders, NEW h \in Holders \ R
    PROVE  Cardinality(R) < RefMax
<1>1. Cardinality(R \cup {h}) = Cardinality(R) + 1 /\ Cardinality(R) \in Nat
  BY Counting
<1>2. Cardinality(R \cup {h}) <= Cardinality(Holders) /\ Cardinality(Holders) \in Nat
  BY HoldersAssumption, FS_Subset, FS_CardinalityType
<1> QED
  BY <1>1, <1>2, WidthAssumption DEF HoldersFit

(* Acquiring adds a holder and 1 to the counter, which has room.           *)
LEMMA AcquireKeeps ==
    ASSUME HoldersFit, IInv, AllocatorsKept, NEW m \in Msgs, NEW h \in Holders, Acquire(m, h)
    PROVE  MsgTypes' /\ \A k \in Msgs : MsgInv(k)'
<1>1. word[m] \in Words /\ word[m].ref < RefMax /\ refs[m] # {} /\ h \in Holders \ refs[m]
      /\ refs[m] \in SUBSET Holders /\ FindsAllocator(m)
  <2>1. word[m] \in Words /\ refs[m] # {} /\ h \in Holders \ refs[m]
        /\ refs[m] \in SUBSET Holders /\ FindsAllocator(m) /\ word[m].ref = Cardinality(refs[m])
    BY DEF IInv, MsgTypes, MsgInv, Acquire
  <2> QED
    BY <2>1, RoomToCount
<1> DEFINE w == [id |-> word[m].id, alloc |-> word[m].alloc, ref |-> word[m].ref + 1]
<1>2. /\ word' = [word EXCEPT ![m] = w]
      /\ word'[m] \in Words
      /\ word'[m].ref = word[m].ref + 1 /\ word'[m].alloc = word[m].alloc
  <2>1. Inc(word[m]) = w /\ w \in Words
    BY <1>1, CountsOnly
  <2>2. word' = [word EXCEPT ![m] = w]
    BY <2>1 DEF Acquire
  <2>3. word'[m] = w
    BY <2>2 DEF IInv, MsgTypes
  <2> QED
    BY <2>1, <2>2, <2>3
<1>3. refs' = [refs EXCEPT ![m] = refs[m] \cup {h}]
  BY DEF Acquire, IInv, MsgTypes
<1>4. MsgTypes'
  BY <1>1, <1>2, <1>3 DEF IInv, MsgTypes, Acquire, OwnBlocks
<1>5. \A k \in Msgs : Freeing(k)' = Freeing(k) /\ Back(k)' = Back(k)
  BY DEF Acquire, Freeing, Back
<1>6. MsgInv(m)'
  <2>1. word'[m].ref = Cardinality(refs'[m])
    <3>1. word[m].ref = Cardinality(refs[m])
      BY DEF IInv, MsgInv
    <3>2. Cardinality(refs[m] \cup {h}) = Cardinality(refs[m]) + 1
      BY <1>1, Counting
    <3>3. refs'[m] = refs[m] \cup {h}
      BY <1>3 DEF IInv, MsgTypes
    <3> QED
      BY <1>2, <3>1, <3>2, <3>3
  <2>2. FindsAllocator(m)'
    BY <1>1, <1>2, KindAssumption DEF FindsAllocator, AllocatorsKept, Words
  <2>3. m \in Blocks \cup Callbacks => Returned(m)'
    BY <1>1, <1>3, <1>5 DEF IInv, MsgTypes, MsgInv, Returned
  <2> QED
    BY <2>1, <2>2, <2>3 DEF MsgInv
<1>7. ASSUME NEW k \in Msgs, k # m PROVE MsgInv(k)'
  <2>1. Untouched(k)
    BY <1>2, <1>3, <1>5, <1>7 DEF IInv, MsgTypes, Untouched
  <2> QED
    BY <2>1, MsgKept DEF IInv, MsgTypes, Words
<1> QED
  BY <1>4, <1>6, <1>7

(* Releasing removes a holder and subtracts 1; at 0 the message is in this *)
(* thread's hands only.                                                    *)
LEMMA DropKeeps ==
    ASSUME IInv, AllocatorsKept, NEW t \in Threads, NEW m \in Msgs, NEW h \in Holders,
           Drop(t, m, h)
    PROVE  MsgTypes' /\ \A k \in Msgs : MsgInv(k)'
<1>1. /\ word[m] \in Words /\ refs[m] \in SUBSET Holders /\ h \in refs[m]
      /\ FindsAllocator(m) /\ word[m].ref = Cardinality(refs[m]) /\ word[m].ref > 0
  <2>1. word[m] \in Words /\ refs[m] \in SUBSET Holders /\ h \in refs[m]
        /\ FindsAllocator(m) /\ word[m].ref = Cardinality(refs[m])
    BY DEF IInv, MsgTypes, MsgInv, Drop
  <2> QED
    BY <2>1, Counting
<1> DEFINE w == [id |-> word[m].id, alloc |-> word[m].alloc, ref |-> word[m].ref - 1]
<1>2. /\ word' = [word EXCEPT ![m] = w]
      /\ word'[m] \in Words
      /\ word'[m].ref = word[m].ref - 1 /\ word'[m].alloc = word[m].alloc
  <2>1. Dec(word[m]) = w /\ w \in Words
    BY <1>1, CountsOnly
  <2>2. word' = [word EXCEPT ![m] = w]
    BY <2>1 DEF Drop
  <2>3. word'[m] = w
    BY <2>2 DEF IInv, MsgTypes
  <2> QED
    BY <2>1, <2>2, <2>3
<1>3. refs' = [refs EXCEPT ![m] = refs[m] \ {h}] /\ refs'[m] = refs[m] \ {h}
  BY DEF Drop, IInv, MsgTypes
<1>4. MsgTypes'
  BY <1>1, <1>2, <1>3 DEF IInv, MsgTypes, Drop, OwnBlocks
<1>5. Cardinality(refs'[m]) = Cardinality(refs[m]) - 1 /\ (WasLast(m) <=> refs'[m] = {})
  BY <1>1, <1>3, Counting DEF WasLast
<1>6. \A k \in Msgs : Back(k)' = Back(k)
  BY DEF Drop, Back
<1>7. Freeing(m)' = IF WasLast(m) THEN Freeing(m) \cup {t} ELSE Freeing(m)
  BY DEF Drop, Freeing, Goto, IInv, TableInv, TableTypes
<1>8. MsgInv(m)'
  <2>1. word'[m].ref = Cardinality(refs'[m])
    BY <1>1, <1>2, <1>5
  <2>2. FindsAllocator(m)'
    BY <1>1, <1>2, KindAssumption DEF FindsAllocator, AllocatorsKept, Words
  <2>3. m \in Blocks \cup Callbacks => Returned(m)'
    BY <1>1, <1>5, <1>6, <1>7 DEF IInv, MsgInv, Returned
  <2> QED
    BY <2>1, <2>2, <2>3 DEF MsgInv
<1>9. ASSUME NEW k \in Msgs, k # m PROVE MsgInv(k)'
  <2>1. Freeing(k)' = Freeing(k)
    BY <1>9 DEF Drop, Freeing, Goto, IInv, TableInv, TableTypes
  <2>2. Untouched(k)
    BY <1>2, <1>3, <1>6, <1>9, <2>1 DEF IInv, MsgTypes, Untouched
  <2> QED
    BY <2>2, MsgKept DEF IInv, MsgTypes, Words
<1> QED
  BY <1>4, <1>8, <1>9

(* The last holder reads the word, which nobody can have changed, and the  *)
(* message goes back to where it came from.                                *)
LEMMA FreeKeeps ==
    ASSUME IdsFit, IInv, AllocatorsKept, NEW t \in Threads, Free(t)
    PROVE  MsgTypes' /\ \A k \in Msgs : MsgInv(k)'
<1>0. PICK m \in Msgs : m = obj[t]
  BY DEF IInv, TableInv, TableTypes, Free
<1> DEFINE a == FreeingAllocator(word[m].alloc)
<1>1. m \in Msgs /\ t \in Freeing(m) /\ word[m].alloc \in AllocIds /\ FindsAllocator(m)
  BY <1>0 DEF IInv, TableInv, TableTypes, MsgTypes, MsgInv, Free, Freeing, Words
<1>2. m \in Blocks \cup Callbacks => refs[m] = {} /\ Freeing(m) = {t}
  BY <1>1 DEF IInv, MsgInv, Returned
<1>3. \A k \in Msgs : Freeing(k)' = Freeing(k) \ {t}
  BY NoneAssumption DEF Free, Goto, Freeing, IInv, TableInv, TableTypes
<1>4. word' = word /\ refs' = refs
  BY DEF Free
<1>5. /\ m \in Blocks => a = Slab[m] /\ a \in Allocators /\ a # None
      /\ m \in Statics => a = None /\ word[m].alloc # CallbackId
      /\ m \in Callbacks => a = None /\ word[m].alloc = CallbackId
  <2>1. m \in Blocks => a = Slab[m] /\ a \in Allocators /\ a # None
    BY <1>1, KindAssumption, NoneAssumption DEF FindsAllocator
  <2>2. /\ num \in 0..MaxRuntime
        /\ ~IsRuntime(StaticId) /\ ~(StaticId <= LinkSectionMaxId)
        /\ ~IsRuntime(CallbackId) /\ ~(CallbackId <= LinkSectionMaxId)
        /\ StaticId # CallbackId
    BY IdArithmetic, WidthAssumption
       DEF IInv, TableInv, TableTypes, IsRuntime, StaticId, CallbackId, LinkSectionMaxId
  <2>3. FreeingAllocator(StaticId) = None /\ FreeingAllocator(CallbackId) = None
    BY <2>2, Zenon DEF FreeingAllocator
  <2> QED
    BY <1>1, <2>1, <2>2, <2>3 DEF FindsAllocator
<1>6. /\ slab' = IF a = None THEN slab ELSE [slab EXCEPT ![a] = @ \cup {m}]
      /\ ready' = IF a = None /\ word[m].alloc = CallbackId THEN ready \cup {m} ELSE ready
  BY <1>0 DEF Free
<1>7. m \in Blocks \/ m \in Statics \/ m \in Callbacks
  BY <1>1 DEF Msgs
<1> HIDE DEF a
<1>8. MsgTypes'
  <2>1. slab' \in [Allocators -> SUBSET Msgs]
        /\ \A b \in Allocators : slab'[b] \subseteq OwnBlocks(b)
    BY <1>1, <1>5, <1>6, <1>7, KindAssumption DEF IInv, MsgTypes, OwnBlocks
  <2>2. ready' \subseteq Callbacks
    BY <1>5, <1>6, <1>7 DEF IInv, MsgTypes
  <2> QED
    BY <1>4, <2>1, <2>2 DEF IInv, MsgTypes, OwnBlocks
<1>9. MsgInv(m)'
  <2>1. m \in Blocks \cup Callbacks => Back(m)'
    BY <1>5, <1>6, <1>7, KindAssumption DEF IInv, MsgTypes, Back
  <2>2. m \in Blocks \cup Callbacks => Returned(m)'
    BY <1>1, <1>2, <1>3, <1>4, <2>1 DEF Returned
  <2>3. FindsAllocator(m)'
    BY <1>1, <1>4, KindAssumption DEF FindsAllocator, AllocatorsKept
  <2> QED
    BY <1>1, <1>4, <2>2, <2>3 DEF IInv, MsgInv
<1>10. ASSUME NEW k \in Msgs, k # m PROVE MsgInv(k)'
  <2>1. Freeing(k)' = Freeing(k)
    BY <1>0, <1>3, <1>10 DEF Freeing
  <2>2. Back(k)' = Back(k)
    BY <1>1, <1>5, <1>6, <1>7, <1>10, KindAssumption DEF IInv, MsgTypes, Back
  <2>3. Untouched(k)
    BY <1>4, <2>1, <2>2 DEF Untouched
  <2> QED
    BY <2>3, MsgKept DEF IInv, MsgTypes, Words
<1> QED
  BY <1>8, <1>9, <1>10

-----------------------------------------------------------------------------
(* The inductive invariant.                                                *)

(* At first every block is in its slab and nobody holds anything.          *)
LEMMA InitIInv ==
    ASSUME IdsFit, Init
    PROVE  IInv
<1>1. TableInv
  BY TableInit
<1>2. MsgTypes
  BY IdArithmetic, WidthAssumption
     DEF Init, MsgTypes, Words, Word, OwnBlocks, Msgs
<1>3. ASSUME NEW m \in Msgs PROVE MsgInv(m)
  <2>1. word[m].ref = 0 /\ refs[m] = {} /\ Freeing(m) = {}
    BY DEF Init, Word, Freeing
  <2>2. m \in Blocks \cup Callbacks => Back(m)
    BY KindAssumption DEF Init, Back
  <2> QED
    BY <2>1, <2>2, FS_EmptySet DEF MsgInv, Returned
<1> QED
  BY <1>1, <1>2, <1>3 DEF IInv

(* The invariant is inductive.                                             *)
LEMMA NextIInv ==
    ASSUME IdsFit, HoldersFit, AddedFirst, IInv, [Next]_vars
    PROVE  IInv'
<1>1. TableInv' /\ AllocatorsKept
  BY TableNext, AllocatorsStay DEF IInv
<1>2. ASSUME word' = word, slab' = slab, ready' = ready, refs' = refs,
             \A m \in Msgs : Freeing(m)' = Freeing(m)
      PROVE  MsgTypes' /\ \A m \in Msgs : MsgInv(m)'
  <2>1. MsgTypes'
    BY <1>2 DEF IInv, MsgTypes, OwnBlocks
  <2>2. ASSUME NEW m \in Msgs PROVE MsgInv(m)'
    <3>1. Untouched(m)
      BY <1>2 DEF Untouched, Back
    <3> QED
      BY <1>1, <3>1, MsgKept DEF IInv, MsgTypes, Words
  <2> QED
    BY <2>1, <2>2
<1>3. ASSUME NEW t \in Threads, Add(t) PROVE MsgTypes' /\ \A m \in Msgs : MsgInv(m)'
  <2>1. \A m \in Msgs : Freeing(m)' = Freeing(m)
    BY <1>3 DEF Add, StartAdd, AssignId, EnterTable, CountAllocator, Goto, Freeing,
                IInv, TableInv, TableTypes
  <2> QED
    BY <1>2, <1>3, <2>1 DEF Add, StartAdd, AssignId, EnterTable, CountAllocator
<1>4. ASSUME UNCHANGED vars PROVE MsgTypes' /\ \A m \in Msgs : MsgInv(m)'
  <2>1. \A m \in Msgs : Freeing(m)' = Freeing(m)
    BY <1>4 DEF vars, Freeing
  <2> QED
    BY <1>2, <1>4, <2>1 DEF vars
<1>5. MsgTypes' /\ \A m \in Msgs : MsgInv(m)'
  <2>1. ASSUME NEW t \in Threads, NEW a \in Allocators, NEW i \in MsgIds, NEW h \in Holders,
               NewMsg(t, a, i, h)
        PROVE  <1>5
    BY <1>1, <2>1, NewMsgKeeps
  <2>2. ASSUME NEW m \in Msgs, NEW h \in Holders, Acquire(m, h) PROVE <1>5
    BY <1>1, <2>2, AcquireKeeps
  <2>3. ASSUME NEW k \in Statics, NEW i \in MsgIds, NEW h \in Holders, UseStatic(k, i, h)
        PROVE  <1>5
    BY <1>1, <2>3, UseKeeps
  <2>4. ASSUME NEW k \in Callbacks, NEW i \in MsgIds, NEW h \in Holders, UseCallback(k, i, h)
        PROVE  <1>5
    BY <1>1, <2>4, UseKeeps
  <2>5. ASSUME NEW t \in Threads, NEW m \in Msgs, NEW h \in Holders, Drop(t, m, h) PROVE <1>5
    BY <1>1, <2>5, DropKeeps
  <2>6. ASSUME NEW t \in Threads, Free(t) PROVE <1>5
    BY <1>1, <2>6, FreeKeeps
  <2> QED
    BY <1>3, <1>4, <2>1, <2>2, <2>3, <2>4, <2>5, <2>6 DEF Next
<1> QED
  BY <1>1, <1>5 DEF IInv

(* So it holds of every reachable state.                                   *)
LEMMA AlwaysIInv ==
    ASSUME IdsFit, HoldersFit, AddedFirst
    PROVE  Spec => []IInv
<1>1. Init => IInv
  BY InitIInv
<1>2. IInv /\ [Next]_vars => IInv'
  BY NextIInv
<1> QED
  BY <1>1, <1>2, PTL DEF Spec

-----------------------------------------------------------------------------
(* The theorems.  Three things the code leaves to its users are named as   *)
(* hypotheses: CONFIG_PUB_SUB_RUNTIME_ALLOCATORS_MAX_NUM stays below the   *)
(* special ids (IdsFit), there is no place for more references than the    *)
(* counter counts (HoldersFit), and nobody allocates from an allocator     *)
(* whose adding is under way (AddedFirst).  Without the first or the last  *)
(* RuntimeIds.cfg and EarlyNewMsg.cfg find ReleaseFindsAllocator and       *)
(* ReturnedOnce violated.                                                  *)

(* Every variable keeps its type: above all, no field of a word overflows  *)
(* into the next and no table index is out of range.                       *)
THEOREM TypeCorrect ==
    ASSUME IdsFit, HoldersFit, AddedFirst
    PROVE  Spec => []TypeOK
BY AlwaysIInv, IInvImplies, PTL

(* The reference counter is exact.                                         *)
THEOREM AlwaysCountExact ==
    ASSUME IdsFit, HoldersFit, AddedFirst
    PROVE  Spec => []CountExact
BY AlwaysIInv, IInvImplies, PTL

(* pub_sub_release_msg finds the allocator a message came from, however    *)
(* many are being added meanwhile.                                         *)
THEOREM AlwaysFindsAllocator ==
    ASSUME IdsFit, HoldersFit, AddedFirst
    PROVE  Spec => []ReleaseFindsAllocator
BY AlwaysIInv, IInvImplies, PTL

(* Every message is returned, once, to where it came from.                 *)
THEOREM AlwaysReturnedOnce ==
    ASSUME IdsFit, HoldersFit, AddedFirst
    PROVE  Spec => []ReturnedOnce
BY AlwaysIInv, IInvImplies, PTL

(* Nothing changes the ids of a message that is referred to.               *)
THEOREM IdentityIsKept ==
    ASSUME IdsFit, HoldersFit, AddedFirst
    PROVE  Spec => IdentityKept
<1>1. ASSUME IInv, [Next]_vars, NEW m \in Msgs, refs[m] # {}
      PROVE  word'[m].id = word[m].id /\ word'[m].alloc = word[m].alloc
  <2>1. /\ word \in [Msgs -> Words] /\ word[m] \in Words
        /\ refs[m] \in SUBSET Holders /\ word[m].ref > 0
    <3>1. word \in [Msgs -> Words] /\ word[m] \in Words
          /\ refs[m] \in SUBSET Holders /\ word[m].ref = Cardinality(refs[m])
      BY <1>1 DEF IInv, MsgTypes, MsgInv
    <3> QED
      BY <1>1, <3>1, Counting
  <2>2. ASSUME NEW t \in Threads, NEW a \in Allocators, NEW i \in MsgIds, NEW h \in Holders,
               NewMsg(t, a, i, h)
        PROVE  word'[m] = word[m]
    <3>1. PICK b \in slab[a], id \in IdsOf(a) : word' = [word EXCEPT ![b] = Inc(Word(i, id, 0))]
      BY <2>2 DEF NewMsg
    <3>2. m # b
      <4>1. b \in Blocks /\ Slab[b] = a
        BY <1>1 DEF IInv, MsgTypes, OwnBlocks
      <4>2. b \in Msgs /\ Back(b)
        BY <4>1 DEF Msgs, Back
      <4> QED
        BY <1>1, <4>1, <4>2 DEF IInv, MsgInv, Returned
    <3> QED
      BY <2>1, <3>1, <3>2
  <2>3. ASSUME NEW k \in Msgs, NEW h \in Holders, Acquire(k, h)
        PROVE  word'[m].id = word[m].id /\ word'[m].alloc = word[m].alloc
    <3>1. k = m => word[m].ref < RefMax
      <4>1. k = m => h \in Holders \ refs[m] /\ word[m].ref = Cardinality(refs[m])
        BY <1>1, <2>3 DEF Acquire, IInv, MsgInv
      <4> QED
        BY <2>1, <4>1, RoomToCount
    <3> QED
      BY <2>1, <2>3, <3>1, CountsOnly DEF Acquire
  <2>4. ASSUME NEW k \in Statics, NEW i \in MsgIds, NEW h \in Holders, UseStatic(k, i, h)
        PROVE  word'[m] = word[m]
    BY <2>1, <2>4 DEF UseStatic, Unused
  <2>5. ASSUME NEW k \in Callbacks, NEW i \in MsgIds, NEW h \in Holders, UseCallback(k, i, h)
        PROVE  word'[m] = word[m]
    <3>1. m # k
      BY <1>1, <2>5, KindAssumption
         DEF UseCallback, CalledBack, IInv, MsgInv, Returned, Back, Msgs
    <3> QED
      BY <2>1, <2>5, <3>1 DEF UseCallback
  <2>6. ASSUME NEW t \in Threads, NEW k \in Msgs, NEW h \in Holders, Drop(t, k, h)
        PROVE  word'[m].id = word[m].id /\ word'[m].alloc = word[m].alloc
    BY <2>1, <2>6, CountsOnly DEF Drop
  <2>7. CASE UNCHANGED word
    BY <2>7
  <2> QED
    BY <1>1, <2>2, <2>3, <2>4, <2>5, <2>6, <2>7
       DEF Next, Add, StartAdd, AssignId, EnterTable, CountAllocator, Free, vars
<1>2. IInv /\ [Next]_vars =>
        \A m \in Msgs : refs[m] # {} =>
            word'[m].id = word[m].id /\ word'[m].alloc = word[m].alloc
  BY <1>1
<1> QED
  BY <1>2, AlwaysIInv, PTL DEF Spec, IdentityKept

(* A place in the table of run-time allocators is final once counted,      *)
(* whoever is added again and whatever is allocated when: why              *)
(* pub_sub_release_msg reads the table without the mutex.                  *)
THEOREM RuntimeIdsAreFinal ==
    ASSUME IdsFit
    PROVE  Spec => RuntimeIdsFinal
<1>1. ASSUME TableInv, [Next]_vars, NEW i \in 0..(num - 1)
      PROVE  i < num' /\ table'[i] = table[i]
  <2>1. num \in 0..MaxRuntime /\ i \in Nat /\ i < num
    BY <1>1, CapacityAssumption DEF TableInv, TableTypes
  <2>2. ASSUME NEW t \in Threads, EnterTable(t) PROVE table'[i] = table[i] /\ num' = num
    <3>1. num < MaxRuntime
      BY <1>1, <2>2 DEF EnterTable, TableInv, TableTypes, Adding, AddSteps
    <3>2. LocalId(obj[t]) = num
      BY <2>2, <1>1, AddedAtNum DEF EnterTable
    <3> QED
      BY <1>1, <2>1, <2>2, <3>2 DEF EnterTable, TableInv, TableTypes
  <2>3. ASSUME NEW t \in Threads, CountAllocator(t) PROVE i < num' /\ table' = table
    BY <2>1, <2>3 DEF CountAllocator
  <2>4. CASE UNCHANGED <<table, num>>
    BY <2>1, <2>4
  <2> QED
    BY <1>1, <2>1, <2>2, <2>3, <2>4
       DEF Next, Add, vars, tableVars, StartAdd, AssignId, NewMsg, Acquire, UseStatic,
           UseCallback, Drop, Free
<1>2. TableInv /\ [Next]_vars => \A i \in 0..(num - 1) : i < num' /\ table'[i] = table[i]
  BY <1>1
<1>3. Init => TableInv
  BY TableInit
<1>4. TableInv /\ [Next]_vars => TableInv'
  BY TableNext
<1> QED
  BY <1>2, <1>3, <1>4, PTL DEF Spec, RuntimeIdsFinal
=============================================================================
