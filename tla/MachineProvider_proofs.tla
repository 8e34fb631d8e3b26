----------------------- MODULE MachineProvider_proofs -----------------------
(***************************************************************************)
(* What MachineProvider promises, for every number of slots, generations,  *)
(* authorities, faults and clients.                                        *)
(***************************************************************************)
EXTENDS MachineProvider, TLAPS

(* Types of the building blocks *)

\* The blank allocation is an allocation.
LEMMA NoAllocType == NoAlloc \in Allocation
  <1>1. (CHOOSE sp \in Specs : TRUE) \in Specs
    BY SpecAssumption, Zenon
  <1>2. 1 \in Gens /\ 0 \in Keys
    BY BoundAssumption DEF Gens, Keys
  <1>. QED
    BY <1>1, <1>2 DEF NoAlloc, Allocation

\* The fixed replies are statuses.
LEMMA ReplyTypes == Unknown \in Status /\ Error \in Status /\ Dead \in Status
  BY DEF Unknown, Error, Dead, Status

\* A freed slot and an absent record have their types.
LEMMA BlankTypes == FreeSlot \in Call /\ NoRecord \in Record
  BY NoAllocType, ReplyTypes, BoundAssumption
  DEF FreeSlot, NoRecord, Call, Record, Ops

\* Answering a call leaves a call, and what it replies is r or nothing.
LEMMA AnsweredType ==
  ASSUME ProviderTypeOK, NEW s \in Slots, NEW r \in Status
  PROVE  /\ Answered(s, r) \in Call
         /\ Answered(s, r).phase \in {"free", "replied"}
         /\ Answered(s, r).reply = Unknown
              \/ (Answered(s, r).reply = r /\ Answered(s, r).alloc = slot[s].alloc)
  <1>1. CASE slot[s].orphan
    BY <1>1, BlankTypes DEF Answered, FreeSlot
  <1>2. CASE ~slot[s].orphan
    <2>1. slot[s] \in Call
      BY DEF ProviderTypeOK
    <2>2. Answered(s, r) = [slot[s] EXCEPT !.phase = "replied", !.handle = 0, !.reply = r]
      BY <1>2 DEF Answered
    <2>3. 0 \in 0 .. MaxGen
      BY BoundAssumption
    <2>4. Answered(s, r) \in Call
      BY <2>1, <2>2, <2>3, Zenon DEF Call
    <2>5. /\ Answered(s, r).phase = "replied"
          /\ Answered(s, r).reply = r
          /\ Answered(s, r).alloc = slot[s].alloc
      BY <2>1, <2>2 DEF Call
    <2>. QED
      BY <2>4, <2>5
  <1>. QED
    BY <1>1, <1>2

\* Docker commands keep containers in their states; only `create' makes one.
LEMMA EffectType ==
  ASSUME NEW phase, NEW c \in ContainerStates
  PROVE  /\ Effect(phase, c) \in ContainerStates
         /\ c = "absent" /\ phase # "create" => Effect(phase, c) = "absent"
  BY DEF Effect, ContainerStates, Up, Down

\* A read-off status is a status, and never a destroyed one.
LEMMA ObservedType ==
  ASSUME NEW c \in ContainerStates
  PROVE  Observed(c) \in Status /\ Observed(c).state # "destroyed"
  BY DEF Observed, Status, ContainerStates, Up

\* The record a call works on is a record.
LEMMA RecordedType ==
  ASSUME ProviderTypeOK, NEW s \in Slots
  PROVE  Recorded(s) \in Record
  <1>1. slot[s] \in Call /\ slot[s].alloc \in Allocation
    BY DEF ProviderTypeOK, Call
  <1>2. slot[s].alloc.gen \in Gens
    BY <1>1 DEF Allocation
  <1>3. ledger[slot[s].alloc.gen] \in Record
    BY <1>2 DEF ProviderTypeOK
  <1>4. MayRecord(slot[s].alloc) \in BOOLEAN
    BY DEF MayRecord
  <1>5. [NoRecord EXCEPT !.known = MayRecord(slot[s].alloc), !.alloc = slot[s].alloc]
          \in Record
    BY <1>1, <1>4, BlankTypes DEF Record
  <1>. QED
    BY <1>3, <1>5 DEF Recorded

-----------------------------------------------------------------------------
(* Type correctness *)

\* A call names a handle of the range the slots have.
LEMMA HandleTypes ==
  ASSUME NEW o \in Ops
  PROVE  Handles(o) \subseteq 0 .. MaxGen
  BY DEF Handles

\* The clients and the clock keep the types.
LEMMA ClientTypes ==
  ASSUME ProviderTypeOK, ClientStep
  PROVE  ProviderTypeOK'
  <1>1. ASSUME NEW s \in Slots, NEW o \in Ops, NEW a \in Allocation,
               NEW h \in 0 .. MaxGen, Submit(s, o, a, h)
        PROVE  ProviderTypeOK'
    <2>1. [phase |-> "queued", op |-> o, alloc |-> a, handle |-> h,
           orphan |-> FALSE, reply |-> Unknown] \in Call
      BY ReplyTypes DEF Call
    <2>. QED
      BY <1>1, <2>1 DEF Submit, ProviderTypeOK
  <1>2. ASSUME NEW s \in Slots, Receive(s)
        PROVE  ProviderTypeOK'
    BY <1>2, BlankTypes DEF Receive, ProviderTypeOK
  <1>3. ASSUME NEW s \in Slots, Orphan(s)
        PROVE  ProviderTypeOK'
    <2>1. [slot[s] EXCEPT !.orphan = TRUE] \in Call
      BY Zenon DEF ProviderTypeOK, Call
    <2>2. slot' \in [Slots -> Call]
      BY <1>3, <2>1, BlankTypes DEF Orphan, ProviderTypeOK
    <2>3. faults' \in 0 .. MaxFaults
      BY <1>3, BoundAssumption DEF Orphan, Spend, ProviderTypeOK
    <2>. QED
      BY <1>3, <2>2, <2>3 DEF Orphan, ProviderTypeOK
  <1>4. ASSUME NEW k \in Keys \ {0}, Expire(k)
        PROVE  ProviderTypeOK'
    BY <1>4 DEF Expire, ProviderTypeOK
  <1>5. ASSUME ClientDown
        PROVE  ProviderTypeOK'
    BY <1>5, BoundAssumption DEF ClientDown, Spend, ProviderTypeOK
  <1>. QED
    BY <1>1, <1>2, <1>3, <1>4, <1>5, HandleTypes DEF ClientStep

\* Moving a call to another stage keeps the types of the slots.
LEMMA GotoTypes ==
  ASSUME ProviderTypeOK, NEW s \in Slots, NEW phase \in Stages, Goto(s, phase)
  PROVE  slot' \in [Slots -> Call] /\ plock' = plock
  <1>1. [slot[s] EXCEPT !.phase = phase] \in Call
    BY Zenon DEF ProviderTypeOK, Call
  <1>. QED
    BY <1>1 DEF Goto, ProviderTypeOK

\* Ending a call keeps the types of the slots and frees the lock.
LEMMA FinishTypes ==
  ASSUME ProviderTypeOK, NEW s \in Slots, NEW r \in Status, Finish(s, r)
  PROVE  slot' \in [Slots -> Call] /\ plock' = NoSlot
  BY AnsweredType DEF Finish, ProviderTypeOK

\* The generation a call names is a generation.
LEMMA CallGen ==
  ASSUME ProviderTypeOK, NEW s \in Slots
  PROVE  slot[s].alloc \in Allocation /\ slot[s].alloc.gen \in Gens
  BY DEF ProviderTypeOK, Call, Allocation

\* Running a call's docker command keeps the containers in their states.
LEMMA CommandTypes ==
  ASSUME ProviderTypeOK, NEW s \in Slots, RunCommand(s, slot[s].alloc.gen)
  PROVE  container' \in [Gens -> ContainerStates]
  BY CallGen, EffectType DEF RunCommand, ProviderTypeOK

\* Each step of an operation keeps the types.
LEMMA OperationTypes ==
  ASSUME ProviderTypeOK, NEW s \in Slots, Operation(s)
  PROVE  ProviderTypeOK'
  <1>. DEFINE g == slot[s].alloc.gen
  <1>1. g \in Gens /\ ledger[g] \in Record
    BY CallGen DEF ProviderTypeOK
  <1>2. CASE AdmitReject(s)
    BY <1>2, AnsweredType, ReplyTypes DEF AdmitReject, ProviderTypeOK
  <1>3. CASE AdmitTombstone(s)
    BY <1>3, AnsweredType, ReplyTypes DEF AdmitTombstone, ProviderTypeOK
  <1>4. CASE AdmitRun(s)
    <2>1. [Recorded(s) EXCEPT !.destroying = @ \/ slot[s].op = "destroy"] \in Record
      BY RecordedType, Zenon DEF Record
    <2>2. slot[s].op \in Ops
      BY DEF ProviderTypeOK, Call
    <2>3. FirstStage(slot[s].op, Recorded(s).created) \in Stages
      BY <2>2 DEF FirstStage, Stages, Ops
    <2>4. 0 \in 0 .. MaxGen
      BY BoundAssumption
    <2>5. [slot[s] EXCEPT !.phase = FirstStage(slot[s].op, Recorded(s).created),
                          !.handle = 0] \in Call
      BY <2>3, <2>4, Zenon DEF ProviderTypeOK, Call
    <2>6. slot' \in [Slots -> Call]
      BY <1>4, <2>5 DEF AdmitRun, ProviderTypeOK
    <2>7. ledger' \in [Gens -> Record]
      BY <1>1, <1>4, <2>1 DEF AdmitRun, ProviderTypeOK
    <2>. QED
      BY <1>4, <2>6, <2>7 DEF AdmitRun, ProviderTypeOK
  <1>5. CASE Probe(s)
    BY <1>5, GotoTypes, FinishTypes, ReplyTypes DEF Probe, ProviderTypeOK, Stages
  <1>6. CASE Create(s)
    BY <1>6, GotoTypes, CommandTypes DEF Create, ProviderTypeOK, Stages
  <1>7. CASE MarkCreated(s)
    <2>1. [ledger[g] EXCEPT !.created = TRUE] \in Record
      BY <1>1, Zenon DEF Record
    <2>2. ledger' \in [Gens -> Record]
      BY <1>1, <1>7, <2>1 DEF MarkCreated, ProviderTypeOK
    <2>. QED
      BY <1>7, <2>2, GotoTypes DEF MarkCreated, ProviderTypeOK, Stages
  <1>8. CASE Missing(s)
    BY <1>8, FinishTypes, ReplyTypes DEF Missing, ProviderTypeOK
  <1>9. CASE SwitchPower(s)
    BY <1>9, GotoTypes, CommandTypes DEF SwitchPower, ProviderTypeOK, Stages
  <1>10. CASE Look(s)
    BY <1>1, <1>10, FinishTypes, ObservedType DEF Look, ProviderTypeOK
  <1>11. CASE Clear(s)
    BY <1>11, GotoTypes, CommandTypes DEF Clear, ProviderTypeOK, Stages
  <1>12. CASE Remove(s)
    BY <1>12, GotoTypes, FinishTypes, ReplyTypes, CommandTypes
    DEF Remove, ProviderTypeOK, Stages
  <1>13. CASE Tomb(s)
    <2>1. [ledger[g] EXCEPT !.destroyed = TRUE] \in Record
      BY <1>1, Zenon DEF Record
    <2>2. ledger' \in [Gens -> Record]
      BY <1>1, <1>13, <2>1 DEF Tomb, ProviderTypeOK
    <2>3. faults' \in 0 .. MaxFaults
      BY <1>13, BoundAssumption DEF Tomb, Spend, ProviderTypeOK
    <2>4. slot' \in [Slots -> Call] /\ plock' = NoSlot
      BY <1>13, FinishTypes, ReplyTypes DEF Tomb
    <2>. QED
      BY <1>13, <2>2, <2>3, <2>4 DEF Tomb, ProviderTypeOK
  <1>. QED
    BY <1>2, <1>3, <1>4, <1>5, <1>6, <1>7, <1>8, <1>9, <1>10, <1>11, <1>12,
       <1>13 DEF Operation

\* Failures, late commands and the containers' own moves keep the types.
LEMMA ProviderStepTypes ==
  ASSUME ProviderTypeOK, ProviderStep
  PROVE  ProviderTypeOK'
  <1>1. ASSUME NEW s \in Slots, Fail(s)
        PROVE  ProviderTypeOK'
    <2>1. slot' \in [Slots -> Call]
      BY <1>1, AnsweredType, ReplyTypes DEF Fail, ProviderTypeOK
    <2>2. container' \in [Gens -> ContainerStates]
      BY <1>1, CommandTypes DEF Fail, ProviderTypeOK
    <2>4. faults' \in 1 .. MaxFaults
      BY <1>1, BoundAssumption DEF Fail, Spend, ProviderTypeOK
    <2>3. late' \subseteq Late \X Gens \X (1 .. MaxFaults)
      BY <1>1, <2>4, CallGen DEF Fail, ProviderTypeOK
    <2>. QED
      BY <1>1, <2>1, <2>2, <2>3, <2>4 DEF Fail, ProviderTypeOK
  <1>2. ASSUME NEW c \in late, LateLand(c)
        PROVE  ProviderTypeOK'
    BY <1>2, EffectType DEF LateLand, ProviderTypeOK
  <1>3. ASSUME NEW g \in Gens, WorkerHealth(g) \/ WorkerExit(g)
        PROVE  ProviderTypeOK'
    BY <1>3, BoundAssumption
    DEF WorkerHealth, WorkerExit, Spend, ProviderTypeOK, ContainerStates, Up
  <1>4. ASSUME NEW g \in Gens, ContainerLost(g)
        PROVE  ProviderTypeOK'
    BY <1>4, BoundAssumption
    DEF ContainerLost, Spend, ProviderTypeOK, ContainerStates
  <1>. QED
    BY <1>1, <1>2, <1>3, <1>4, OperationTypes DEF ProviderStep

-----------------------------------------------------------------------------
(* The inductive invariant *)

\* The parts of the invariant that say what the slots and the ledger share.
SlotParts == LockHeldByWorker /\ WorkerRecorded /\ DestroyedReplied
LedgerParts == ContainerRecorded /\ GenerationOrder

\* Initially nothing is recorded, nothing exists and nobody works.
LEMMA InitInv == ProviderInit => ProviderInv
  <1>. SUFFICES ASSUME ProviderInit PROVE ProviderInv
    OBVIOUS
  <1>1. ProviderTypeOK
    BY BlankTypes, BoundAssumption
    DEF ProviderInit, ProviderTypeOK, ContainerStates
  <1>2. LockHeldByWorker /\ WorkerRecorded /\ DestroyedReplied
    BY SlotAssumption
    DEF ProviderInit, LockHeldByWorker, WorkerRecorded, DestroyedReplied, FreeSlot,
        Stages, Unknown
  <1>3. ContainerRecorded /\ GenerationOrder
    BY DEF ProviderInit, ContainerRecorded, GenerationOrder, NoRecord
  <1>. QED
    BY <1>1, <1>2, <1>3 DEF ProviderInv

\* A step that ends call s, or leaves it in the queue, and does not touch the
\* ledger keeps the slots' part, provided a `destroyed' reply is founded.
LEMMA EndCall ==
  ASSUME ProviderInv, NEW s \in Slots, NEW c \in Call,
         slot' = [slot EXCEPT ![s] = c], c.phase \notin Stages,
         c.reply.state = "destroyed" => ledger[c.alloc.gen].destroyed,
         plock' = (IF plock = s THEN NoSlot ELSE plock),
         ledger' = ledger
  PROVE  SlotParts'
  <1>1. LockHeldByWorker'
    BY SlotAssumption DEF LockHeldByWorker, ProviderInv, ProviderTypeOK
  <1>2. WorkerRecorded'
    BY DEF WorkerRecorded, ProviderInv, ProviderTypeOK
  <1>3. DestroyedReplied'
    BY DEF DestroyedReplied, ProviderInv, ProviderTypeOK
  <1>. QED
    BY <1>1, <1>2, <1>3 DEF SlotParts

\* The same for a call that is answered with r.
LEMMA AnswerCall ==
  ASSUME ProviderInv, NEW s \in Slots, NEW r \in Status,
         slot' = [slot EXCEPT ![s] = Answered(s, r)],
         r.state = "destroyed" => ledger[slot[s].alloc.gen].destroyed,
         plock' = (IF plock = s THEN NoSlot ELSE plock),
         ledger' = ledger
  PROVE  SlotParts'
  <1>1. /\ Answered(s, r) \in Call
        /\ Answered(s, r).phase \notin Stages
        /\ Answered(s, r).reply = Unknown
              \/ (Answered(s, r).reply = r /\ Answered(s, r).alloc = slot[s].alloc)
    BY AnsweredType DEF ProviderInv, Stages
  <1>2. Answered(s, r).reply.state = "destroyed"
          => ledger[Answered(s, r).alloc.gen].destroyed
    BY <1>1 DEF Unknown
  <1>. QED
    BY <1>1, <1>2, EndCall

\* A call that moves on within its operation keeps the slots' part.
LEMMA MoveOn ==
  ASSUME ProviderInv, NEW s \in Slots, NEW phase \in Stages,
         slot[s].phase \in Stages, Goto(s, phase),
         phase \in DestroyStages <=> slot[s].phase \in DestroyStages,
         ledger' = ledger
  PROVE  SlotParts'
  <1>1. slot[s] \in Call
    BY DEF ProviderInv, ProviderTypeOK
  <1>2. /\ slot'[s].phase = phase
        /\ slot'[s].alloc = slot[s].alloc
        /\ slot'[s].reply = slot[s].reply
        /\ \A t \in Slots : t # s => slot'[t] = slot[t]
    BY <1>1 DEF Goto, ProviderInv, ProviderTypeOK, Call
  <1>3. LockHeldByWorker'
    BY <1>2 DEF Goto, LockHeldByWorker, ProviderInv
  <1>4. WorkerRecorded'
    BY <1>2 DEF WorkerRecorded, ProviderInv
  <1>5. DestroyedReplied'
    BY <1>2 DEF DestroyedReplied, ProviderInv
  <1>. QED
    BY <1>3, <1>4, <1>5 DEF SlotParts

\* A docker command other than `create' keeps the ledger's part: no container
\* comes into being by it.
LEMMA NoNewContainer ==
  ASSUME ProviderInv, ledger' = ledger, late' \subseteq late, stray' = stray,
         \A g \in Gens : container[g] = "absent" => container'[g] = "absent"
  PROVE  LedgerParts'
  BY DEF LedgerParts, ContainerRecorded, GenerationOrder, ProviderInv

\* Nor by the command of a call whose record is known and not destroyed.
LEMMA WorkerCommand ==
  ASSUME ProviderInv, NEW s \in Slots, slot[s].phase \in Stages,
         RunCommand(s, slot[s].alloc.gen), ledger' = ledger,
         late' = late, stray' = stray
  PROVE  LedgerParts'
  <1>1. ledger[slot[s].alloc.gen].known /\ ~ledger[slot[s].alloc.gen].destroyed
    BY DEF ProviderInv, WorkerRecorded
  <1>2. \A g \in Gens : g # slot[s].alloc.gen => container'[g] = container[g]
    BY DEF RunCommand, ProviderInv, ProviderTypeOK
  <1>. QED
    BY <1>1, <1>2 DEF LedgerParts, ContainerRecorded, GenerationOrder, ProviderInv

\* Admitting a call: the one step that adds a record or starts a destroy.
LEMMA AdmitRunInv ==
  ASSUME ProviderInv, NEW s \in Slots, AdmitRun(s)
  PROVE  SlotParts' /\ LedgerParts'
  <1>. DEFINE a == slot[s].alloc
              g == a.gen
              r == [Recorded(s) EXCEPT !.destroying = @ \/ slot[s].op = "destroy"]
              stage == FirstStage(slot[s].op, Recorded(s).created)
  <1>1. ProviderTypeOK /\ slot[s] \in Call /\ a \in Allocation /\ g \in Gens
    BY CallGen DEF ProviderInv, ProviderTypeOK
  <1>2. /\ Recorded(s) \in Record
        /\ Recorded(s).known /\ Recorded(s).alloc = a /\ ~Recorded(s).destroyed
        /\ Recorded(s).destroying => slot[s].op = "destroy"
        /\ plock = NoSlot
    BY <1>1, RecordedType DEF AdmitRun, Accepted, Guarded
  <1>3. /\ r \in Record
        /\ r.known /\ r.alloc = a /\ ~r.destroyed
        /\ r.destroying <=> slot[s].op = "destroy"
    BY <1>2 DEF Record
  <1>4. stage \in Stages /\ (stage \in DestroyStages <=> slot[s].op = "destroy")
    <2>1. slot[s].op \in Ops
      BY <1>1 DEF Call
    <2>. QED
      BY <2>1 DEF FirstStage, Stages, DestroyStages, Ops
  <1>5. /\ ledger' = [ledger EXCEPT ![g] = r] /\ container' = container /\ plock' = s
        /\ late' = late /\ stray' = stray
    BY DEF AdmitRun
  <1>6. /\ slot'[s].phase = stage
        /\ slot'[s].alloc = a
        /\ slot'[s].reply = slot[s].reply
        /\ \A t \in Slots : t # s => slot'[t] = slot[t]
    BY <1>1 DEF AdmitRun, ProviderTypeOK, Call
  <1>7. \A t \in Slots : slot[t].phase \notin Stages
    BY <1>2, SlotAssumption DEF ProviderInv, LockHeldByWorker
  <1>8. LockHeldByWorker'
    BY <1>4, <1>5, <1>6, <1>7 DEF LockHeldByWorker
  <1>9. WorkerRecorded'
    BY <1>1, <1>3, <1>4, <1>5, <1>6, <1>7 DEF WorkerRecorded, ProviderTypeOK
  <1>10. \A x \in Gens : ledger[x].destroyed => ledger'[x].destroyed
    <2>1. ledger[g].destroyed => ledger[g].known
      BY <1>1 DEF ProviderInv, ContainerRecorded
    <2>2. ~ledger[g].destroyed
      BY <1>2, <2>1 DEF Recorded
    <2>. QED
      BY <1>1, <1>5, <2>2 DEF ProviderTypeOK
  <1>11. DestroyedReplied'
    <2>1. \A t \in Slots : slot'[t].alloc = slot[t].alloc /\ slot'[t].reply = slot[t].reply
      BY <1>6
    <2>. QED
      BY <1>1, <1>10, <2>1, CallGen DEF DestroyedReplied, ProviderInv
  <1>12. ContainerRecorded'
    <2>1. ContainerRecorded
      BY DEF ProviderInv
    <2>2. r.destroying => r.known
      BY <1>3
    <2>3. \A x \in Gens : x # g => ledger'[x] = ledger[x]
      BY <1>1, <1>5 DEF ProviderTypeOK
    <2>4. ledger'[g] = r
      BY <1>1, <1>5 DEF ProviderTypeOK
    <2>5. \A x \in Gens : ledger[x].known => ledger'[x].known
      BY <1>3, <2>3, <2>4
    <2>6. \A c \in late' : ledger'[c[2]].known
      BY <1>1, <1>5, <2>1, <2>5 DEF ContainerRecorded, ProviderTypeOK
    <2>7. stray' \subseteq {x \in Gens : ledger'[x].destroyed}
      BY <1>5, <1>10, <2>1 DEF ContainerRecorded
    <2>. QED
      BY <1>3, <1>5, <2>1, <2>2, <2>3, <2>4, <2>5, <2>6, <2>7 DEF ContainerRecorded
  <1>13. GenerationOrder'
    <2>1. CASE ledger[g].known
      <3>1. \A x \in Gens : ledger'[x].known => ledger[x].known
        BY <1>1, <1>5, <2>1 DEF ProviderTypeOK
      <3>. QED
        BY <1>10, <3>1 DEF GenerationOrder, ProviderInv
    <2>2. CASE ~ledger[g].known
      <3>1. MayRecord(a)
        BY <1>1, <1>2, <2>2, BlankTypes DEF Recorded, Record
      <3>2. \A x \in Gens : ledger[x].known => x < g /\ ledger[x].destroyed
        <4>. SUFFICES ASSUME NEW x \in Gens, ledger[x].known
                      PROVE  x < g /\ ledger[x].destroyed
          OBVIOUS
        <4>1. PICK last \in Gens : /\ ledger[last].known /\ ledger[last].destroyed
                                   /\ x <= last /\ g > last
          BY <3>1 DEF MayRecord
        <4>2. x # last => ledger[x].destroyed
          BY <4>1, BoundAssumption DEF GenerationOrder, ProviderInv, Gens
        <4>. QED
          BY <1>1, <4>1, <4>2, BoundAssumption DEF Gens
      <3>3. \A x \in Gens : x # g => ledger'[x] = ledger[x]
        BY <1>1, <1>5 DEF ProviderTypeOK
      <3>. QED
        BY <1>1, <3>2, <3>3, BoundAssumption DEF GenerationOrder, Gens
    <2>. QED
      BY <2>1, <2>2
  <1>. QED
    BY <1>8, <1>9, <1>11, <1>12, <1>13 DEF SlotParts, LedgerParts

\* A worker that changes its record without adding, ending or destroying it
\* (MarkCreated), or destroys it and ends (Tomb), keeps both parts.
LEMMA MarkCreatedInv ==
  ASSUME ProviderInv, NEW s \in Slots, MarkCreated(s)
  PROVE  SlotParts' /\ LedgerParts'
  <1>. DEFINE g == slot[s].alloc.gen
  <1>1. ProviderTypeOK /\ slot[s] \in Call /\ g \in Gens /\ slot[s].phase \in Stages
    BY CallGen DEF ProviderInv, ProviderTypeOK, MarkCreated, Stages
  <1>2. \A x \in Gens : /\ ledger'[x].known = ledger[x].known
                       /\ ledger'[x].alloc = ledger[x].alloc
                       /\ ledger'[x].destroying = ledger[x].destroying
                       /\ ledger'[x].destroyed = ledger[x].destroyed
    <2>1. ledger' = [ledger EXCEPT ![g] = [ledger[g] EXCEPT !.created = TRUE]]
      BY DEF MarkCreated
    <2>2. ledger[g] \in Record
      BY <1>1 DEF ProviderTypeOK
    <2>. QED
      BY <1>1, <2>1, <2>2 DEF ProviderTypeOK, Record
  <1>3. /\ slot'[s].phase = "power"
        /\ slot'[s].alloc = slot[s].alloc
        /\ slot'[s].reply = slot[s].reply
        /\ \A t \in Slots : t # s => slot'[t] = slot[t]
        /\ plock' = plock
    BY <1>1 DEF MarkCreated, Goto, ProviderTypeOK, Call
  <1>4. LockHeldByWorker'
    BY <1>1, <1>3 DEF LockHeldByWorker, ProviderInv, Stages
  <1>5. WorkerRecorded'
    <2>. SUFFICES ASSUME NEW t \in Slots, slot'[t].phase \in Stages
                  PROVE  LET r == ledger'[slot'[t].alloc.gen]
                         IN  /\ r.known /\ ~r.destroyed
                             /\ r.alloc = slot'[t].alloc
                             /\ r.destroying <=> slot'[t].phase \in DestroyStages
      BY DEF WorkerRecorded
    <2>1. slot[t].phase \in Stages /\ slot'[t].alloc = slot[t].alloc
      BY <1>1, <1>3
    <2>2. slot[t].phase \in DestroyStages <=> slot'[t].phase \in DestroyStages
      BY <1>3 DEF DestroyStages, MarkCreated
    <2>. QED
      BY <1>1, <1>2, <2>1, <2>2, CallGen DEF WorkerRecorded, ProviderInv
  <1>6. DestroyedReplied'
    <2>1. \A t \in Slots : slot'[t].alloc = slot[t].alloc /\ slot'[t].reply = slot[t].reply
      BY <1>3
    <2>. QED
      BY <1>1, <1>2, <2>1, CallGen DEF DestroyedReplied, ProviderInv
  <1>7. ContainerRecorded' /\ GenerationOrder'
    <2>1. \A c \in late' : ledger'[c[2]].known
      BY <1>1, <1>2 DEF MarkCreated, ContainerRecorded, ProviderInv, ProviderTypeOK
    <2>2. UNCHANGED <<container, stray, late>>
      BY <1>2 DEF MarkCreated
    <2>3. ContainerRecorded'
      BY <1>2, <2>1, <2>2 DEF ContainerRecorded, ProviderInv
    <2>4. GenerationOrder'
      BY <1>2 DEF GenerationOrder, ProviderInv
    <2>. QED
      BY <2>3, <2>4
  <1>. QED
    BY <1>4, <1>5, <1>6, <1>7 DEF SlotParts, LedgerParts

\* The tombstone is written only over a container that is gone.
LEMMA TombInv ==
  ASSUME ProviderInv, NEW s \in Slots, Tomb(s)
  PROVE  SlotParts' /\ LedgerParts'
  <1>. DEFINE g == slot[s].alloc.gen
  <1>1. ProviderTypeOK /\ slot[s] \in Call /\ g \in Gens /\ slot[s].phase \in Stages
    BY CallGen DEF ProviderInv, ProviderTypeOK, Tomb, Stages
  <1>2. plock = s /\ plock' = NoSlot
    BY <1>1 DEF ProviderInv, LockHeldByWorker, Tomb, Finish
  <1>3. CASE container[g] # "absent"
    <2>1. Finish(s, Error) /\ ledger' = ledger /\ container' = container
      BY <1>3 DEF Tomb
    <2>2. SlotParts'
      BY <1>2, <2>1, AnswerCall, ReplyTypes DEF Finish, Error
    <2>3. late' = late /\ stray' = stray
      BY DEF Tomb
    <2>. QED
      BY <2>1, <2>2, <2>3, NoNewContainer
  <1>4. CASE container[g] = "absent"
    <2>1. ledger' = [ledger EXCEPT ![g] = [ledger[g] EXCEPT !.destroyed = TRUE]]
      BY <1>4 DEF Tomb
    <2>2. ledger[g] \in Record /\ ledger[g].known /\ ledger[g].destroying
      BY <1>1 DEF ProviderTypeOK, ProviderInv, WorkerRecorded, Tomb, DestroyStages
    <2>3. /\ \A x \in Gens : x # g => ledger'[x] = ledger[x]
          /\ ledger'[g].known /\ ledger'[g].destroying /\ ledger'[g].destroyed
      BY <1>1, <2>1, <2>2 DEF ProviderTypeOK, Record
    <2>4. PICK r \in {Dead, Error} : slot' = [slot EXCEPT ![s] = Answered(s, r)]
      BY <1>4 DEF Tomb, Finish
    <2>5. /\ slot'[s] = Answered(s, r)
          /\ Answered(s, r).phase \notin Stages
          /\ \A t \in Slots : t # s => slot'[t] = slot[t]
      BY <1>1, <2>4, AnsweredType, ReplyTypes DEF ProviderTypeOK, Stages
    <2>6. \A t \in Slots : slot'[t].phase \notin Stages
      BY <1>2, <2>5 DEF ProviderInv, LockHeldByWorker
    <2>7. LockHeldByWorker' /\ WorkerRecorded'
      BY <1>2, <2>6, SlotAssumption DEF LockHeldByWorker, WorkerRecorded
    <2>8. DestroyedReplied'
      <3>1. \A t \in Slots : t # s => (slot'[t].reply.state = "destroyed"
                                          => ledger'[slot'[t].alloc.gen].destroyed)
        BY <1>1, <2>3, <2>5, CallGen DEF ProviderInv, DestroyedReplied
      <3>2. slot'[s].reply.state = "destroyed" => ledger'[slot'[s].alloc.gen].destroyed
        <4>1. Answered(s, r).reply = Unknown \/ Answered(s, r).alloc = slot[s].alloc
          BY <1>1, AnsweredType, ReplyTypes
        <4>. QED
          BY <2>3, <2>5, <4>1 DEF Unknown
      <3>. QED
        BY <3>1, <3>2 DEF DestroyedReplied
    <2>9. ContainerRecorded'
      <3>1. container' = container /\ late' = late /\ stray' = stray
        BY DEF Tomb
      <3>2. /\ \A x \in Gens : ledger[x].known => ledger'[x].known
            /\ \A x \in Gens : ledger[x].destroyed => ledger'[x].destroyed
        BY <1>1, <2>3
      <3>3. ASSUME NEW c \in late'
            PROVE  ledger'[c[2]].known
        <4>1. c \in late
          BY <3>1, <3>3
        <4>2. c[2] \in Gens
          BY <1>1, <4>1 DEF ProviderTypeOK
        <4>3. ledger[c[2]].known
          BY <1>1, <4>1 DEF ContainerRecorded, ProviderInv
        <4>. QED
          BY <3>2, <4>2, <4>3
      <3>4. stray' \subseteq {x \in Gens : ledger'[x].destroyed}
        BY <3>1, <3>2, Zenon DEF ContainerRecorded, ProviderInv
      <3>. QED
        BY <1>1, <1>4, <2>2, <2>3, <3>1, <3>3, <3>4 DEF ContainerRecorded, ProviderInv
    <2>10. GenerationOrder'
      BY <1>1, <2>2, <2>3 DEF GenerationOrder, ProviderInv
    <2>. QED
      BY <2>7, <2>8, <2>9, <2>10 DEF SlotParts, LedgerParts
  <1>. QED
    BY <1>3, <1>4

\* Every step of an operation preserves the invariant.
LEMMA OperationInv ==
  ASSUME ProviderInv, NEW s \in Slots, Operation(s)
  PROVE  ProviderInv'
  <1>. DEFINE g == slot[s].alloc.gen
  <1>1. ProviderTypeOK /\ ProviderTypeOK' /\ g \in Gens
    BY CallGen, OperationTypes DEF ProviderInv
  <1>. SUFFICES SlotParts' /\ LedgerParts'
    BY <1>1 DEF ProviderInv, SlotParts, LedgerParts
  <1>2. slot[s].phase \in Stages => plock = s
    BY DEF ProviderInv, LockHeldByWorker
  <1>3. plock = s => slot[s].phase \in Stages
    BY DEF ProviderInv, LockHeldByWorker
  <1>4. CASE AdmitReject(s)
    BY <1>3, <1>4, AnswerCall, ReplyTypes, NoNewContainer DEF AdmitReject, Error, Stages
  <1>5. CASE AdmitTombstone(s)
    <2>1. ledger[g].destroyed
      BY <1>5 DEF AdmitTombstone, Entombed, Recorded
    <2>. QED
      BY <1>3, <1>5, <2>1, AnswerCall, ReplyTypes, NoNewContainer DEF AdmitTombstone, Stages
  <1>6. CASE AdmitRun(s)
    BY <1>6, AdmitRunInv
  <1>7. CASE Probe(s)
    <2>1. CASE Finish(s, Error)
      BY <1>2, <1>7, <2>1, AnswerCall, ReplyTypes, NoNewContainer
      DEF Probe, Finish, Error, Stages
    <2>2. CASE Goto(s, "create")
      BY <1>7, <2>2, MoveOn, NoNewContainer DEF Probe, Stages, DestroyStages
    <2>. QED
      BY <1>7, <2>1, <2>2 DEF Probe
  <1>8. CASE Create(s)
    BY <1>8, MoveOn, WorkerCommand DEF Create, Stages, DestroyStages
  <1>9. CASE MarkCreated(s)
    BY <1>9, MarkCreatedInv
  <1>10. CASE Missing(s)
    BY <1>2, <1>10, AnswerCall, ReplyTypes, NoNewContainer
    DEF Missing, Finish, Error, Stages
  <1>11. CASE SwitchPower(s)
    BY <1>11, MoveOn, WorkerCommand DEF SwitchPower, Stages, DestroyStages
  <1>12. CASE Look(s)
    <2>1. Observed(container[g]) \in Status /\ Observed(container[g]).state # "destroyed"
      BY <1>1, ObservedType DEF ProviderTypeOK
    <2>. QED
      BY <1>2, <1>12, <2>1, AnswerCall, NoNewContainer DEF Look, Finish, Stages
  <1>13. CASE Clear(s)
    BY <1>13, MoveOn, WorkerCommand DEF Clear, Stages, DestroyStages
  <1>14. CASE Remove(s)
    <2>1. CASE Finish(s, Error)
      BY <1>2, <1>14, <2>1, AnswerCall, ReplyTypes, WorkerCommand
      DEF Remove, Finish, Error, Stages
    <2>2. CASE Goto(s, "tomb")
      BY <1>14, <2>2, MoveOn, WorkerCommand DEF Remove, Stages, DestroyStages
    <2>. QED
      BY <1>14, <2>1, <2>2 DEF Remove
  <1>15. CASE Tomb(s)
    BY <1>15, TombInv
  <1>. QED
    BY <1>4, <1>5, <1>6, <1>7, <1>8, <1>9, <1>10, <1>11, <1>12, <1>13, <1>14,
       <1>15 DEF Operation

\* So do failures, late commands and the containers' own moves.
LEMMA ProviderStepInv ==
  ASSUME ProviderInv, ProviderStep
  PROVE  ProviderInv'
  <1>1. ProviderTypeOK /\ ProviderTypeOK'
    BY ProviderStepTypes DEF ProviderInv
  <1>2. ASSUME SlotParts', LedgerParts'
        PROVE  ProviderInv'
    BY <1>1, <1>2 DEF ProviderInv, SlotParts, LedgerParts
  <1>3. ASSUME NEW s \in Slots, Fail(s)
        PROVE  ProviderInv'
    <2>1. SlotParts'
      BY <1>3, AnswerCall, ReplyTypes DEF Fail, Error
    <2>2. CASE container' = container /\ late' = late
      BY <1>2, <1>3, <2>1, <2>2, NoNewContainer DEF Fail
    <2>4. CASE /\ slot[s].phase \in Late /\ container' = container
               /\ late' = late \cup {<<slot[s].phase, slot[s].alloc.gen, faults'>>}
      <3>1. slot[s].phase \in Stages
        BY <2>4, LateAssumption DEF Commands, Stages
      <3>2. ledger[slot[s].alloc.gen].known
        BY <3>1 DEF ProviderInv, WorkerRecorded
      <3>3. \A c \in late' : ledger'[c[2]].known
        BY <1>3, <2>4, <3>2 DEF Fail, ProviderInv, ContainerRecorded
      <3>4. LedgerParts'
        BY <1>3, <2>4, <3>3
        DEF Fail, LedgerParts, ContainerRecorded, GenerationOrder, ProviderInv
      <3>. QED
        BY <1>2, <2>1, <3>4
    <2>3. CASE /\ slot[s].phase \in Commands /\ RunCommand(s, slot[s].alloc.gen)
               /\ late' = late
      <3>1. slot[s].phase \in Stages
        BY <2>3 DEF Commands, Stages
      <3>. QED
        BY <1>2, <1>3, <2>1, <2>3, <3>1, WorkerCommand DEF Fail
    <2>. QED
      BY <1>3, <2>2, <2>3, <2>4 DEF Fail
  <1>4. ASSUME ledger' = ledger, slot' = slot, plock' = plock, late' = late, stray' = stray,
               \A g \in Gens : container[g] = "absent" => container'[g] = "absent"
        PROVE  ProviderInv'
    <2>1. SlotParts'
      BY <1>4 DEF SlotParts, ProviderInv, LockHeldByWorker, WorkerRecorded, DestroyedReplied
    <2>. QED
      BY <1>2, <1>4, <2>1, NoNewContainer
  <1>5. ASSUME NEW c \in late, LateLand(c)
        PROVE  ProviderInv'
    <2>1. c[2] \in Gens /\ ledger[c[2]].known
      BY <1>1 DEF ProviderTypeOK, ProviderInv, ContainerRecorded
    <2>2. \A g \in Gens : container'[g] # "absent" => container[g] # "absent" \/ g = c[2]
      BY <1>1, <1>5 DEF LateLand, ProviderTypeOK
    <2>3. c[1] # "create" /\ container[c[2]] = "absent" => container'[c[2]] = "absent"
      BY <1>1, <1>5, <2>1, EffectType DEF LateLand, ProviderTypeOK
    <2>4. /\ late' \subseteq late /\ ledger' = ledger /\ slot' = slot /\ plock' = plock
          /\ stray' \subseteq stray \cup {x \in Gens : ledger[x].destroyed}
          /\ stray \subseteq stray'
          /\ c[1] = "create" /\ ledger[c[2]].destroyed => c[2] \in stray'
      BY <1>5, <2>1 DEF LateLand
    <2>5. ContainerRecorded'
      BY <2>1, <2>2, <2>3, <2>4 DEF ContainerRecorded, ProviderInv
    <2>6. SlotParts' /\ GenerationOrder'
      BY <2>4 DEF SlotParts, ProviderInv, LockHeldByWorker, WorkerRecorded, DestroyedReplied,
                  GenerationOrder
    <2>. QED
      BY <1>2, <2>5, <2>6 DEF LedgerParts
  <1>6. ASSUME NEW g \in Gens, WorkerHealth(g) \/ WorkerExit(g) \/ ContainerLost(g)
        PROVE  ProviderInv'
    <2>1. \A h \in Gens : container[h] = "absent" => container'[h] = "absent"
      BY <1>1, <1>6 DEF WorkerHealth, WorkerExit, ContainerLost, ProviderTypeOK, Up
    <2>. QED
      BY <1>4, <1>6, <2>1 DEF WorkerHealth, WorkerExit, ContainerLost
  <1>. QED
    BY <1>3, <1>5, <1>6, OperationInv DEF ProviderStep

\* And so does whatever a client or the clock does.
LEMMA ClientStepInv ==
  ASSUME ProviderInv, ClientStep
  PROVE  ProviderInv'
  <1>1. /\ ProviderTypeOK /\ ProviderTypeOK' /\ ledger' = ledger /\ plock' = plock
        /\ container' = container /\ late' = late /\ stray' = stray
    BY ClientTypes DEF ProviderInv, ClientStep, Submit, Receive, Orphan, Expire, ClientDown
  <1>2. LedgerParts'
    BY <1>1, NoNewContainer
  <1>3. ASSUME NEW s \in Slots, NEW c \in Call, slot[s].phase \notin Stages,
               slot' = [slot EXCEPT ![s] = c], c.phase \notin Stages,
               c.reply = Unknown
        PROVE  SlotParts'
    <2>1. plock # s
      BY <1>3 DEF ProviderInv, LockHeldByWorker
    <2>2. c.reply.state # "destroyed"
      BY <1>3 DEF Unknown
    <2>3. plock' = IF plock = s THEN NoSlot ELSE plock
      BY <1>1, <2>1
    <2>. QED
      BY <1>1, <1>3, <2>2, <2>3, EndCall
  <1>4. ASSUME NEW s \in Slots, NEW o \in Ops, NEW a \in Allocation,
               NEW h \in 0 .. MaxGen, Submit(s, o, a, h)
        PROVE  SlotParts'
    <2>. DEFINE c == [phase |-> "queued", op |-> o, alloc |-> a, handle |-> h,
                      orphan |-> FALSE, reply |-> Unknown]
    <2>1. c \in Call /\ c.phase \notin Stages /\ c.reply = Unknown
      BY ReplyTypes DEF Call, Stages
    <2>2. slot[s].phase \notin Stages /\ slot' = [slot EXCEPT ![s] = c]
      BY <1>4 DEF Submit, Stages
    <2>. QED
      BY <1>3, <2>1, <2>2
  <1>5. ASSUME NEW s \in Slots, Receive(s)
        PROVE  SlotParts'
    BY <1>3, <1>5, BlankTypes DEF Receive, FreeSlot, Stages
  <1>6. ASSUME NEW s \in Slots, Orphan(s)
        PROVE  SlotParts'
    <2>1. CASE slot[s].phase = "replied"
      BY <1>3, <1>6, <2>1, BlankTypes DEF Orphan, FreeSlot, Stages
    <2>2. CASE slot[s].phase # "replied"
      <3>1. slot[s] \in Call
        BY <1>1 DEF ProviderTypeOK
      <3>2. \A t \in Slots : /\ slot'[t].phase = slot[t].phase
                             /\ slot'[t].alloc = slot[t].alloc
                             /\ slot'[t].reply = slot[t].reply
        <4>1. slot' = [slot EXCEPT ![s] = [slot[s] EXCEPT !.orphan = TRUE]]
          BY <1>6, <2>2 DEF Orphan
        <4>. QED
          BY <1>1, <3>1, <4>1 DEF ProviderTypeOK, Call
      <3>3. LockHeldByWorker'
        BY <1>1, <3>2 DEF LockHeldByWorker, ProviderInv
      <3>4. WorkerRecorded' /\ DestroyedReplied'
        BY <1>1, <3>2 DEF WorkerRecorded, DestroyedReplied, ProviderInv
      <3>. QED
        BY <3>3, <3>4 DEF SlotParts
    <2>. QED
      BY <2>1, <2>2
  <1>7. ASSUME slot' = slot
        PROVE  SlotParts'
    BY <1>1, <1>7
    DEF SlotParts, ProviderInv, LockHeldByWorker, WorkerRecorded, DestroyedReplied
  <1>8. SlotParts'
    BY <1>4, <1>5, <1>6, <1>7, HandleTypes DEF ClientStep, Expire, ClientDown
  <1>. QED
    BY <1>1, <1>2, <1>8 DEF ProviderInv, SlotParts, LedgerParts

\* Steps that stutter on the provider's variables preserve the invariant.
LEMMA StutterInv ==
  ASSUME ProviderInv, UNCHANGED providerVars
  PROVE  ProviderInv'
  BY DEF providerVars, ProviderInv, ProviderTypeOK, LockHeldByWorker, ContainerRecorded,
         WorkerRecorded, DestroyedReplied, GenerationOrder

\* The invariant holds of every run of the provider, with any clients.
THEOREM ProviderInvariant == ProviderSpec => []ProviderInv
  <1>1. ProviderInv /\ [ProviderNext]_providerVars => ProviderInv'
    BY ProviderStepInv, ClientStepInv, StutterInv DEF ProviderNext
  <1>. QED
    BY <1>1, InitInv, PTL DEF ProviderSpec

\* The invariant implies that of two containers the older is a stray.
LEMMA InvOneMachine == ProviderInv => OneMachine
  BY BoundAssumption
  DEF ProviderInv, OneMachine, ContainerRecorded, GenerationOrder, Gens

\* Beside the machine of a workspace there are only strays of older generations.
THEOREM OneMachineAlways == ProviderSpec => []OneMachine
  BY ProviderInvariant, InvOneMachine, PTL

\* Recorded generations below another recorded one are destroyed.
THEOREM GenerationOrderAlways == ProviderSpec => []GenerationOrder
  <1>1. ProviderInv => GenerationOrder
    BY DEF ProviderInv
  <1>. QED
    BY <1>1, ProviderInvariant, PTL

\* A reply `destroyed' is only read while the tombstone is durable and the
\* machine gone, but for a stray.
THEOREM DestroyedReplyAlways == ProviderSpec => []DestroyedReplyIsFinal
  <1>1. ProviderInv => DestroyedReplyIsFinal
    BY CallGen
    DEF ProviderInv, DestroyedReplyIsFinal, DestroyedReplied, ContainerRecorded
  <1>. QED
    BY <1>1, ProviderInvariant, PTL

-----------------------------------------------------------------------------
(* What a step may never do *)

\* What a step keeps of every record: its presence, allocation and destruction.
RecordKept(g) ==
    /\ ledger[g].known => ledger'[g].known /\ ledger'[g].alloc = ledger[g].alloc
    /\ ledger[g].destroying => ledger'[g].destroying
    /\ ledger[g].destroyed => ledger'[g].destroyed

\* Only AdmitRun, MarkCreated and Tomb write the ledger, and they keep records.
LEMMA RecordsKept ==
  ASSUME ProviderInv, ProviderNext, NEW g \in Gens
  PROVE  RecordKept(g)
  <1>1. CASE ledger' = ledger
    BY <1>1 DEF RecordKept
  <1>2. ASSUME NEW s \in Slots, AdmitRun(s)
        PROVE  RecordKept(g)
    <2>. DEFINE h == slot[s].alloc.gen
                r == [Recorded(s) EXCEPT !.destroying = @ \/ slot[s].op = "destroy"]
    <2>1. /\ ProviderTypeOK /\ h \in Gens /\ Recorded(s) \in Record
          /\ ledger' = [ledger EXCEPT ![h] = r]
      BY <1>2, CallGen, RecordedType DEF ProviderInv, AdmitRun
    <2>2. CASE g # h
      BY <2>1, <2>2 DEF RecordKept, ProviderTypeOK
    <2>3. CASE g = h
      <3>1. ledger'[g] = r
        BY <2>1, <2>3 DEF ProviderTypeOK
      <3>2. /\ r.known = Recorded(s).known /\ r.alloc = Recorded(s).alloc
            /\ r.destroyed = Recorded(s).destroyed
            /\ Recorded(s).destroying => r.destroying
        BY <2>1 DEF Record
      <3>3. ledger[g].known => Recorded(s) = ledger[g]
        BY <2>3 DEF Recorded
      <3>4. ledger[g].destroyed \/ ledger[g].destroying => ledger[g].known
        BY DEF ProviderInv, ContainerRecorded
      <3>. QED
        BY <3>1, <3>2, <3>3, <3>4 DEF RecordKept
    <2>. QED
      BY <2>2, <2>3
  <1>3. ASSUME NEW s \in Slots, MarkCreated(s) \/ Tomb(s)
        PROVE  RecordKept(g)
    <2>1. slot[s].alloc.gen \in Gens /\ ledger[slot[s].alloc.gen] \in Record
      BY CallGen DEF ProviderInv, ProviderTypeOK
    <2>2. \/ ledger' = ledger
          \/ ledger' = [ledger EXCEPT ![slot[s].alloc.gen] = [@ EXCEPT !.created = TRUE]]
          \/ ledger' = [ledger EXCEPT ![slot[s].alloc.gen] = [@ EXCEPT !.destroyed = TRUE]]
      BY <1>3 DEF MarkCreated, Tomb
    <2>. QED
      BY <2>1, <2>2 DEF RecordKept, ProviderInv, ProviderTypeOK, Record
  <1>4. \/ ledger' = ledger
        \/ \E s \in Slots : AdmitRun(s) \/ MarkCreated(s) \/ Tomb(s)
    BY DEF ProviderNext, ProviderStep, ClientStep, Operation, Submit, Receive, Orphan,
           ClientDown, Expire, AdmitReject, AdmitTombstone, Probe, Create, Missing, SwitchPower,
           Look, Clear, Remove, Fail, LateLand, WorkerHealth, WorkerExit, ContainerLost
  <1>. QED
    BY <1>1, <1>2, <1>3, <1>4

\* Only a `create' at work makes a container, and then no destroy has begun,
\* or one whose CLI has gone.
LEMMA NothingResurrected ==
  ASSUME ProviderInv, ProviderNext, NEW g \in Gens,
         ledger[g].destroying, container[g] = "absent"
  PROVE  \/ container'[g] = "absent"
         \/ \E c \in late \ late' : c[1] = "create" /\ c[2] = g
  <1>. USE DEF ProviderInv
  <1>1. CASE container' = container
    BY <1>1
  <1>2. ASSUME NEW s \in Slots, slot[s].phase \in Stages,
               RunCommand(s, slot[s].alloc.gen)
        PROVE  container'[g] = "absent"
    <2>1. slot[s].alloc.gen \in Gens
      BY CallGen
    <2>2. CASE g # slot[s].alloc.gen
      BY <1>2, <2>1, <2>2 DEF RunCommand, ProviderTypeOK
    <2>3. CASE g = slot[s].alloc.gen
      <3>1. slot[s].phase # "create"
        BY <1>2, <2>3 DEF WorkerRecorded, DestroyStages
      <3>2. container'[g] = Effect(slot[s].phase, container[g])
        BY <1>2, <2>1, <2>3 DEF RunCommand, ProviderTypeOK
      <3>. QED
        BY <3>1, <3>2, EffectType DEF ProviderTypeOK
    <2>. QED
      BY <2>2, <2>3
  <1>3. ASSUME NEW c \in late, LateLand(c)
        PROVE  \/ container'[g] = "absent"
               \/ \E d \in late \ late' : d[1] = "create" /\ d[2] = g
    <2>1. CASE c[1] = "create" /\ c[2] = g
      BY <1>3, <2>1 DEF LateLand
    <2>2. CASE c[1] # "create" \/ c[2] # g
      <3>1. container'[g] = IF c[2] = g THEN Effect(c[1], container[g]) ELSE container[g]
        BY <1>3 DEF LateLand, ProviderTypeOK
      <3>. QED
        BY <2>2, <3>1, EffectType DEF ProviderTypeOK
    <2>. QED
      BY <2>1, <2>2
  <1>4. ASSUME NEW h \in Gens, WorkerHealth(h) \/ WorkerExit(h) \/ ContainerLost(h)
        PROVE  container'[g] = "absent"
    BY <1>4 DEF WorkerHealth, WorkerExit, ContainerLost, ProviderTypeOK, Up
  <1>5. ASSUME NEW s \in Slots, Operation(s) \/ Fail(s)
        PROVE  \/ container' = container
               \/ slot[s].phase \in Stages /\ RunCommand(s, slot[s].alloc.gen)
    BY <1>5
    DEF Operation, AdmitReject, AdmitTombstone, AdmitRun, Probe, Create, MarkCreated,
        Missing, SwitchPower, Look, Clear, Remove, Tomb, Fail, Stages, Commands
  <1>6. ClientStep => container' = container
    BY DEF ClientStep, Submit, Receive, Orphan, Expire, ClientDown
  <1>. QED
    BY <1>1, <1>2, <1>3, <1>4, <1>5, <1>6 DEF ProviderNext, ProviderStep

\* Tombstones, allocations and begun destroys are never taken back.
THEOREM TombstonesAlways == ProviderSpec => TombstonesRetained
  <1>1. ProviderInv /\ [ProviderNext]_providerVars
          => [\A g \in Gens :
                 /\ ledger[g].known => /\ ledger'[g].known
                                       /\ ledger'[g].alloc = ledger[g].alloc
                 /\ ledger[g].destroying => ledger'[g].destroying
                 /\ ledger[g].destroyed => ledger'[g].destroyed]_providerVars
    BY RecordsKept DEF RecordKept
  <1>. QED
    BY <1>1, ProviderInvariant, PTL DEF ProviderSpec, TombstonesRetained

\* No call brings back a machine whose destruction has been committed; docker's
\* own late create is the one step that does.
THEOREM NoResurrectionAlways == ProviderSpec => NoResurrection
  <1>1. ProviderInv /\ [ProviderNext]_providerVars
          => [\A g \in Gens :
                 ledger[g].destroying /\ container[g] = "absent"
                     => \/ container'[g] = "absent"
                        \/ \E c \in late \ late' : c[1] = "create" /\ c[2] = g]_providerVars
    BY NothingResurrected
  <1>. QED
    BY <1>1, ProviderInvariant, PTL DEF ProviderSpec, NoResurrection
=============================================================================
