------------------------- MODULE CloudRuntime_proofs -------------------------
(***************************************************************************)
(* The registry's promises, for every number of coordinators, outstanding  *)
(* calls, generations, authorities, revisions and faults.                  *)
(***************************************************************************)
EXTENDS CloudRuntime, MachineProvider_proofs

(* Building blocks *)

\* The blank binding and the idle operation have their types.
LEMMA RegistryBlanks ==
  /\ NoBinding \in Binding
  /\ Idle \in OpState
  /\ Driving("drive") \in OpState /\ Driving("recover") \in OpState
  /\ Driving("drive").pc = "drive" /\ Driving("recover").pc = "drive"
  <1>1. NoSpec \in Specs
    BY SpecAssumption, Zenon DEF NoSpec
  <1>2. 0 \in Keys /\ 0 \in 0 .. MaxGen
    BY BoundAssumption DEF Keys
  <1>3. NoBinding \in Binding
    BY <1>1, <1>2, ReplyTypes DEF NoBinding, Binding, Intents
  <1>4. Idle \in OpState
    BY <1>1, <1>2 DEF Idle, OpState
  <1>5. /\ Driving("drive") \in OpState /\ Driving("recover") \in OpState
        /\ Driving("drive").pc = "drive" /\ Driving("recover").pc = "drive"
    BY <1>4 DEF Driving, OpState
  <1>. QED
    BY <1>3, <1>4, <1>5

\* Saving writes the next revision and nothing else.
LEMMA SavedType ==
  ASSUME NEW b \in Binding
  PROVE  /\ Saved(b) \in Binding /\ Saved(b).rev = b.rev + 1
         /\ Saved(b).gen = b.gen /\ Saved(b).spec = b.spec /\ Saved(b).key = b.key
         /\ Saved(b).status = b.status /\ Saved(b).pending = b.pending
         /\ Saved(b).err = b.err /\ Saved(b).retired = b.retired
  BY DEF Saved, Binding

\* What an outcome may make of a live record: the allocation stays, the record
\* can be loaded again, a destroy intent goes only with retirement, retirement
\* comes only with a `destroyed' answer to a destroy, and the revision counts.
Advanced(b, c, r) ==
    /\ c \in Binding
    /\ c.gen = b.gen /\ c.spec = b.spec /\ c.key = b.key
    /\ Loadable(c)
    /\ b.pending = "destroy" => c.pending = "destroy" \/ c.retired
    /\ c.retired => r.state = "destroyed"
    /\ c # b => c.rev = b.rev + 1

\* A changed record that is saved advances it.
LEMMA SavedAdvances ==
  ASSUME NEW b \in Binding, NEW c \in Binding, NEW r,
         c.gen = b.gen, c.spec = b.spec, c.key = b.key, c.rev = b.rev, b.gen > 0,
         c.retired <=> c.status.state = "destroyed",
         c.retired => c.pending = "none",
         c.status = Unknown => c.pending = "ensure",
         b.pending = "destroy" => c.pending = "destroy" \/ c.retired,
         c.retired => r.state = "destroyed",
         c = b => b.rev > 0
  PROVE  Advanced(b, SavedIfChanged(c, b), r)
  <1>1. b.rev \in Nat
    BY DEF Binding
  <1>2. CASE c = b
    BY <1>1, <1>2 DEF SavedIfChanged, Advanced, Loadable
  <1>3. CASE c # b
    <2>1. SavedIfChanged(c, b) = Saved(c)
      BY <1>3 DEF SavedIfChanged
    <2>. QED
      BY <1>1, <2>1, SavedType DEF Advanced, Loadable
  <1>. QED
    BY <1>2, <1>3

\* drive's outcome advances a live record.
LEMMA DrivenAdvances ==
  ASSUME NEW b \in Binding, Live(b), NEW r \in Status, r # Unknown
  PROVE  Advanced(b, Driven(b, r), r)
  <1>. DEFINE bad == r = Error \/ (r.state = "destroyed" /\ b.pending # "destroy")
              e == [b EXCEPT !.err = TRUE]
              f == [b EXCEPT !.status = r, !.retired = r.state = "destroyed",
                             !.pending = IF Complete(b.pending, r.state) THEN "none"
                                         ELSE b.pending,
                             !.err = FALSE]
  <1>1. /\ b.gen > 0 /\ b.rev > 0 /\ ~b.retired
        /\ b.status.state # "destroyed"
        /\ b.status = Unknown => b.pending = "ensure"
    BY DEF Live, Loadable, Binding
  <1>2. /\ e \in Binding /\ e.gen = b.gen /\ e.spec = b.spec /\ e.key = b.key
        /\ e.rev = b.rev /\ e.status = b.status /\ e.retired = b.retired
        /\ e.pending = b.pending
    BY DEF Binding
  <1>3. b.pending \in Intents \cup {"none"}
    BY DEF Binding
  <1>4. f \in Binding
    <2>1. (IF Complete(b.pending, r.state) THEN "none" ELSE b.pending)
             \in Intents \cup {"none"}
      BY <1>3
    <2>2. (r.state = "destroyed") \in BOOLEAN
      OBVIOUS
    <2>. QED
      BY <2>1, <2>2 DEF Binding
  <1>5. /\ f.gen = b.gen /\ f.spec = b.spec /\ f.key = b.key
        /\ f.rev = b.rev /\ f.status = r /\ f.retired = (r.state = "destroyed")
        /\ f.pending = IF Complete(b.pending, r.state) THEN "none" ELSE b.pending
    BY DEF Binding
  <1>6. CASE bad
    <2>1. Driven(b, r) = SavedIfChanged(e, b)
      BY <1>6 DEF Driven
    <2>. QED
      BY <1>1, <1>2, <2>1, SavedAdvances
  <1>7. CASE ~bad
    <2>1. Driven(b, r) = SavedIfChanged(f, b)
      BY <1>7 DEF Driven
    <2>2. f.retired => f.pending = "none"
      BY <1>5, <1>7 DEF Complete
    <2>3. b.pending = "destroy" => f.pending = "destroy" \/ f.retired
      BY <1>5 DEF Complete
    <2>4. f.retired <=> f.status.state = "destroyed"
      BY <1>5
    <2>5. f.status # Unknown
      BY <1>5
    <2>6. f.retired => r.state = "destroyed"
      BY <1>5
    <2>7. Advanced(b, SavedIfChanged(f, b), r)
      BY <1>1, <1>4, <1>5, <2>2, <2>3, <2>4, <2>5, <2>6, SavedAdvances
    <2>. QED
      BY <2>1, <2>7
  <1>. QED
    BY <1>6, <1>7

\* So does recovery's, which never retires.
LEMMA RecoveredAdvances ==
  ASSUME NEW b \in Binding, Live(b), NEW r \in Status, r # Unknown
  PROVE  Advanced(b, Recovered(b, r), r)
  <1>. DEFINE f == [b EXCEPT !.status = r]
  <1>1. /\ b.gen > 0 /\ b.rev > 0 /\ ~b.retired /\ Loadable(b)
    BY DEF Live, Loadable
  <1>2. /\ f \in Binding /\ f.gen = b.gen /\ f.spec = b.spec /\ f.key = b.key
        /\ f.rev = b.rev /\ f.status = r /\ f.retired = b.retired
        /\ f.pending = b.pending
    BY DEF Binding
  <1>3. CASE r = Error \/ r.state = "destroyed"
    BY <1>1, <1>3 DEF Recovered, Advanced
  <1>4. CASE ~(r = Error \/ r.state = "destroyed")
    <2>1. Recovered(b, r) = SavedIfChanged(f, b)
      BY <1>4 DEF Recovered
    <2>. QED
      BY <1>1, <1>2, <1>4, <2>1, SavedAdvances
  <1>. QED
    BY <1>3, <1>4

-----------------------------------------------------------------------------
(* What the provider's steps leave of the calls and add to the ledger *)

\* A call keeps its operation, allocation and client, is never queued again,
\* and disappears only when its client has gone.
CallKept(t) ==
    \/ slot[t].orphan /\ slot'[t] = FreeSlot
    \/ /\ slot'[t].op = slot[t].op
       /\ slot'[t].alloc = slot[t].alloc
       /\ slot'[t].orphan = slot[t].orphan
       /\ slot'[t].phase = "free" <=> slot[t].phase = "free"
       /\ slot'[t].phase = "queued" => slot[t].phase = "queued"
       /\ \/ slot'[t].phase # "replied"
          \/ slot'[t] = slot[t]
          \/ slot'[t].reply # Unknown

\* A step of the provider that answers a call keeps it.
LEMMA AnsweredKept ==
  ASSUME ProviderTypeOK, NEW s \in Slots, NEW r \in Status, r # Unknown,
         slot[s].phase # "free", slot' = [slot EXCEPT ![s] = Answered(s, r)],
         NEW t \in Slots
  PROVE  CallKept(t)
  <1>1. CASE t # s
    BY <1>1 DEF CallKept, ProviderTypeOK
  <1>2. CASE t = s
    <2>1. slot'[s] = Answered(s, r) /\ slot[s] \in Call
      BY DEF ProviderTypeOK
    <2>2. CASE slot[s].orphan
      BY <1>2, <2>1, <2>2 DEF CallKept, Answered
    <2>3. CASE ~slot[s].orphan
      BY <1>2, <2>1, <2>3 DEF CallKept, Answered, Call
    <2>. QED
      BY <2>2, <2>3
  <1>. QED
    BY <1>1, <1>2

\* A step of the provider that moves a call to another stage keeps it.
LEMMA MovedKept ==
  ASSUME ProviderTypeOK, NEW s \in Slots, NEW phase \in Stages,
         slot[s].phase # "free", NEW h,
         \/ slot' = [slot EXCEPT ![s].phase = phase]
         \/ slot' = [slot EXCEPT ![s].phase = phase, ![s].handle = h],
         NEW t \in Slots
  PROVE  CallKept(t)
  <1>1. slot[s] \in Call
    BY DEF ProviderTypeOK
  <1>2. phase \notin {"free", "queued", "replied"}
    BY DEF Stages
  <1>. QED
    BY <1>1, <1>2 DEF CallKept, ProviderTypeOK, Call

\* Every step of the provider keeps every call.
LEMMA CallsKept ==
  ASSUME ProviderTypeOK, ProviderStep, NEW t \in Slots
  PROVE  CallKept(t)
  <1>1. CASE slot' = slot
    BY <1>1 DEF CallKept
  <1>2. Error # Unknown /\ Dead # Unknown
    BY DEF Error, Dead, Unknown
  <1>3. ASSUME NEW s \in Slots, Operation(s) \/ Fail(s)
        PROVE  CallKept(t)
    <2>. DEFINE g == slot[s].alloc.gen
    <2>1. g \in Gens
      BY CallGen
    <2>2. slot[s].phase # "free"
      BY <1>3
      DEF Operation, AdmitReject, AdmitTombstone, AdmitRun, Probe, Create, MarkCreated,
          Missing, SwitchPower, Look, Clear, Remove, Tomb, Fail, Stages
    <2>3. /\ Observed(container[g]) \in Status
          /\ Observed(container[g]) # Unknown
      <3>1. container[g] \in ContainerStates
        BY <2>1 DEF ProviderTypeOK
      <3>. QED
        BY <3>1, ObservedType DEF Observed, Unknown
    <2>4. CASE \E r \in Status \ {Unknown} : slot' = [slot EXCEPT ![s] = Answered(s, r)]
      BY <2>2, <2>4, AnsweredKept
    <2>5. CASE \E phase \in Stages : slot' = [slot EXCEPT ![s].phase = phase]
      BY <2>2, <2>5, MovedKept
    <2>6. CASE AdmitRun(s)
      <3>1. FirstStage(slot[s].op, Recorded(s).created) \in Stages
        BY DEF FirstStage, Stages, ProviderTypeOK, Call, Ops
      <3>. QED
        BY <2>2, <2>6, <3>1, MovedKept DEF AdmitRun
    <2>7. AdmitReject(s) \/ AdmitTombstone(s) \/ Fail(s)
            => \E r \in Status \ {Unknown} : slot' = [slot EXCEPT ![s] = Answered(s, r)]
      BY <1>2, ReplyTypes DEF AdmitReject, AdmitTombstone, Fail
    <2>8. Missing(s) \/ Look(s) \/ Tomb(s)
            => \E r \in Status \ {Unknown} : slot' = [slot EXCEPT ![s] = Answered(s, r)]
      BY <1>2, <2>3, ReplyTypes DEF Missing, Look, Tomb, Finish
    <2>9. Probe(s) \/ Create(s) \/ MarkCreated(s) \/ SwitchPower(s) \/ Clear(s) \/ Remove(s)
            => \/ \E r \in Status \ {Unknown} : slot' = [slot EXCEPT ![s] = Answered(s, r)]
               \/ \E phase \in Stages : slot' = [slot EXCEPT ![s].phase = phase]
      BY <1>2, ReplyTypes
      DEF Probe, Create, MarkCreated, SwitchPower, Clear, Remove, Finish, Goto, Stages
    <2>. QED
      BY <1>3, <2>4, <2>5, <2>6, <2>7, <2>8, <2>9 DEF Operation
  <1>. QED
    BY <1>1, <1>3 DEF ProviderStep, LateLand, WorkerHealth, WorkerExit, ContainerLost

\* A record appears, and a destroy begins, only for a call in the queue.
LEMMA LedgerGrowth ==
  ASSUME ProviderInv, ProviderStep, NEW g \in Gens
  PROVE  /\ ledger'[g].known =>
              \/ ledger[g].known
              \/ \E s \in Slots : slot[s].phase = "queued" /\ slot[s].alloc.gen = g
         /\ ledger'[g].destroying =>
              \/ ledger[g].destroying
              \/ \E s \in Slots : /\ slot[s].phase = "queued" /\ slot[s].op = "destroy"
                                   /\ slot[s].alloc.gen = g
  <1>1. ProviderTypeOK
    BY DEF ProviderInv
  <1>2. CASE ledger' = ledger
    BY <1>2
  <1>3. ASSUME NEW s \in Slots, MarkCreated(s) \/ Tomb(s)
        PROVE  ledger'[g].known = ledger[g].known
                 /\ ledger'[g].destroying = ledger[g].destroying
    <2>1. slot[s].alloc.gen \in Gens /\ ledger[slot[s].alloc.gen] \in Record
      BY <1>1, CallGen DEF ProviderTypeOK
    <2>2. \/ ledger' = ledger
          \/ ledger' = [ledger EXCEPT ![slot[s].alloc.gen] = [@ EXCEPT !.created = TRUE]]
          \/ ledger' = [ledger EXCEPT ![slot[s].alloc.gen] = [@ EXCEPT !.destroyed = TRUE]]
      BY <1>3 DEF MarkCreated, Tomb
    <2>. QED
      BY <1>1, <2>1, <2>2 DEF ProviderTypeOK, Record
  <1>4. ASSUME NEW s \in Slots, AdmitRun(s), slot[s].alloc.gen = g
        PROVE  /\ slot[s].phase = "queued"
               /\ ledger'[g].destroying => ledger[g].destroying \/ slot[s].op = "destroy"
    <2>1. Recorded(s) \in Record /\ slot[s].phase = "queued"
      BY <1>1, <1>4, RecordedType DEF AdmitRun
    <2>2. Recorded(s).destroying => ledger[g].destroying
      BY <1>4, BlankTypes DEF Recorded, NoRecord, Record
    <2>3. ledger'[g] = [Recorded(s) EXCEPT !.destroying = @ \/ slot[s].op = "destroy"]
      BY <1>1, <1>4 DEF AdmitRun, ProviderTypeOK
    <2>. QED
      BY <2>1, <2>2, <2>3 DEF Record
  <1>5. ASSUME NEW s \in Slots, AdmitRun(s), slot[s].alloc.gen # g
        PROVE  ledger'[g] = ledger[g]
    BY <1>1, <1>5, CallGen DEF AdmitRun, ProviderTypeOK
  <1>6. \/ ledger' = ledger
        \/ \E s \in Slots : AdmitRun(s) \/ MarkCreated(s) \/ Tomb(s)
    BY DEF ProviderStep, Operation, AdmitReject, AdmitTombstone, Probe, Create, Missing,
           SwitchPower, Look, Clear, Remove, Fail, LateLand, WorkerHealth, WorkerExit,
           ContainerLost
  <1>. QED
    BY <1>2, <1>3, <1>4, <1>5, <1>6

-----------------------------------------------------------------------------
(* The registry is a client of the provider *)

\* The registry's own share of TypeOK.
RegistryTypes ==
    /\ durable \in Binding
    /\ lock \in Procs \cup {NoProc}
    /\ op \in [Procs -> OpState]
    /\ authority \in [Gens -> Keys]
    /\ nextKey \in 1 .. MaxKey + 1

\* The allocation of a record is one.
LEMMA DurableAllocation ==
  ASSUME durable \in Binding, durable.gen > 0
  PROVE  AllocationOf(durable) \in Allocation /\ durable.gen \in Gens
  BY BoundAssumption DEF Binding, AllocationOf, Allocation, Gens

\* Every step of the registry and the clock is one of the provider's clients',
\* or does not concern the provider.
LEMMA RegistryIsClient ==
  ASSUME RegistryInv, Tick \/ \E p \in Procs : RegistryStep(p)
  PROVE  ClientStep \/ UNCHANGED providerVars
  <1>. USE DEF RegistryInv, TypeOK
  <1>1. CASE Tick
    <2>1. PICK k \in 1 .. nextKey - 1 : Expire(k)
      BY <1>1 DEF Tick
    <2>2. k \in Keys \ {0}
      BY BoundAssumption DEF Keys
    <2>. QED
      BY <2>1, <2>2 DEF ClientStep
  <1>2. ASSUME NEW p \in Procs, Caller(p)
        PROVE  UNCHANGED providerVars
    BY <1>2 DEF Caller, EnsureExisting, EnsureNew, Reconcile, RecoverHandle, Command
  <1>3. ASSUME NEW p \in Procs, NEW s \in Slots, Issue(p, s)
        PROVE  ClientStep
    <2>. DEFINE call == IF op[p].mode = "recover" \/ durable.pending = "none"
                        THEN "inspect" ELSE durable.pending
                handle == IF call = "ensure" \/ durable.status = Unknown
                          THEN 0 ELSE durable.gen
    <2>1. durable.gen > 0
      BY <1>3 DEF Issue, DrivenWhileLive, Live, Loadable
    <2>2. call \in Ops
      BY DEF Binding, Intents, Ops
    <2>3. handle \in Handles(call)
      <3>1. durable.gen \in Gens
        BY <2>1, DurableAllocation
      <3>2. durable.status = Unknown => durable.pending = "ensure"
        BY <1>3 DEF Issue, DrivenWhileLive, Live, Loadable
      <3>. QED
        BY <2>2, <3>1, <3>2, BoundAssumption DEF Handles, Gens
    <2>4. Submit(s, call, AllocationOf(durable), handle)
      BY <1>3 DEF Issue
    <2>. QED
      BY <2>1, <2>2, <2>3, <2>4, DurableAllocation DEF ClientStep
  <1>4. ASSUME NEW p \in Procs, Initialize(p) \/ CommitAllocation(p) \/ ReturnExpired(p)
        PROVE  UNCHANGED providerVars
    BY <1>4 DEF Initialize, CommitAllocation, ReturnExpired
  <1>5. ASSUME NEW p \in Procs, Answer(p) \/ TimeoutCall(p) \/ Abandon(p)
        PROVE  ClientStep
    <2>1. op[p].pc = "wait" => op[p].slot \in Slots
      BY DEF DrivenWhileLive
    <2>. QED
      BY <1>5, <2>1 DEF Answer, TimeoutCall, Abandon, ClientStep
  <1>. QED
    BY <1>1, <1>2, <1>3, <1>4, <1>5 DEF RegistryStep, Continue

\* Hence the provider keeps its invariant under the registry.
LEMMA ProviderKept ==
  ASSUME RegistryInv, [Next]_vars
  PROVE  /\ [ProviderNext]_providerVars
         /\ ProviderInv'
  <1>1. [ProviderNext]_providerVars
    BY RegistryIsClient DEF Next, ProviderNext, vars
  <1>. QED
    BY <1>1, ProviderStepInv, ClientStepInv, StutterInv DEF RegistryInv, ProviderNext

\* Replies stay given.
LEMMA RepliesKept ==
  ASSUME ProviderTypeOK, RepliesGiven, [ProviderNext]_providerVars
  PROVE  RepliesGiven'
  <1>1. CASE slot' = slot
    BY <1>1 DEF RepliesGiven
  <1>2. CASE ProviderStep
    <2>. SUFFICES ASSUME NEW t \in Slots, slot'[t].phase = "replied"
                  PROVE  slot'[t].reply # Unknown
      BY DEF RepliesGiven
    <2>1. CallKept(t)
      BY <1>2, CallsKept
    <2>. QED
      BY <2>1 DEF CallKept, FreeSlot, RepliesGiven
  <1>3. ASSUME NEW s \in Slots, NEW o \in Ops, NEW a \in Allocation,
               NEW h \in 0 .. MaxGen, Submit(s, o, a, h)
        PROVE  RepliesGiven'
    BY <1>3 DEF Submit, RepliesGiven, ProviderTypeOK
  <1>4. ASSUME NEW s \in Slots, Receive(s)
        PROVE  RepliesGiven'
    BY <1>4 DEF Receive, RepliesGiven, ProviderTypeOK, FreeSlot
  <1>5. ASSUME NEW s \in Slots, Orphan(s)
        PROVE  RepliesGiven'
    <2>1. slot[s] \in Call
      BY DEF ProviderTypeOK
    <2>. QED
      BY <1>5, <2>1 DEF Orphan, RepliesGiven, ProviderTypeOK, FreeSlot, Call
  <1>. QED
    BY <1>1, <1>2, <1>3, <1>4, <1>5, HandleTypes
    DEF ProviderNext, ClientStep, ClientDown, Expire, providerVars

-----------------------------------------------------------------------------
(* The registry's invariant *)

OperationPart == LockHeldByOperation /\ PreparedBesideRetired /\ DrivenWhileLive
RecordPart == /\ RecordWellFormed /\ CallsCommitted /\ DestroyCommitted
              /\ LedgerFollows /\ SigningAgree

\* What a step that is not the provider's does to the calls at most: end some,
\* or add one for the current allocation that the record asks for.
CallsFollow ==
    \A t \in Slots :
        \/ slot'[t].phase = "free"
        \/ /\ slot[t].phase # "free"
           /\ slot'[t].alloc = slot[t].alloc /\ slot'[t].op = slot[t].op
           /\ slot'[t].phase = "queued" => slot[t].phase = "queued"
        \/ /\ slot'[t].alloc.gen = durable.gen
           /\ slot'[t].op = "destroy" => durable.pending = "destroy"

\* Such a step keeps the record's part when it leaves the record alone, or
\* advances a live one.
LEMMA RecordAdvanced ==
  ASSUME RegistryInv, CallsFollow, ledger' = ledger,
         \A g \in Gens : g = durable.gen => authority'[g] = authority[g],
         \/ durable' = durable
         \/ /\ durable.gen > 0
            /\ durable'.gen = durable.gen /\ durable'.key = durable.key
            /\ Loadable(durable')
            /\ durable.pending = "destroy"
                  => durable'.pending = "destroy" \/ durable'.retired
            /\ durable'.retired => ledger[durable.gen].destroyed
            /\ ~durable.retired
  PROVE  RecordPart'
  <1>1. durable'.gen = durable.gen /\ durable'.key = durable.key
    OBVIOUS
  <1>2. durable.gen \in 0 .. MaxGen
    BY DEF RegistryInv, TypeOK, Binding
  <1>3. RecordWellFormed'
    BY DEF RecordWellFormed, RegistryInv
  <1>4. CallsCommitted'
    <2>. SUFFICES ASSUME NEW t \in Slots, slot'[t].phase # "free"
                  PROVE  slot'[t].alloc.gen <= durable'.gen
      BY DEF CallsCommitted
    <2>1. CASE slot[t].phase # "free" /\ slot'[t].alloc = slot[t].alloc
      BY <1>1, <2>1 DEF CallsCommitted, RegistryInv
    <2>2. CASE slot'[t].alloc.gen = durable.gen
      BY <1>1, <1>2, <2>2, BoundAssumption
    <2>. QED
      BY <2>1, <2>2 DEF CallsFollow
  <1>5. durable.pending = "destroy" /\ ~durable'.retired => durable'.pending = "destroy"
    OBVIOUS
  <1>6. DestroyCommitted'
    <2>. SUFFICES ASSUME ~durable'.retired
                  PROVE  /\ \A s \in Slots :
                               slot'[s].phase = "queued" /\ slot'[s].op = "destroy"
                                  /\ slot'[s].alloc.gen = durable'.gen
                                  => durable'.pending = "destroy"
                         /\ \A g \in Gens :
                               g = durable'.gen /\ ledger'[g].destroying
                                  => durable'.pending = "destroy"
      BY DEF DestroyCommitted
    <2>1. ~durable.retired
      OBVIOUS
    <2>2. ASSUME NEW s \in Slots, slot'[s].phase = "queued", slot'[s].op = "destroy",
                 slot'[s].alloc.gen = durable'.gen
          PROVE  durable.pending = "destroy"
      BY <1>1, <2>1, <2>2 DEF CallsFollow, DestroyCommitted, RegistryInv
    <2>3. ASSUME NEW g \in Gens, g = durable'.gen, ledger'[g].destroying
          PROVE  durable.pending = "destroy"
      BY <1>1, <2>1, <2>3 DEF DestroyCommitted, RegistryInv
    <2>. QED
      BY <1>5, <2>2, <2>3
  <1>7. LedgerFollows'
    BY <1>1 DEF LedgerFollows, RegistryInv
  <1>8. SigningAgree'
    <2>1. durable.gen > 0 => durable.gen \in Gens
      BY <1>2, BoundAssumption DEF Gens
    <2>. QED
      BY <1>1, <2>1 DEF SigningAgree, RegistryInv
  <1>. QED
    BY <1>3, <1>4, <1>6, <1>7, <1>8 DEF RecordPart

\* While a coordinator holds the lock, or nobody does, all others are idle.
LEMMA OthersIdle ==
  ASSUME RegistryInv, NEW p \in Procs, lock \in {NoProc, p}
  PROVE  \A q \in Procs : q # p => op[q].pc = "idle"
  BY ProcAssumption DEF RegistryInv, LockHeldByOperation

\* A step of the operation of p alone, which holds the lock afterwards unless
\* it has ended, keeps the operations' part if the new stage is sound.
LEMMA OperationMoves ==
  ASSUME RegistryInv, NEW p \in Procs, lock \in {NoProc, p}, NEW o \in OpState,
         op' = [op EXCEPT ![p] = o],
         lock' = (IF o.pc = "idle" THEN NoProc ELSE p),
         o.pc \in {"init", "commit"} =>
            /\ durable'.gen < MaxGen
            /\ durable'.gen > 0 => durable'.retired
            /\ o.pc = "commit" => o.key \in {0, authority'[durable'.gen + 1]},
         o.pc \in {"drive", "wait"} => Live(durable'),
         o.pc = "wait" =>
            /\ o.slot \in Slots
            /\ slot'[o.slot].phase # "free" /\ ~slot'[o.slot].orphan
            /\ slot'[o.slot].alloc = AllocationOf(durable')
  PROVE  /\ OperationPart'
         /\ op' \in [Procs -> OpState] /\ lock' \in Procs \cup {NoProc}
  <1>1. op' \in [Procs -> OpState] /\ op'[p] = o
    BY DEF RegistryInv, TypeOK
  <1>2. \A q \in Procs : q # p => op'[q].pc = "idle"
    BY OthersIdle DEF RegistryInv, TypeOK
  <1>3. LockHeldByOperation'
    BY <1>1, <1>2, ProcAssumption DEF LockHeldByOperation
  <1>4. PreparedBesideRetired'
    <2>. SUFFICES ASSUME NEW q \in Procs, op'[q].pc \in {"init", "commit"}
                  PROVE  /\ durable'.gen < MaxGen
                         /\ durable'.gen > 0 => durable'.retired
                         /\ op'[q].pc = "commit"
                               => op'[q].key \in {0, authority'[durable'.gen + 1]}
      BY DEF PreparedBesideRetired
    <2>1. q = p
      BY <1>2
    <2>. QED
      BY <1>1, <2>1
  <1>5. DrivenWhileLive'
    <2>. SUFFICES ASSUME NEW q \in Procs, op'[q].pc \in {"drive", "wait"}
                  PROVE  /\ Live(durable')
                         /\ op'[q].pc = "wait" =>
                              /\ op'[q].slot \in Slots
                              /\ slot'[op'[q].slot].phase # "free"
                              /\ ~slot'[op'[q].slot].orphan
                              /\ slot'[op'[q].slot].alloc = AllocationOf(durable')
      BY DEF DrivenWhileLive, Live, Loadable
    <2>1. q = p
      BY <1>2
    <2>. QED
      BY <1>1, <2>1
  <1>. QED
    BY <1>1, <1>3, <1>4, <1>5 DEF OperationPart

\* The registry's share of the invariant.
RegistryShare == OperationPart /\ RecordPart /\ RegistryTypes

\* Steps that neither the record nor the calls take part in.
LEMMA QuietCalls == slot' = slot => CallsFollow
  <1>. SUFFICES ASSUME slot' = slot PROVE CallsFollow
    OBVIOUS
  <1>. QED
    BY DEF CallsFollow

\* Entering an operation: ensure, reconcile, recover_handle, start, stop, destroy.
LEMMA CallerKeeps ==
  ASSUME RegistryInv, NEW p \in Procs, Caller(p)
  PROVE  RegistryShare'
  <1>. USE DEF RegistryInv, TypeOK
  <1>1. lock = NoProc /\ lock' = p
    BY DEF Caller, EnsureExisting, EnsureNew, Reconcile, RecoverHandle, Command, Enter
  <1>2. /\ slot' = slot /\ ledger' = ledger /\ authority' = authority /\ nextKey' = nextKey
    BY DEF Caller, EnsureExisting, EnsureNew, Reconcile, RecoverHandle, Command, providerVars
  <1>3. CallsFollow
    BY <1>2, QuietCalls
  <1>4. CASE \/ \E sp \in Specs, init \in BOOLEAN : EnsureExisting(p, sp, init)
             \/ Reconcile(p) \/ RecoverHandle(p)
    <2>1. /\ durable' = durable /\ Live(durable)
          /\ \/ op' = [op EXCEPT ![p] = Driving("drive")]
             \/ op' = [op EXCEPT ![p] = Driving("recover")]
      BY <1>4 DEF EnsureExisting, Reconcile, RecoverHandle, Enter
    <2>2. RecordPart'
      BY <1>2, <1>3, <2>1, RecordAdvanced
    <2>3. Live(durable')
      BY <2>1
    <2>4. OperationPart' /\ op' \in [Procs -> OpState]
      BY <1>1, <2>1, <2>3, RegistryBlanks, OperationMoves
    <2>. QED
      BY <1>1, <1>2, <2>1, <2>2, <2>4 DEF RegistryShare, RegistryTypes
  <1>5. ASSUME NEW sp \in Specs, NEW init \in BOOLEAN, EnsureNew(p, sp, init)
        PROVE  RegistryShare'
    <2>. DEFINE o == [Idle EXCEPT !.pc = IF init THEN "init" ELSE "commit", !.spec = sp]
    <2>1. o \in OpState /\ o.pc \in {"init", "commit"} /\ o.key = 0
      BY RegistryBlanks DEF OpState, Idle
    <2>2. /\ op' = [op EXCEPT ![p] = o] /\ durable' = durable
          /\ durable.gen < MaxGen
          /\ durable.gen > 0 => durable.retired
      BY <1>5 DEF EnsureNew, Enter, NoBinding
    <2>3. RecordPart'
      BY <1>2, <1>3, <2>2, RecordAdvanced
    <2>4. OperationPart' /\ op' \in [Procs -> OpState]
      BY <1>1, <2>1, <2>2, OperationMoves
    <2>. QED
      BY <1>1, <1>2, <2>2, <2>3, <2>4 DEF RegistryShare, RegistryTypes
  <1>6. ASSUME NEW h \in Gens, NEW intent \in Intents \ {"ensure"}, Command(p, h, intent)
        PROVE  RegistryShare'
    <2>. DEFINE c == [durable EXCEPT !.pending = intent, !.err = FALSE]
    <2>1. /\ op' = [op EXCEPT ![p] = Driving("drive")] /\ durable' = Saved(c)
          /\ Live(durable) /\ durable.status # Unknown
          /\ intent = "destroy" \/ durable.pending \in {"none", intent}
      BY <1>6 DEF Command, Enter
    <2>2. /\ c \in Binding /\ c.gen = durable.gen /\ c.key = durable.key
          /\ c.status = durable.status /\ c.retired = durable.retired
          /\ c.pending = intent
      BY DEF Binding, Intents
    <2>3. /\ durable' \in Binding /\ durable'.gen = durable.gen
          /\ durable'.key = durable.key /\ durable'.status = durable.status
          /\ durable'.retired = durable.retired /\ durable'.pending = intent
          /\ durable'.rev > 0
      <3>. HIDE DEF c
      <3>1. c.rev \in Nat
        BY <2>2 DEF Binding
      <3>2. c.rev + 1 > 0
        BY <3>1
      <3>. QED
        BY <2>1, <2>2, <3>2, SavedType
    <2>4. Live(durable')
      BY <2>1, <2>3 DEF Live, Loadable
    <2>5. durable.gen > 0 /\ ~durable.retired
      BY <2>1 DEF Live, Loadable
    <2>6. RecordPart'
      BY <1>2, <1>3, <2>1, <2>3, <2>4, <2>5, RecordAdvanced DEF Live
    <2>7. OperationPart' /\ op' \in [Procs -> OpState]
      BY <1>1, <2>1, <2>4, RegistryBlanks, OperationMoves
    <2>. QED
      BY <1>1, <1>2, <2>3, <2>6, <2>7 DEF RegistryShare, RegistryTypes
  <1>. QED
    BY <1>4, <1>5, <1>6 DEF Caller

\* Preparing the signing authority of the next generation.
LEMMA InitializeKeeps ==
  ASSUME RegistryInv, NEW p \in Procs, Initialize(p)
  PROVE  RegistryShare'
  <1>. USE DEF RegistryInv, TypeOK
  <1>. DEFINE g == durable.gen + 1
              fresh == authority[g] = 0 \/ ~Active(authority[g])
              o == [op[p] EXCEPT !.pc = "commit", !.key = authority'[g]]
  <1>1. lock = p /\ lock' = lock /\ op[p].pc = "init"
    BY DEF Initialize, LockHeldByOperation
  <1>2. durable.gen < MaxGen /\ (durable.gen > 0 => durable.retired)
    BY <1>1 DEF PreparedBesideRetired
  <1>3. g \in Gens /\ durable.gen \in 0 .. MaxGen
    BY <1>2, BoundAssumption DEF Binding, Gens
  <1>4. fresh => nextKey \in Keys /\ nextKey + 1 \in 1 .. MaxKey + 1
    BY BoundAssumption DEF Initialize, Keys
  <1>5. /\ authority' = [authority EXCEPT ![g] = IF fresh THEN nextKey ELSE authority[g]]
        /\ nextKey' = IF fresh THEN nextKey + 1 ELSE nextKey
        /\ slot' = slot /\ ledger' = ledger /\ durable' = durable
    BY DEF Initialize, providerVars
  <1>6. authority' \in [Gens -> Keys] /\ nextKey' \in 1 .. MaxKey + 1
    BY <1>3, <1>4, <1>5
  <1>7. \A x \in Gens : x = durable.gen => authority'[x] = authority[x]
    BY <1>3, <1>5
  <1>8. RecordPart'
    BY <1>5, <1>7, QuietCalls, RecordAdvanced
  <1>9. op[p] \in OpState /\ authority'[g] \in Keys
    BY <1>3, <1>6
  <1>10. o \in OpState /\ o.pc = "commit" /\ o.key = authority'[g]
    BY <1>9 DEF OpState
  <1>11. op' = [op EXCEPT ![p] = o]
    <2>1. op' = [op EXCEPT ![p].pc = "commit", ![p].key = authority'[g]]
      BY DEF Initialize
    <2>. QED
      BY <2>1, Zenon
  <1>12. OperationPart' /\ op' \in [Procs -> OpState]
    BY <1>1, <1>2, <1>5, <1>10, <1>11, OperationMoves
  <1>. QED
    BY <1>1, <1>5, <1>6, <1>8, <1>12 DEF RegistryShare, RegistryTypes

\* Committing the next generation: nobody has called for it yet, and the
\* provider has destroyed the one before.
LEMMA CommitKeeps ==
  ASSUME RegistryInv, NEW p \in Procs, CommitAllocation(p)
  PROVE  RegistryShare'
  <1>. USE DEF RegistryInv, TypeOK
  <1>. DEFINE g == durable.gen + 1
              c == [NoBinding EXCEPT !.gen = g, !.spec = op[p].spec, !.key = op[p].key,
                                     !.rev = durable.rev, !.pending = "ensure"]
  <1>1. lock = p /\ lock' = lock /\ op[p].pc = "commit"
    BY DEF CommitAllocation, LockHeldByOperation
  <1>2. /\ durable.gen < MaxGen /\ (durable.gen > 0 => durable.retired)
        /\ op[p].key \in {0, authority[g]}
    BY <1>1 DEF PreparedBesideRetired
  <1>3. g \in Gens /\ durable.gen \in 0 .. MaxGen /\ g \in 0 .. MaxGen
    BY <1>2, BoundAssumption DEF Binding, Gens
  <1>4. /\ c \in Binding /\ c.gen = g /\ c.key = op[p].key /\ c.pending = "ensure"
        /\ c.status = Unknown /\ c.retired = FALSE /\ c.rev = durable.rev
    BY <1>3, RegistryBlanks DEF Binding, OpState, NoBinding, Intents
  <1>5. /\ durable' = Saved(c) /\ op' = [op EXCEPT ![p] = Driving("drive")]
        /\ slot' = slot /\ ledger' = ledger
        /\ authority' = authority /\ nextKey' = nextKey
    BY DEF CommitAllocation, providerVars
  <1>6. durable.rev \in Nat
    BY DEF Binding
  <1>7. /\ durable' \in Binding /\ durable'.gen = g /\ durable'.key = op[p].key
        /\ durable'.pending = "ensure" /\ durable'.status = Unknown
        /\ ~durable'.retired /\ durable'.rev > 0
    <2>. HIDE DEF c
    <2>1. c.rev + 1 > 0
      BY <1>4, <1>6
    <2>. QED
      BY <1>4, <1>5, <2>1, SavedType
  <1>8. Live(durable')
    BY <1>3, <1>7, BoundAssumption DEF Live, Loadable, Unknown, Gens
  <1>9. RecordWellFormed' /\ SigningAgree'
    BY <1>2, <1>3, <1>5, <1>7, <1>8 DEF RecordWellFormed, SigningAgree, Live
  <1>10. \A s \in Slots : slot[s].phase # "free" => slot[s].alloc.gen <= durable.gen
                                                   /\ slot[s].alloc.gen \in Gens
    BY CallGen DEF CallsCommitted
  <1>11. CallsCommitted'
    BY <1>3, <1>5, <1>7, <1>10, BoundAssumption DEF CallsCommitted, Gens
  <1>12. LedgerFollows'
    <2>. SUFFICES ASSUME NEW x \in Gens
                  PROVE  /\ x < g => ledger[x].destroyed
                         /\ x > g => ~ledger[x].known
      BY <1>3, <1>5, <1>7, BoundAssumption DEF LedgerFollows, Gens
    <2>1. CASE x < durable.gen
      BY <1>3, <2>1, BoundAssumption DEF LedgerFollows, Gens
    <2>2. CASE x = durable.gen
      BY <1>2, <1>3, <2>2, BoundAssumption DEF LedgerFollows, Gens
    <2>3. CASE x > durable.gen
      BY <1>3, <2>3, BoundAssumption DEF LedgerFollows, Gens
    <2>. QED
      BY <1>3, <2>1, <2>2, <2>3, BoundAssumption DEF Gens
  <1>13. DestroyCommitted'
    <2>1. ~ledger[g].destroying
      <3>1. ~ledger[g].known
        BY <1>3, BoundAssumption DEF LedgerFollows, Gens
      <3>. QED
        BY <1>3, <3>1 DEF ProviderInv, ContainerRecorded
    <2>2. \A s \in Slots : slot[s].phase = "queued" => slot[s].alloc.gen # g
      BY <1>3, <1>10, BoundAssumption DEF Gens
    <2>. QED
      BY <1>5, <1>7, <2>1, <2>2 DEF DestroyCommitted
  <1>14. OperationPart' /\ op' \in [Procs -> OpState]
    BY <1>1, <1>5, <1>8, RegistryBlanks, OperationMoves
  <1>. QED
    BY <1>1, <1>5, <1>7, <1>9, <1>11, <1>12, <1>13, <1>14
    DEF RegistryShare, RecordPart, RegistryTypes

\* An operation that ends without touching the record.
LEMMA ReturnKeeps ==
  ASSUME RegistryInv, NEW p \in Procs, op[p].pc # "idle", Return(p), CallsFollow,
         ledger' = ledger, durable' = durable, authority' = authority, nextKey' = nextKey
  PROVE  RegistryShare'
  <1>1. lock = p
    BY DEF RegistryInv, LockHeldByOperation
  <1>2. OperationPart' /\ op' \in [Procs -> OpState] /\ lock' \in Procs \cup {NoProc}
    BY <1>1, RegistryBlanks, OperationMoves DEF Return, Idle
  <1>3. RecordPart'
    BY RecordAdvanced
  <1>. QED
    BY <1>2, <1>3 DEF RegistryShare, RegistryTypes, RegistryInv, TypeOK

\* Calling the provider for what the record says.
LEMMA IssueKeeps ==
  ASSUME RegistryInv, NEW p \in Procs, NEW s \in Slots, Issue(p, s)
  PROVE  RegistryShare'
  <1>. USE DEF RegistryInv, TypeOK
  <1>. DEFINE call == IF op[p].mode = "recover" \/ durable.pending = "none"
                      THEN "inspect" ELSE durable.pending
              handle == IF call = "ensure" \/ durable.status = Unknown
                        THEN 0 ELSE durable.gen
              c == [phase |-> "queued", op |-> call, alloc |-> AllocationOf(durable),
                    handle |-> handle, orphan |-> FALSE, reply |-> Unknown]
              o == [op[p] EXCEPT !.pc = "wait", !.slot = s]
  <1>1. lock = p /\ lock' = lock /\ op[p].pc = "drive"
    BY DEF Issue, LockHeldByOperation
  <1>2. Live(durable)
    BY <1>1 DEF DrivenWhileLive
  <1>3. /\ slot' = [slot EXCEPT ![s] = c]
        /\ ledger' = ledger /\ durable' = durable /\ authority' = authority
        /\ nextKey' = nextKey
    BY DEF Issue, Submit
  <1>4. /\ slot'[s] = c
        /\ \A t \in Slots : t # s => slot'[t] = slot[t]
    BY <1>3 DEF ProviderTypeOK
  <1>5. /\ c.alloc.gen = durable.gen /\ c.alloc = AllocationOf(durable)
        /\ c.op = "destroy" => durable.pending = "destroy"
        /\ c.phase # "free" /\ ~c.orphan
    BY DEF AllocationOf
  <1>6. CallsFollow
    BY <1>4, <1>5 DEF CallsFollow
  <1>7. RecordPart'
    BY <1>3, <1>6, RecordAdvanced
  <1>8. op[p] \in OpState
    OBVIOUS
  <1>9. o \in OpState /\ o.pc = "wait" /\ o.slot = s
    BY <1>8 DEF OpState
  <1>10. op' = [op EXCEPT ![p] = o]
    BY Zenon DEF Issue
  <1>11. AllocationOf(durable') = AllocationOf(durable) /\ Live(durable')
    BY <1>2, <1>3
  <1>12. OperationPart' /\ op' \in [Procs -> OpState]
    <2>. HIDE DEF o, c
    <2>. QED
      BY <1>1, <1>4, <1>5, <1>9, <1>10, <1>11, OperationMoves
  <1>. QED
    BY <1>1, <1>3, <1>7, <1>12 DEF RegistryShare, RegistryTypes

\* Taking, or giving up on, an answer.
LEMMA CallEnds ==
  ASSUME RegistryInv, NEW s \in Slots, Receive(s) \/ Orphan(s)
  PROVE  CallsFollow /\ ledger' = ledger
  <1>1. slot[s] \in Call
    BY DEF RegistryInv, TypeOK, ProviderTypeOK
  <1>. QED
    BY <1>1 DEF Receive, Orphan, CallsFollow, RegistryInv, TypeOK, ProviderTypeOK,
                FreeSlot, Call

\* The outcome r of a call advances the record: retirement needs a `destroyed'
\* reply, which names the provider's tombstone.
LEMMA OutcomeKeeps ==
  ASSUME RegistryInv, NEW p \in Procs, op[p].pc = "wait", NEW r \in Status, r # Unknown,
         Outcome(p, r), CallsFollow, ledger' = ledger,
         r.state = "destroyed" => ledger[durable.gen].destroyed
  PROVE  RegistryShare'
  <1>. USE DEF RegistryInv, TypeOK
  <1>1. lock = p /\ Live(durable)
    BY DEF LockHeldByOperation, DrivenWhileLive
  <1>2. /\ authority' = authority /\ nextKey' = nextKey
        /\ op' = [op EXCEPT ![p] = Idle] /\ lock' = NoProc
    BY DEF Outcome, Return
  <1>3. Advanced(durable, durable', r)
    BY <1>1, DrivenAdvances, RecoveredAdvances DEF Outcome
  <1>4. /\ durable' \in Binding /\ durable'.gen = durable.gen /\ durable'.key = durable.key
        /\ Loadable(durable')
        /\ durable.pending = "destroy" => durable'.pending = "destroy" \/ durable'.retired
        /\ durable'.retired => ledger[durable.gen].destroyed
    BY <1>3 DEF Advanced
  <1>5. durable.gen > 0 /\ ~durable.retired
    BY <1>1 DEF Live, Loadable
  <1>6. RecordPart'
    BY <1>2, <1>4, <1>5, RecordAdvanced
  <1>7. OperationPart' /\ op' \in [Procs -> OpState] /\ lock' \in Procs \cup {NoProc}
    BY <1>1, <1>2, RegistryBlanks, OperationMoves DEF Idle
  <1>. QED
    BY <1>2, <1>4, <1>6, <1>7 DEF RegistryShare, RegistryTypes

\* The awaited reply is given, and if it says `destroyed' the machine is.
LEMMA AwaitedReply ==
  ASSUME RegistryInv, NEW p \in Procs, op[p].pc = "wait"
  PROVE  /\ op[p].slot \in Slots
         /\ slot[op[p].slot].reply \in Status
         /\ slot[op[p].slot].reply.state = "destroyed" => ledger[durable.gen].destroyed
         /\ slot[op[p].slot].phase = "replied" => slot[op[p].slot].reply # Unknown
  <1>1. op[p].slot \in Slots /\ slot[op[p].slot].alloc = AllocationOf(durable)
    BY DEF RegistryInv, DrivenWhileLive
  <1>2. slot[op[p].slot] \in Call
    BY <1>1 DEF RegistryInv, TypeOK, ProviderTypeOK
  <1>. QED
    BY <1>1, <1>2
    DEF Call, AllocationOf, RegistryInv, ProviderInv, DestroyedReplied, RepliesGiven

\* An operation that goes on keeps the registry's share.
LEMMA ContinueKeeps ==
  ASSUME RegistryInv, NEW p \in Procs, Continue(p)
  PROVE  RegistryShare'
  <1>1. CASE Initialize(p)
    BY <1>1, InitializeKeeps
  <1>2. CASE CommitAllocation(p)
    BY <1>2, CommitKeeps
  <1>3. CASE ReturnExpired(p)
    <2>1. op[p].pc # "idle" /\ slot' = slot /\ ledger' = ledger
      BY <1>3 DEF ReturnExpired, NeedsLease, providerVars
    <2>. QED
      BY <1>3, <2>1, QuietCalls, ReturnKeeps DEF ReturnExpired
  <1>4. ASSUME NEW s \in Slots, Issue(p, s)
        PROVE  RegistryShare'
    BY <1>4, IssueKeeps
  <1>5. CASE Answer(p)
    <2>. DEFINE s == op[p].slot
    <2>1. op[p].pc = "wait" /\ slot[s].phase = "replied" /\ Receive(s)
            /\ Outcome(p, slot[s].reply)
      BY <1>5 DEF Answer, Receive
    <2>2. /\ s \in Slots /\ slot[s].reply \in Status /\ slot[s].reply # Unknown
          /\ slot[s].reply.state = "destroyed" => ledger[durable.gen].destroyed
      BY <2>1, AwaitedReply
    <2>3. CallsFollow /\ ledger' = ledger
      BY <2>1, <2>2, CallEnds
    <2>. QED
      BY <2>1, <2>2, <2>3, OutcomeKeeps
  <1>. QED
    BY <1>1, <1>2, <1>3, <1>4, <1>5 DEF Continue

\* Timeouts, cancellations and crashes keep it too.
LEMMA CutOffKeeps ==
  ASSUME RegistryInv, NEW p \in Procs, TimeoutCall(p) \/ Abandon(p)
  PROVE  RegistryShare'
  <1>1. op[p].pc = "wait" => op[p].slot \in Slots
    BY AwaitedReply
  <1>2. CASE TimeoutCall(p)
    <2>1. op[p].pc = "wait" /\ Orphan(op[p].slot) /\ Outcome(p, Error)
      BY <1>2 DEF TimeoutCall
    <2>2. CallsFollow /\ ledger' = ledger
      BY <1>1, <2>1, CallEnds
    <2>3. Error # Unknown /\ Error.state # "destroyed"
      BY DEF Error, Unknown
    <2>. QED
      BY <2>1, <2>2, <2>3, ReplyTypes, OutcomeKeeps
  <1>3. CASE Abandon(p)
    <2>1. CallsFollow /\ ledger' = ledger
      BY <1>1, <1>3, CallEnds, QuietCalls DEF Abandon, ClientDown
    <2>. QED
      BY <1>3, <2>1, ReturnKeeps DEF Abandon
  <1>. QED
    BY <1>2, <1>3

\* The provider's own steps: nothing is recorded that was not committed, and
\* what the registry relies on stays destroyed.
LEMMA ProviderStepKeeps ==
  ASSUME RegistryInv, ProviderStep, UNCHANGED registryVars
  PROVE  RegistryShare'
  <1>. USE DEF RegistryInv, TypeOK
  <1>1. /\ durable' = durable /\ lock' = lock /\ op' = op /\ authority' = authority
        /\ nextKey' = nextKey
    BY DEF registryVars
  <1>2. \A t \in Slots : CallKept(t)
    BY CallsKept
  <1>3. \A g \in Gens : ledger[g].destroyed => ledger'[g].destroyed
    BY RecordsKept DEF ProviderNext, RecordKept
  <1>4. LockHeldByOperation' /\ PreparedBesideRetired' /\ RecordWellFormed' /\ SigningAgree'
    BY <1>1 DEF LockHeldByOperation, PreparedBesideRetired, RecordWellFormed, SigningAgree
  <1>5. DrivenWhileLive'
    <2>. SUFFICES ASSUME NEW p \in Procs, op[p].pc \in {"drive", "wait"}
                  PROVE  /\ Live(durable)
                         /\ op[p].pc = "wait" =>
                              /\ op[p].slot \in Slots
                              /\ slot'[op[p].slot].phase # "free"
                              /\ ~slot'[op[p].slot].orphan
                              /\ slot'[op[p].slot].alloc = AllocationOf(durable)
      BY <1>1 DEF DrivenWhileLive
    <2>. QED
      BY <1>2 DEF DrivenWhileLive, CallKept
  <1>6. CallsCommitted'
    BY <1>1, <1>2 DEF CallsCommitted, CallKept, FreeSlot
  <1>7. DestroyCommitted'
    <2>. SUFFICES ASSUME ~durable.retired
                  PROVE  /\ \A s \in Slots :
                               slot'[s].phase = "queued" /\ slot'[s].op = "destroy"
                                  /\ slot'[s].alloc.gen = durable.gen
                                  => durable.pending = "destroy"
                         /\ \A g \in Gens :
                               g = durable.gen /\ ledger'[g].destroying
                                  => durable.pending = "destroy"
      BY <1>1 DEF DestroyCommitted
    <2>1. ASSUME NEW s \in Slots, slot'[s].phase = "queued", slot'[s].op = "destroy",
                 slot'[s].alloc.gen = durable.gen
          PROVE  durable.pending = "destroy"
      BY <1>2, <2>1 DEF CallKept, DestroyCommitted, FreeSlot
    <2>2. ASSUME NEW g \in Gens, g = durable.gen, ledger'[g].destroying
          PROVE  durable.pending = "destroy"
      BY <2>2, LedgerGrowth DEF DestroyCommitted
    <2>. QED
      BY <2>1, <2>2
  <1>8. LedgerFollows'
    <2>. SUFFICES ASSUME NEW g \in Gens
                  PROVE  /\ g < durable.gen => ledger'[g].destroyed
                         /\ g = durable.gen /\ durable.retired => ledger'[g].destroyed
                         /\ g > durable.gen => ~ledger'[g].known
      BY <1>1 DEF LedgerFollows
    <2>1. ASSUME g > durable.gen PROVE ~ledger'[g].known
      <3>1. ~ledger[g].known
        BY <2>1 DEF LedgerFollows
      <3>2. \A s \in Slots : slot[s].phase = "queued" => slot[s].alloc.gen # g
        <4>. SUFFICES ASSUME NEW s \in Slots, slot[s].phase = "queued"
                      PROVE  slot[s].alloc.gen # g
          OBVIOUS
        <4>1. slot[s].alloc.gen <= durable.gen /\ durable.gen \in 0 .. MaxGen
          BY DEF CallsCommitted, Binding
        <4>. QED
          BY <2>1, <4>1, BoundAssumption DEF Gens
      <3>. QED
        BY <3>1, <3>2, LedgerGrowth
    <2>. QED
      BY <1>3, <2>1 DEF LedgerFollows
  <1>. QED
    BY <1>1, <1>4, <1>5, <1>6, <1>7, <1>8
    DEF RegistryShare, OperationPart, RecordPart, RegistryTypes

\* A step that changes nothing the registry looks at.
LEMMA RegistryStutter ==
  ASSUME RegistryInv, UNCHANGED <<registryVars, slot, ledger>>
  PROVE  RegistryShare'
  BY DEF registryVars, RegistryInv, TypeOK, RegistryShare, OperationPart, RecordPart,
         RegistryTypes, LockHeldByOperation, RecordWellFormed, PreparedBesideRetired,
         DrivenWhileLive, CallsCommitted, DestroyCommitted, LedgerFollows, SigningAgree

\* Initially there is no record and nobody is at work.
LEMMA RegistryInit == Init => RegistryInv
  <1>. SUFFICES ASSUME Init PROVE RegistryInv
    OBVIOUS
  <1>1. ProviderInv
    BY InitInv DEF Init
  <1>2. RegistryTypes
    <2>1. 0 \in Keys /\ 1 \in 1 .. MaxKey + 1
      BY BoundAssumption DEF Keys
    <2>. QED
      BY <2>1, RegistryBlanks DEF Init, RegistryTypes
  <1>3. RepliesGiven /\ CallsCommitted
    BY DEF Init, ProviderInit, RepliesGiven, CallsCommitted, FreeSlot
  <1>4. LockHeldByOperation /\ PreparedBesideRetired /\ DrivenWhileLive
    BY ProcAssumption
    DEF Init, LockHeldByOperation, PreparedBesideRetired, DrivenWhileLive, Idle
  <1>5. RecordWellFormed /\ SigningAgree
    BY DEF Init, RecordWellFormed, SigningAgree, NoBinding
  <1>6. LedgerFollows /\ DestroyCommitted
    BY BoundAssumption
    DEF Init, ProviderInit, LedgerFollows, DestroyCommitted, NoBinding, NoRecord, FreeSlot,
        Gens
  <1>. QED
    BY <1>1, <1>2, <1>3, <1>4, <1>5, <1>6
    DEF RegistryInv, TypeOK, RegistryTypes, ProviderInv

\* Every step preserves the registry's invariant.
LEMMA RegistryNext ==
  ASSUME RegistryInv, [Next]_vars
  PROVE  RegistryInv'
  <1>1. ProviderInv' /\ RepliesGiven'
    BY ProviderKept, RepliesKept DEF RegistryInv, TypeOK
  <1>2. RegistryShare'
    <2>1. CASE ProviderStep /\ UNCHANGED registryVars
      BY <2>1, ProviderStepKeeps
    <2>2. CASE Tick \/ UNCHANGED vars
      BY <2>2, RegistryStutter DEF Tick, Expire, vars, providerVars
    <2>3. CASE \E p \in Procs : RegistryStep(p)
      BY <2>3, CallerKeeps, ContinueKeeps, CutOffKeeps DEF RegistryStep
    <2>. QED
      BY <2>1, <2>2, <2>3 DEF Next
  <1>. QED
    BY <1>1, <1>2
    DEF RegistryInv, TypeOK, ProviderInv, RegistryShare, OperationPart, RecordPart,
        RegistryTypes

-----------------------------------------------------------------------------
(* Theorems: invariants *)

\* The registry's inductive invariant holds of every run.
THEOREM RegistryInvariant == Spec => []RegistryInv
  BY RegistryInit, RegistryNext, PTL DEF Spec

\* Type correctness of registry and provider together.
THEOREM TypesAlways == Spec => []TypeOK
  <1>1. RegistryInv => TypeOK
    BY DEF RegistryInv
  <1>. QED
    BY <1>1, RegistryInvariant, PTL

\* The registry is one of the provider's clients: all that is proved of the
\* provider with arbitrary clients holds of the two together.
THEOREM ImplementsProvider == Spec => ProviderSpec
  <1>1. Init => ProviderInit
    BY DEF Init
  <1>2. RegistryInv /\ [Next]_vars => [ProviderNext]_providerVars
    BY ProviderKept
  <1>. QED
    BY <1>1, <1>2, RegistryInvariant, PTL DEF Spec, ProviderSpec

\* A workspace never has two machines, whatever happens to its coordinators.
THEOREM WorkspaceHasOneMachine == Spec => []OneMachine
  BY ImplementsProvider, OneMachineAlways, PTL

\* Retirement in the registry is destruction at the provider.
THEOREM RetiredIsGoneAlways == Spec => []RetiredIsGone
  <1>1. RegistryInv => RetiredIsGone
    <2>. SUFFICES ASSUME RegistryInv, durable.retired
                  PROVE  Gone(durable.gen)
      BY DEF RetiredIsGone
    <2>1. durable.gen > 0
      BY DEF RegistryInv, TypeOK, Binding, RecordWellFormed, Loadable, NoBinding
    <2>2. durable.gen \in Gens
      BY <2>1, DurableAllocation DEF RegistryInv, TypeOK
    <2>. QED
      BY <2>2 DEF Gone, RegistryInv, LedgerFollows, ProviderInv, ContainerRecorded
  <1>. QED
    BY <1>1, RegistryInvariant, PTL

\* Older generations are gone and newer ones have not reached the provider.
THEOREM GenerationFenceAlways == Spec => []GenerationFence
  <1>1. RegistryInv => GenerationFence
    BY DEF RegistryInv, GenerationFence, Gone, LedgerFollows, ProviderInv, ContainerRecorded
  <1>. QED
    BY <1>1, RegistryInvariant, PTL

\* No crash, cancellation or failed call leaves a record that load refuses.
THEOREM RecordLoadableAlways == Spec => []RecordLoadable
  <1>1. RegistryInv => RecordLoadable
    BY DEF RegistryInv, RecordLoadable, RecordWellFormed
  <1>. QED
    BY <1>1, RegistryInvariant, PTL

\* The committed descriptor and the key store agree on the signing authority.
THEOREM SigningAgreeAlways == Spec => []SigningAgree
  <1>1. RegistryInv => SigningAgree
    BY DEF RegistryInv
  <1>. QED
    BY <1>1, RegistryInvariant, PTL

\* No endpoint is offered of a machine whose destruction has begun.
THEOREM RoutedMachineIsKeptAlways == Spec => []RoutedMachineIsKept
  <1>1. RegistryInv => RoutedMachineIsKept
    <2>. SUFFICES ASSUME RegistryInv, Routable(durable)
                  PROVE  ~ledger[durable.gen].destroying
      BY DEF RoutedMachineIsKept
    <2>1. durable.gen > 0 /\ ~durable.retired /\ durable.pending = "none"
      BY DEF Routable, Live, Loadable
    <2>2. durable.gen \in Gens
      BY <2>1, DurableAllocation DEF RegistryInv, TypeOK
    <2>. QED
      BY <2>1, <2>2 DEF RegistryInv, DestroyCommitted
  <1>. QED
    BY <1>1, RegistryInvariant, PTL

-----------------------------------------------------------------------------
(* Theorems: what a step may never do to the record *)

\* How a step may change the record at all.
RecordStep ==
    \/ durable' = durable
    \/ /\ Live(durable) /\ durable'.gen = durable.gen
       /\ AllocationOf(durable') = AllocationOf(durable)
       /\ durable'.rev = durable.rev + 1
       /\ durable.pending = "destroy" => durable'.pending = "destroy" \/ durable'.retired
    \/ /\ durable = NoBinding \/ durable.retired
       /\ durable.pending # "destroy"
       /\ durable'.gen = durable.gen + 1
       /\ durable'.rev = durable.rev + 1
       /\ durable'.pending = "ensure"

\* The registry writes its record in Command, CommitAllocation and Outcome only.
LEMMA RecordSteps ==
  ASSUME RegistryInv, Next
  PROVE  RecordStep
  <1>. USE DEF RegistryInv, TypeOK
  <1>1. CASE durable' = durable
    BY <1>1 DEF RecordStep
  <1>2. ASSUME NEW p \in Procs, NEW h \in Gens, NEW intent \in Intents \ {"ensure"},
               Command(p, h, intent)
        PROVE  RecordStep
    <2>. DEFINE c == [durable EXCEPT !.pending = intent, !.err = FALSE]
    <2>1. /\ c \in Binding /\ c.gen = durable.gen /\ c.key = durable.key
          /\ c.spec = durable.spec /\ c.rev = durable.rev /\ c.pending = intent
      BY DEF Binding, Intents
    <2>2. durable' = Saved(c) /\ Live(durable)
            /\ (intent = "destroy" \/ durable.pending \in {"none", intent})
      BY <1>2 DEF Command
    <2>3. /\ durable'.gen = durable.gen /\ durable'.key = durable.key
          /\ durable'.spec = durable.spec /\ durable'.rev = durable.rev + 1
          /\ durable'.pending = intent
      <3>. HIDE DEF c
      <3>. QED
        BY <2>1, <2>2, SavedType
    <2>. QED
      BY <2>2, <2>3 DEF RecordStep, AllocationOf
  <1>3. ASSUME NEW p \in Procs, CommitAllocation(p)
        PROVE  RecordStep
    <2>. DEFINE c == [NoBinding EXCEPT !.gen = durable.gen + 1, !.spec = op[p].spec,
                                       !.key = op[p].key, !.rev = durable.rev,
                                       !.pending = "ensure"]
    <2>1. durable.gen < MaxGen /\ (durable.gen > 0 => durable.retired)
      BY <1>3 DEF CommitAllocation, PreparedBesideRetired
    <2>2. durable.gen + 1 \in 0 .. MaxGen
      BY <2>1, BoundAssumption DEF Binding
    <2>3. c \in Binding /\ c.gen = durable.gen + 1 /\ c.rev = durable.rev
            /\ c.pending = "ensure"
      BY <2>2, RegistryBlanks DEF Binding, OpState, NoBinding, Intents
    <2>4. durable'.gen = durable.gen + 1 /\ durable'.rev = durable.rev + 1
            /\ durable'.pending = "ensure"
      <3>. HIDE DEF c
      <3>1. durable' = Saved(c)
        BY <1>3 DEF CommitAllocation, c
      <3>. QED
        BY <2>3, <3>1, SavedType
    <2>5. durable = NoBinding \/ durable.retired
      BY <2>1 DEF RecordWellFormed, Binding
    <2>6. durable.pending # "destroy"
      BY <2>5 DEF RecordWellFormed, Loadable, NoBinding
    <2>. QED
      BY <2>4, <2>5, <2>6 DEF RecordStep
  <1>4. ASSUME NEW p \in Procs, op[p].pc = "wait", NEW r \in Status, r # Unknown, Outcome(p, r)
        PROVE  RecordStep
    <2>1. Live(durable)
      BY <1>4 DEF DrivenWhileLive
    <2>2. Advanced(durable, durable', r)
      BY <1>4, <2>1, DrivenAdvances, RecoveredAdvances DEF Outcome
    <2>. QED
      BY <2>1, <2>2 DEF Advanced, RecordStep, AllocationOf
  <1>5. ASSUME NEW p \in Procs, Answer(p) \/ TimeoutCall(p)
        PROVE  RecordStep
    <2>1. op[p].pc = "wait"
      BY <1>5 DEF Answer, TimeoutCall
    <2>2. CASE Answer(p)
      <3>1. slot[op[p].slot].reply \in Status /\ slot[op[p].slot].reply # Unknown
        BY <2>1, <2>2, AwaitedReply DEF Answer, Receive
      <3>. QED
        BY <1>4, <2>1, <2>2, <3>1 DEF Answer
    <2>3. CASE TimeoutCall(p)
      BY <1>4, <2>1, <2>3, ReplyTypes DEF TimeoutCall, Error, Unknown
    <2>. QED
      BY <1>5, <2>2, <2>3
  <1>6. \/ durable' = durable
        \/ \E p \in Procs :
              \/ \E h \in Gens, intent \in Intents \ {"ensure"} : Command(p, h, intent)
              \/ CommitAllocation(p) \/ Answer(p) \/ TimeoutCall(p)
    BY DEF Next, RegistryStep, Caller, Continue, EnsureExisting, EnsureNew, Reconcile,
           RecoverHandle, Initialize, ReturnExpired, Issue, Abandon, Tick, registryVars
  <1>. QED
    BY <1>1, <1>2, <1>3, <1>5, <1>6

\* Every durable change is exactly one revision.
THEOREM RevisionPerChangeAlways == Spec => RevisionPerChange
  <1>1. RegistryInv /\ [Next]_vars
          => [durable' # durable => durable'.rev = durable.rev + 1]_vars
    BY RecordSteps DEF RecordStep
  <1>. QED
    BY <1>1, RegistryInvariant, PTL DEF Spec, RevisionPerChange

\* The allocation of a generation never changes, and replacement starts from a
\* retired record.
THEOREM AllocationFixedAlways == Spec => AllocationFixed
  <1>1. RegistryInv /\ [Next]_vars
          => [\/ AllocationOf(durable') = AllocationOf(durable)
              \/ /\ durable'.gen = durable.gen + 1
                 /\ durable = NoBinding \/ durable.retired]_vars
    BY RecordSteps DEF RecordStep
  <1>. QED
    BY <1>1, RegistryInvariant, PTL DEF Spec, AllocationFixed

\* A committed destroy is never superseded.
THEOREM DestroyWinsAlways == Spec => DestroyWins
  <1>1. RegistryInv /\ [Next]_vars
          => [durable.pending = "destroy" =>
                 \/ durable'.pending = "destroy" /\ durable'.gen = durable.gen
                 \/ durable'.retired /\ durable'.gen = durable.gen]_vars
    BY RecordSteps DEF RecordStep
  <1>. QED
    BY <1>1, RegistryInvariant, PTL DEF Spec, DestroyWins

-----------------------------------------------------------------------------
(* Theorem: the host sees one machine after another *)

\* The provider makes or loses one container, or completes one destroy.
ComputeShare ==
    \/ /\ \A g \in Gens : ledger'[g].destroyed <=> ledger[g].destroyed
       /\ \E g \in Gens : /\ \A h \in Gens \ {g} : container'[h] = container[h]
                          /\ stray' = stray \/ stray' = stray \cup {g}
    \/ /\ container' = container /\ stray' = stray
       /\ \E g \in Gens :
             /\ container[g] = "absent" /\ ledger[g].destroying
             /\ ~ledger[g].destroyed /\ ledger'[g].destroyed
             /\ \A h \in Gens \ {g} : ledger'[h].destroyed <=> ledger[h].destroyed

LEMMA ProviderShare ==
  ASSUME ProviderInv, ProviderStep
  PROVE  ComputeShare
  <1>. USE DEF ProviderInv
  <1>1. CASE ledger' = ledger
    <2>1. ASSUME NEW g \in Gens, NEW e, container' = [container EXCEPT ![g] = e],
                 stray' = stray \/ stray' = stray \cup {g}
          PROVE  ComputeShare
      BY <1>1, <2>1 DEF ComputeShare, ProviderTypeOK
    <2>2. CASE container' = container /\ stray' = stray
      BY <1>1, <2>2, BoundAssumption DEF ComputeShare, Gens
    <2>3. ASSUME NEW s \in Slots, RunCommand(s, slot[s].alloc.gen), stray' = stray
          PROVE  ComputeShare
      BY <2>1, <2>3, CallGen DEF RunCommand
    <2>4. ASSUME NEW c \in late, LateLand(c)
          PROVE  ComputeShare
      BY <2>1, <2>4 DEF LateLand, ProviderTypeOK
    <2>5. ASSUME NEW g \in Gens, WorkerHealth(g) \/ WorkerExit(g) \/ ContainerLost(g)
          PROVE  ComputeShare
      BY <2>1, <2>5 DEF WorkerHealth, WorkerExit, ContainerLost
    <2>6. ASSUME NEW s \in Slots, Operation(s) \/ Fail(s)
          PROVE  /\ container' = container \/ RunCommand(s, slot[s].alloc.gen)
                 /\ stray' = stray
      BY <2>6
      DEF Operation, AdmitReject, AdmitTombstone, AdmitRun, Probe, Create, MarkCreated,
          Missing, SwitchPower, Look, Clear, Remove, Tomb, Fail
    <2>. QED
      BY <2>2, <2>3, <2>4, <2>5, <2>6 DEF ProviderStep
  <1>2. ASSUME NEW s \in Slots, MarkCreated(s)
        PROVE  ComputeShare
    <2>1. slot[s].alloc.gen \in Gens /\ ledger[slot[s].alloc.gen] \in Record
      BY CallGen DEF ProviderTypeOK
    <2>2. \A g \in Gens : ledger'[g].destroyed <=> ledger[g].destroyed
      BY <1>2, <2>1 DEF MarkCreated, ProviderTypeOK, Record
    <2>. QED
      BY <1>2, <2>1, <2>2 DEF MarkCreated, ComputeShare
  <1>3. ASSUME NEW s \in Slots, AdmitRun(s)
        PROVE  ComputeShare
    <2>. DEFINE g == slot[s].alloc.gen
    <2>1. g \in Gens /\ Recorded(s) \in Record
      BY <1>3, CallGen, RecordedType DEF AdmitRun
    <2>2. ~Recorded(s).destroyed /\ ~ledger[g].destroyed
      BY <1>3, <2>1 DEF AdmitRun, Accepted, Guarded, Recorded, ContainerRecorded
    <2>3. ledger' = [ledger EXCEPT ![g] =
                       [Recorded(s) EXCEPT !.destroying = @ \/ slot[s].op = "destroy"]]
      BY <1>3 DEF AdmitRun
    <2>4. \A h \in Gens : ledger'[h].destroyed <=> ledger[h].destroyed
      BY <2>1, <2>2, <2>3 DEF ProviderTypeOK, Record
    <2>. QED
      BY <1>3, <2>1, <2>4 DEF AdmitRun, ComputeShare
  <1>4. ASSUME NEW s \in Slots, Tomb(s), ledger' # ledger
        PROVE  ComputeShare
    <2>. DEFINE g == slot[s].alloc.gen
    <2>1. g \in Gens /\ ledger[g] \in Record
      BY CallGen DEF ProviderTypeOK
    <2>2. ledger[g].destroying /\ ~ledger[g].destroyed
      BY <1>4 DEF Tomb, WorkerRecorded, DestroyStages, Stages
    <2>3. container[g] = "absent" /\ container' = container /\ stray' = stray
            /\ ledger' = [ledger EXCEPT ![g] = [@ EXCEPT !.destroyed = TRUE]]
      BY <1>4 DEF Tomb
    <2>4. ledger'[g].destroyed /\ \A h \in Gens \ {g} : ledger'[h] = ledger[h]
      BY <2>1, <2>3 DEF ProviderTypeOK, Record
    <2>. QED
      BY <2>1, <2>2, <2>3, <2>4 DEF ComputeShare
  <1>5. \/ ledger' = ledger
        \/ \E s \in Slots : AdmitRun(s) \/ MarkCreated(s) \/ Tomb(s)
    BY DEF ProviderStep, Operation, AdmitReject, AdmitTombstone, Probe, Create, Missing,
           SwitchPower, Look, Clear, Remove, Fail, LateLand, WorkerHealth, WorkerExit,
           ContainerLost
  <1>. QED
    BY <1>1, <1>2, <1>3, <1>4, <1>5

\* A step changes the registry's record or what the provider holds, not both.
LEMMA OneSideMoves ==
  ASSUME RegistryInv, [Next]_vars
  PROVE  \/ durable' = durable /\ ComputeShare
         \/ /\ RecordStep
            /\ ledger' = ledger /\ container' = container /\ stray' = stray
  <1>1. CASE ProviderStep /\ UNCHANGED registryVars
    BY <1>1, ProviderShare DEF registryVars, RegistryInv
  <1>2. CASE UNCHANGED vars
    BY <1>2 DEF vars, providerVars, registryVars, RecordStep
  <1>3. CASE Tick \/ \E p \in Procs : RegistryStep(p)
    <2>1. ClientStep \/ UNCHANGED providerVars
      BY <1>3, RegistryIsClient
    <2>2. ledger' = ledger /\ container' = container /\ stray' = stray
      BY <2>1 DEF ClientStep, Submit, Receive, Orphan, ClientDown, Expire, providerVars
    <2>. QED
      BY <1>3, <2>2, RecordSteps DEF Next
  <1>. QED
    BY <1>1, <1>2, <1>3 DEF Next

\* Moving one generation to another station is a step of the abstract machine.
LEMMA LifeMoves ==
  ASSUME NEW g \in Gens, NEW to, Life(g)' = to,
         container' = container, stray' = stray,
         \A h \in Gens \ {g} : Life(h)' = Life(h)
  PROVE  Compute!Move(g, Life(g), to)
  BY DEF Compute!Move, Compute!Generations, Present

\* The record of an uncommitted generation is blank, that of an older one is
\* entombed; machines and strays are of the stations they may be of.
LEMMA LifeOfLedger ==
  ASSUME RegistryInv, NEW g \in Gens
  PROVE  /\ g \in Present \ stray => Life(g) \in {"planned", "condemned"}
         /\ g \in stray => Life(g) \in {"gone", "retired"} /\ ledger[g].destroyed
         /\ ledger[g].destroyed /\ Life(g) \notin {"retired"} => Life(g) = "gone"
         /\ ledger[g].destroying /\ ~ledger[g].destroyed => Life(g) = "condemned"
  <1>1. durable.gen \in 0 .. MaxGen /\ g \in 1 .. MaxGen /\ MaxGen \in Nat
    BY BoundAssumption DEF RegistryInv, TypeOK, Binding, Gens
  <1>2. /\ g \in Present \ stray => ledger[g].known /\ ~ledger[g].destroyed
        /\ g \in stray => ledger[g].destroyed
    BY DEF RegistryInv, ProviderInv, ContainerRecorded, Present
  <1>3. /\ ledger[g].destroyed => ledger[g].destroying
        /\ ledger[g].destroying => ledger[g].known
    BY DEF RegistryInv, ProviderInv, ContainerRecorded
  <1>4. /\ g < durable.gen => ledger[g].destroyed
        /\ g = durable.gen /\ durable.retired => ledger[g].destroyed
        /\ g > durable.gen => ~ledger[g].known
    BY DEF RegistryInv, LedgerFollows
  <1>5. g = durable.gen /\ ~durable.retired /\ ledger[g].destroying
          => durable.pending = "destroy"
    BY DEF RegistryInv, DestroyCommitted
  <1>. QED
    BY <1>1, <1>2, <1>3, <1>4, <1>5 DEF Life

\* Every step of the registry and provider is a step of WorkspaceCompute.
LEMMA ComputeStep ==
  ASSUME RegistryInv, RegistryInv', [Next]_vars
  PROVE  [Compute!ComputeNext]_(Compute!computeVars)
  <1>. DEFINE Goal == Compute!ComputeNext \/ UNCHANGED Compute!computeVars
  <1>1. durable.gen \in 0 .. MaxGen /\ durable'.gen \in 0 .. MaxGen /\ MaxGen \in Nat
    BY BoundAssumption DEF RegistryInv, TypeOK, Binding
  <1>2. ASSUME \A g \in Gens : Life(g)' = Life(g), container' = container, stray' = stray
        PROVE  Goal
    BY <1>2 DEF Compute!computeVars, Present
  <1>3. CASE durable' = durable /\ ComputeShare
    <2>1. ASSUME \A h \in Gens : ledger'[h].destroyed <=> ledger[h].destroyed,
                 NEW g \in Gens, \A h \in Gens \ {g} : container'[h] = container[h],
                 stray' = stray \/ stray' = stray \cup {g}
          PROVE  Goal
      <3>1. \A h \in Gens : Life(h)' = Life(h)
        BY <1>3, <2>1 DEF Life
      <3>2. /\ Compute!Vanish(g) \/ Compute!Appear(g) \/ Compute!Stray(g) => Compute!ComputeNext
            /\ \A h \in Gens \ {g} : h \in Present' <=> h \in Present
        BY <2>1 DEF Compute!ComputeNext, Compute!Generations, Gens, Present
      <3>3. CASE g \notin Present'
        <4>1. Compute!Vanish(g)
          BY <2>1, <3>1, <3>2, <3>3 DEF Compute!Vanish, Present
        <4>. QED
          BY <3>2, <4>1
      <3>4. CASE g \in Present' /\ g \notin stray'
        <4>1. Life(g) \in {"planned", "condemned"}
          <5>1. (g \in Present \ stray => Life(g) \in {"planned", "condemned"})'
            BY LifeOfLedger, PTL
          <5>. QED
            BY <3>1, <3>4, <5>1
        <4>2. Compute!Appear(g)
          BY <2>1, <3>1, <3>2, <3>4, <4>1 DEF Compute!Appear, Present
        <4>. QED
          BY <3>2, <4>2
      <3>5. CASE g \in Present' /\ g \in stray'
        <4>1. Life(g) \in {"gone", "retired"} /\ ledger[g].destroyed
          <5>1. (g \in stray => Life(g) \in {"gone", "retired"} /\ ledger[g].destroyed)'
            BY LifeOfLedger, PTL
          <5>. QED
            BY <2>1, <3>1, <3>5, <5>1
        <4>2. g \notin Present \ stray
          BY <4>1 DEF RegistryInv, ProviderInv, ContainerRecorded, Present
        <4>3. Compute!Stray(g)
          BY <2>1, <3>1, <3>2, <3>5, <4>1, <4>2 DEF Compute!Stray, Present
        <4>. QED
          BY <3>2, <4>3
      <3>. QED
        BY <3>3, <3>4, <3>5
    <2>2. ASSUME NEW g \in Gens, container' = container, stray' = stray,
                 container[g] = "absent",
                 ledger[g].destroying, ~ledger[g].destroyed, ledger'[g].destroyed,
                 \A h \in Gens \ {g} : ledger'[h].destroyed <=> ledger[h].destroyed
          PROVE  Goal
      <3>1. Life(g) = "condemned"
        BY <2>2, LifeOfLedger
      <3>2. Life(g)' = "gone"
        BY <1>3, <2>2, <3>1 DEF Life
      <3>3. \A h \in Gens \ {g} : Life(h)' = Life(h)
        BY <1>3, <2>2 DEF Life
      <3>4. Compute!Move(g, "condemned", "gone")
        BY <2>2, <3>1, <3>2, <3>3, LifeMoves
      <3>5. Compute!Bury(g)
        BY <2>2, <3>4 DEF Compute!Bury, Present
      <3>. QED
        BY <3>5 DEF Compute!ComputeNext, Compute!Generations, Gens
    <2>. QED
      BY <1>3, <2>1, <2>2 DEF ComputeShare
  <1>4. CASE RecordStep /\ ledger' = ledger /\ container' = container /\ stray' = stray
    <2>1. CASE durable' = durable
      BY <1>2, <1>4, <2>1 DEF Life
    <2>2. CASE /\ Live(durable) /\ durable'.gen = durable.gen
               /\ durable.pending = "destroy" => durable'.pending = "destroy" \/ durable'.retired
      <3>1. PICK g \in Gens : g = durable.gen /\ ~durable.retired
        BY <1>1, <2>2 DEF Live, Loadable, Gens
      <3>2. \A h \in Gens \ {g} : Life(h)' = Life(h)
        BY <1>1, <1>4, <2>2, <3>1 DEF Life, Gens
      <3>3. CASE durable'.retired
        <4>1. ledger[g].destroyed
          BY <1>4, <2>2, <3>1, <3>3 DEF RegistryInv, LedgerFollows
        <4>2. Life(g) = "gone" /\ Life(g)' = "retired"
          BY <1>1, <2>2, <3>1, <3>3, <4>1 DEF Life
        <4>3. Compute!Retire(g)
          BY <1>4, <3>1, <3>2, <4>2, LifeMoves DEF Compute!Retire
        <4>. QED
          BY <3>1, <4>3 DEF Compute!ComputeNext, Compute!Generations, Gens
      <3>4. CASE ~durable'.retired /\ Life(g)' # Life(g)
        <4>1. Life(g) = "planned" /\ Life(g)' = "condemned"
          BY <1>1, <1>4, <2>2, <3>1, <3>4 DEF Life
        <4>2. Compute!Condemn(g)
          BY <1>4, <3>1, <3>2, <4>1, LifeMoves DEF Compute!Condemn
        <4>. QED
          BY <3>1, <4>2 DEF Compute!ComputeNext, Compute!Generations, Gens
      <3>5. CASE Life(g)' = Life(g)
        BY <1>2, <1>4, <3>2, <3>5
      <3>. QED
        BY <3>3, <3>4, <3>5
    <2>3. CASE /\ durable = NoBinding \/ durable.retired
               /\ durable'.gen = durable.gen + 1 /\ durable'.pending = "ensure"
      <3>1. PICK g \in Gens : g = durable.gen + 1
        BY <1>1, <2>3 DEF Gens
      <3>2. ~ledger[g].destroyed
        <4>1. ~ledger[g].known
          BY <1>1, <3>1 DEF RegistryInv, LedgerFollows
        <4>. QED
          BY <3>1, <4>1 DEF RegistryInv, ProviderInv, ContainerRecorded
      <3>3. ~durable'.retired
        BY <1>4, <2>3, <3>1, <3>2 DEF RegistryInv, LedgerFollows
      <3>4. Life(g) = "none" /\ Life(g)' = "planned"
        BY <1>1, <1>4, <2>3, <3>1, <3>2, <3>3 DEF Life
      <3>5. \A h \in Gens : h < g => Life(h) = "retired"
        BY <1>1, <2>3, <3>1 DEF Life, Gens, NoBinding
      <3>6. \A h \in Gens \ {g} : Life(h)' = Life(h)
        BY <1>1, <1>4, <2>3, <3>1 DEF Life, Gens, NoBinding
      <3>7. Compute!Plan(g)
        BY <1>4, <3>1, <3>4, <3>5, <3>6, LifeMoves DEF Compute!Plan, Compute!Generations, Gens
      <3>. QED
        BY <3>1, <3>7 DEF Compute!ComputeNext, Compute!Generations, Gens
    <2>. QED
      BY <1>4, <2>1, <2>2, <2>3 DEF RecordStep
  <1>. QED
    BY <1>3, <1>4, OneSideMoves

\* The workspace's machines come one after the other, each after the confirmed
\* destruction of the one before.
THEOREM ComputeImplemented == Spec => OneMachineAfterAnother
  <1>1. Init => Compute!ComputeInit
    BY BoundAssumption
    DEF Init, ProviderInit, NoBinding, Life, Gens, Present, Compute!ComputeInit,
        Compute!Generations
  <1>2. RegistryInv /\ RegistryInv' /\ [Next]_vars
          => [Compute!ComputeNext]_(Compute!computeVars)
    BY ComputeStep
  <1>. QED
    BY <1>1, <1>2, RegistryInvariant, PTL DEF Spec, OneMachineAfterAnother, Compute!ComputeSpec
=============================================================================
