---------------------------- MODULE CloudRuntime ----------------------------
(***************************************************************************)
(* neoism-cloud-runtime's Runtime (registry.rs) for one workspace, on top  *)
(* of the provider of MachineProvider, with the allocation initializer of  *)
(* neoism-cloud-host (manager.rs, signing.rs).                             *)
(*                                                                         *)
(* Several coordinators share the durable registry record.  An operation   *)
(* takes the workspace's nonblocking file lock and keeps it across load,   *)
(* intent commit, provider call and result commit; a coordinator may die   *)
(* or be cancelled at any await, which releases the lock and leaves the    *)
(* committed intent and the call behind.                                   *)
(***************************************************************************)
EXTENDS MachineProvider

CONSTANTS
    Procs,      \* coordinators that share the registry directory
    NoProc,     \* "nobody holds the workspace's lock"
    MaxRev      \* bound: no new intent once the record has this revision

ASSUME ProcAssumption == NoProc \notin Procs
ASSUME RevAssumption == MaxRev \in Nat

Intents == {"ensure", "start", "stop", "destroy"}

\* gen = 0: there is no record yet.  err is last_error.is_some().
Binding == [gen : 0 .. MaxGen, spec : Specs, key : Keys, rev : Nat,
            status : Status, pending : Intents \cup {"none"}, err : BOOLEAN,
            retired : BOOLEAN]

\* idle, or the await the operation stands at: the initializer, the first save,
\* the provider call about to be made, the provider's answer.
OpState == [pc : {"idle", "init", "commit", "drive", "wait"},
            mode : {"drive", "recover"}, slot : Slots \cup {NoSlot},
            spec : Specs, key : Keys]

VARIABLES
    durable,    \* the registry record
    lock,       \* the coordinator holding the workspace's lock file
    op,         \* coordinator -> OpState
    authority,  \* generation -> signing authority in the key store, 0: none
    nextKey     \* the next fresh signing authority

registryVars == <<durable, lock, op, authority, nextKey>>
vars == <<providerVars, registryVars>>

NoSpec == CHOOSE sp \in Specs : TRUE
Idle == [pc |-> "idle", mode |-> "drive", slot |-> NoSlot, spec |-> NoSpec,
         key |-> 0]
NoBinding == [gen |-> 0, spec |-> NoSpec, key |-> 0, rev |-> 0,
              status |-> Unknown, pending |-> "none", err |-> FALSE,
              retired |-> FALSE]

TypeOK ==
    /\ ProviderTypeOK
    /\ durable \in Binding
    /\ lock \in Procs \cup {NoProc}
    /\ op \in [Procs -> OpState]
    /\ authority \in [Gens -> Keys]
    /\ nextKey \in 1 .. MaxKey + 1

Init ==
    /\ ProviderInit
    /\ durable = NoBinding
    /\ lock = NoProc
    /\ op = [p \in Procs |-> Idle]
    /\ authority = [g \in Gens |-> 0]
    /\ nextKey = 1

-----------------------------------------------------------------------------
(* The record *)

\* What load accepts; anything else is Corrupt.
Loadable(b) ==
    /\ b.gen > 0 /\ b.rev > 0
    /\ b.retired <=> b.status.state = "destroyed"
    /\ b.retired => b.pending = "none"
    /\ b.status = Unknown => b.pending = "ensure"

Saved(b) == [b EXCEPT !.rev = @ + 1]

SavedIfChanged(b, previous) == IF b = previous THEN b ELSE Saved(b)

AllocationOf(b) == [gen |-> b.gen, spec |-> b.spec, key |-> b.key]

\* A record that can be loaded and is not retired.
Live(b) == Loadable(b) /\ ~b.retired

\* launch.validate_active; an allocation without descriptor has no lease.
Active(key) == key \notin expired

-----------------------------------------------------------------------------
(* Entering an operation: the lock is free, the record is loaded *)

Enter(p, state) ==
    /\ lock = NoProc
    /\ lock' = p
    /\ op' = [op EXCEPT ![p] = state]

Return(p) ==
    /\ lock' = NoProc
    /\ op' = [op EXCEPT ![p] = Idle]

Driving(mode) == [Idle EXCEPT !.pc = "drive", !.mode = mode]

\* ensure, ensure_with_initializer (init): the live allocation is driven on.
EnsureExisting(p, sp, init) ==
    /\ Live(durable)
    /\ durable.spec = sp
    /\ Active(durable.key)
    /\ init => durable.key # 0
    /\ Enter(p, Driving("drive"))
    /\ UNCHANGED <<providerVars, durable, authority, nextKey>>

\* Variant: a machine being destroyed is replaced before that is confirmed.
EnsureNewEarly(p, sp, init) ==
    /\ \/ durable = NoBinding
       \/ Loadable(durable) /\ (durable.retired \/ durable.pending = "destroy")
    /\ durable.gen < MaxGen /\ durable.rev < MaxRev
    /\ Enter(p, [Idle EXCEPT !.pc = IF init THEN "init" ELSE "commit",
                             !.spec = sp])
    /\ UNCHANGED <<providerVars, durable, authority, nextKey>>

\* No record, or a retired one: the next generation is prepared.
EnsureNew(p, sp, init) ==
    /\ durable = NoBinding \/ (Loadable(durable) /\ durable.retired)
    /\ durable.gen < MaxGen /\ durable.rev < MaxRev
    /\ Enter(p, [Idle EXCEPT !.pc = IF init THEN "init" ELSE "commit",
                             !.spec = sp])
    /\ UNCHANGED <<providerVars, durable, authority, nextKey>>

\* Variant: an intent whose last attempt failed is not replayed.
ReconcileUnfailed(p) ==
    /\ Live(durable) /\ ~durable.err
    /\ Enter(p, Driving(IF ~Active(durable.key)
                           /\ durable.pending \in {"ensure", "start"}
                        THEN "recover" ELSE "drive"))
    /\ UNCHANGED <<providerVars, durable, authority, nextKey>>

\* Replay the durable intent, or inspect; an expired launch is only inspected.
Reconcile(p) ==
    /\ Live(durable)
    /\ Enter(p, Driving(IF ~Active(durable.key)
                           /\ durable.pending \in {"ensure", "start"}
                        THEN "recover" ELSE "drive"))
    /\ UNCHANGED <<providerVars, durable, authority, nextKey>>

\* Inspect only.
RecoverHandle(p) ==
    /\ Live(durable)
    /\ Enter(p, Driving("recover"))
    /\ UNCHANGED <<providerVars, durable, authority, nextKey>>

\* Variant: any intent supersedes any other.
CommandSuperseding(p, h, intent) ==
    /\ Live(durable)
    /\ durable.status # Unknown /\ durable.gen = h
    /\ intent = "start" => Active(durable.key)
    /\ durable.rev < MaxRev
    /\ Enter(p, Driving("drive"))
    /\ durable' = Saved([durable EXCEPT !.pending = intent, !.err = FALSE])
    /\ UNCHANGED <<providerVars, authority, nextKey>>

\* start, stop, destroy of the machine handle of generation h: the intent is
\* committed before the provider is called.
Command(p, h, intent) ==
    /\ Live(durable)
    /\ durable.status # Unknown /\ durable.gen = h
    /\ intent = "start" => Active(durable.key)
    /\ intent = "destroy" \/ durable.pending \in {"none", intent}
    /\ durable.rev < MaxRev
    /\ Enter(p, Driving("drive"))
    /\ durable' = Saved([durable EXCEPT !.pending = intent, !.err = FALSE])
    /\ UNCHANGED <<providerVars, authority, nextKey>>

-----------------------------------------------------------------------------
(* ensure of a new generation *)

\* Variant: the fresh authority is used without having been persisted.
InitializeUnpersisted(p) ==
    LET g == durable.gen + 1
        fresh == authority[g] = 0 \/ ~Active(authority[g])
    IN  /\ op[p].pc = "init"
        /\ fresh => nextKey <= MaxKey
        /\ nextKey' = IF fresh THEN nextKey + 1 ELSE nextKey
        /\ op' = [op EXCEPT ![p].pc = "commit",
                            ![p].key = IF fresh THEN nextKey ELSE authority[g]]
        /\ UNCHANGED <<providerVars, durable, lock, authority>>

\* WorkspaceHost::initialize: the generation's authority is loaded or created;
\* an expired one, necessarily of an abandoned preparation, is replaced.
Initialize(p) ==
    LET g == durable.gen + 1
        fresh == authority[g] = 0 \/ ~Active(authority[g])
    IN  /\ op[p].pc = "init"
        /\ fresh => nextKey <= MaxKey
        /\ authority' = [authority EXCEPT ![g] = IF fresh THEN nextKey ELSE @]
        /\ nextKey' = IF fresh THEN nextKey + 1 ELSE nextKey
        /\ op' = [op EXCEPT ![p].pc = "commit", ![p].key = authority'[g]]
        /\ UNCHANGED <<providerVars, durable, lock>>

\* The allocation and its ensure intent are committed.
CommitAllocation(p) ==
    /\ op[p].pc = "commit"
    /\ Active(op[p].key)
    /\ durable' = Saved([NoBinding EXCEPT !.gen = durable.gen + 1,
                                          !.spec = op[p].spec,
                                          !.key = op[p].key,
                                          !.rev = durable.rev,
                                          !.pending = "ensure"])
    /\ op' = [op EXCEPT ![p] = Driving("drive")]
    /\ UNCHANGED <<providerVars, lock, authority, nextKey>>

-----------------------------------------------------------------------------
(* drive and inspect_for_recovery *)

NeedsLease(p) ==
    \/ op[p].pc = "commit"
    \/ /\ op[p].pc = "drive" /\ op[p].mode = "drive"
       /\ durable.pending \in {"ensure", "start"}

\* The lease ran out since the operation began: ExpiredLaunch.
ReturnExpired(p) ==
    /\ NeedsLease(p)
    /\ ~Active(IF op[p].pc = "commit" THEN op[p].key ELSE durable.key)
    /\ Return(p)
    /\ UNCHANGED <<providerVars, durable, authority, nextKey>>

\* Slots are interchangeable, so a new call takes a definite free one.
NextSlot == CHOOSE s \in Slots : slot[s].phase = "free"

\* The provider is called: the pending intent, or an inspection.
Issue(p, s) ==
    LET call == IF op[p].mode = "recover" \/ durable.pending = "none"
                THEN "inspect" ELSE durable.pending
        handle == IF call = "ensure" \/ durable.status = Unknown
                  THEN 0 ELSE durable.gen
    IN  /\ op[p].pc = "drive"
        /\ s = NextSlot
        /\ NeedsLease(p) => Active(durable.key)
        /\ Submit(s, call, AllocationOf(durable), handle)
        /\ op' = [op EXCEPT ![p].pc = "wait", ![p].slot = s]
        /\ UNCHANGED <<durable, lock, authority, nextKey>>

\* Has the provider done what the intent asked for?
Complete(intent, state) ==
    CASE intent = "ensure" -> state # "provisioning"
      [] intent = "start" -> state = "running"
      [] intent = "stop" -> state = "stopped"
      [] intent = "destroy" -> state = "destroyed"
      [] intent = "none" -> TRUE

\* Variants: a failed intent is dropped; a missing machine passes for a
\* destroyed one.
DrivenForgetsFailure(b, r) ==
    SavedIfChanged([b EXCEPT !.pending = "none",
                             !.status = IF r = Error THEN @ ELSE r,
                             !.retired = r.state = "destroyed"], b)

DrivenMissingIsDestroyed(b, r) ==
    LET gone == r.state = "destroyed" \/ (r = Error /\ b.pending = "destroy")
    IN  IF r = Error /\ ~gone
        THEN SavedIfChanged([b EXCEPT !.err = TRUE], b)
        ELSE SavedIfChanged([b EXCEPT !.status = IF gone THEN Dead ELSE r,
                                      !.retired = gone,
                                      !.pending = IF gone \/ Complete(@, r.state)
                                                  THEN "none" ELSE @,
                                      !.err = FALSE], b)

\* drive's result: the new record for the provider's answer r.
Driven(b, r) ==
    IF r = Error \/ (r.state = "destroyed" /\ b.pending # "destroy")
    THEN SavedIfChanged([b EXCEPT !.err = TRUE], b)
    ELSE SavedIfChanged([b EXCEPT !.status = r,
                                  !.retired = r.state = "destroyed",
                                  !.pending = IF Complete(@, r.state)
                                              THEN "none" ELSE @,
                                  !.err = FALSE], b)

\* inspect_for_recovery's result: retirement is never inferred, and the
\* pending intent and the error stay.
Recovered(b, r) ==
    IF r = Error \/ r.state = "destroyed" THEN b
    ELSE SavedIfChanged([b EXCEPT !.status = r], b)

Outcome(p, r) ==
    /\ durable' = IF op[p].mode = "drive" THEN Driven(durable, r)
                  ELSE Recovered(durable, r)
    /\ Return(p)
    /\ UNCHANGED <<authority, nextKey>>

\* The provider's answer arrives.
Answer(p) ==
    /\ op[p].pc = "wait"
    /\ Receive(op[p].slot)
    /\ Outcome(p, slot[op[p].slot].reply)

\* The transport gives up on the answer; the remote operation goes on.
TimeoutCall(p) ==
    /\ op[p].pc = "wait"
    /\ Orphan(op[p].slot)
    /\ Outcome(p, Error)

\* The coordinator crashes, its future is dropped, or a save fails: the lock
\* is released, and what is durable stays.
Abandon(p) ==
    /\ op[p].pc # "idle"
    /\ IF op[p].pc = "wait" THEN Orphan(op[p].slot) ELSE ClientDown
    /\ Return(p)
    /\ UNCHANGED <<durable, authority, nextKey>>

-----------------------------------------------------------------------------

Caller(p) ==
    \/ \E sp \in Specs, init \in BOOLEAN :
          EnsureExisting(p, sp, init) \/ EnsureNew(p, sp, init)
    \/ Reconcile(p) \/ RecoverHandle(p)
    \/ \E h \in Gens, intent \in Intents \ {"ensure"} : Command(p, h, intent)

\* An operation that has begun goes on without its caller's doing.
Continue(p) ==
    \/ Initialize(p) \/ CommitAllocation(p) \/ ReturnExpired(p)
    \/ \E s \in Slots : Issue(p, s)
    \/ Answer(p)

RegistryStep(p) == Caller(p) \/ Continue(p) \/ TimeoutCall(p) \/ Abandon(p)

\* Only a lease that has been granted can run out.
Tick == (\E k \in 1 .. nextKey - 1 : Expire(k)) /\ UNCHANGED registryVars

Next ==
    \/ \E p \in Procs : RegistryStep(p)
    \/ ProviderStep /\ UNCHANGED registryVars
    \/ Tick

Spec == Init /\ [][Next]_vars

\* The provider works off its calls, an operation that has begun goes on, and
\* somebody keeps reconciling although other coordinators may hold the lock.
Fairness ==
    /\ \A s \in Slots : WF_vars(Operation(s) /\ UNCHANGED registryVars)
    /\ \A p \in Procs : WF_vars(Continue(p))
    /\ \E p \in Procs : SF_vars(Reconcile(p))

FairSpec == Spec /\ Fairness

-----------------------------------------------------------------------------
(* The inductive invariant of the registry *)

\* An operation is under way exactly in the coordinator that holds the lock.
LockHeldByOperation ==
    \A p \in Procs : op[p].pc # "idle" <=> lock = p

\* Every record a coordinator can find is loadable, and without a record there
\* is nothing in the registry.
RecordWellFormed ==
    IF durable.gen = 0 THEN durable = NoBinding ELSE Loadable(durable)

\* A new generation is prepared only beside a retired record or none.
PreparedBesideRetired ==
    \A p \in Procs : op[p].pc \in {"init", "commit"} =>
        /\ durable.gen < MaxGen
        /\ durable.gen > 0 => durable.retired
        /\ op[p].pc = "commit" => op[p].key \in {0, authority[durable.gen + 1]}

\* A record is driven only while it is live, and the answer awaited is the
\* answer to a call for its allocation.
DrivenWhileLive ==
    \A p \in Procs :
        /\ op[p].pc \in {"drive", "wait"} => Live(durable)
        /\ op[p].pc = "wait" =>
              /\ op[p].slot \in Slots
              /\ slot[op[p].slot].phase # "free" /\ ~slot[op[p].slot].orphan
              /\ slot[op[p].slot].alloc = AllocationOf(durable)

\* No call, however late, is for a generation that was never committed.
CallsCommitted ==
    \A s \in Slots :
        slot[s].phase # "free" => slot[s].alloc.gen <= durable.gen

\* The provider destroys the current generation only for a committed destroy.
DestroyCommitted ==
    ~durable.retired =>
        /\ \A s \in Slots :
              slot[s].phase = "queued" /\ slot[s].op = "destroy"
                 /\ slot[s].alloc.gen = durable.gen => durable.pending = "destroy"
        /\ \A g \in Gens :
              g = durable.gen /\ ledger[g].destroying
                 => durable.pending = "destroy"

\* The ledger's side of RetiredIsGone and GenerationFence.
LedgerFollows ==
    \A g \in Gens :
        /\ g < durable.gen => ledger[g].destroyed
        /\ g = durable.gen /\ durable.retired => ledger[g].destroyed
        /\ g > durable.gen => ~ledger[g].known

-----------------------------------------------------------------------------
(* Properties *)

\* The provider holds the tombstone of g, and nothing is left of the machine
\* but what a late create may have made of it since.
Gone(g) == ledger[g].destroyed /\ (container[g] = "absent" \/ g \in stray)

\* A retired record is the truth: its generation is gone, for good.
RetiredIsGone == durable.retired => Gone(durable.gen)

\* Replacement only after confirmed destruction: every generation older than
\* the record's is gone, and nothing newer has reached the provider.
GenerationFence ==
    \A g \in Gens :
        /\ g < durable.gen => Gone(g)
        /\ g > durable.gen => ~ledger[g].known

\* However an operation is cut off, the record it leaves can be loaded again.
RecordLoadable == durable.gen > 0 => Loadable(durable)

\* The committed launch descriptor and the key store name the same authority,
\* so tokens issued for the generation verify in its worker; a renewal never
\* hits a committed allocation.
SigningAgree ==
    durable.gen > 0 /\ durable.key # 0 => authority[durable.gen] = durable.key

RegistryInv ==
    /\ TypeOK
    /\ ProviderInv
    /\ RepliesGiven
    /\ LockHeldByOperation
    /\ RecordWellFormed
    /\ PreparedBesideRetired
    /\ DrivenWhileLive
    /\ CallsCommitted
    /\ DestroyCommitted
    /\ LedgerFollows
    /\ SigningAgree

\* What the host sees of the machines: the mapping to WorkspaceCompute.
Life(g) ==
    CASE g > durable.gen -> "none"
      [] g < durable.gen \/ (g = durable.gen /\ durable.retired) -> "retired"
      [] OTHER -> IF ledger[g].destroyed THEN "gone"
                  ELSE IF durable.pending = "destroy" THEN "condemned"
                  ELSE "planned"

Present == {g \in Gens : container[g] # "absent"}

Compute == INSTANCE WorkspaceCompute WITH
               life <- [g \in Gens |-> Life(g)],
               up <- Present \ stray,
               strays <- Present \cap stray

\* Through every crash, timeout and late call the host sees one machine after
\* the other, each begun only after the one before was confirmed destroyed, and
\* beside it at most the strays of destroyed generations.
OneMachineAfterAnother == Compute!ComputeSpec

\* An endpoint the record offers (worker_connection) belongs to a generation
\* whose destruction has not begun.
Routable(b) ==
    /\ Live(b)
    /\ b.pending = "none" /\ ~b.err /\ Active(b.key)
    /\ b.status.ready

RoutedMachineIsKept ==
    Routable(durable) => ~ledger[durable.gen].destroying

\* Revisions count durable changes: each change is one revision and there is
\* no revision without a change.
RevisionPerChange ==
    [][durable' # durable => durable'.rev = durable.rev + 1]_vars

\* Within a generation the allocation is immutable; the generation moves by
\* one, from a retired record only.
AllocationFixed ==
    [][\/ AllocationOf(durable') = AllocationOf(durable)
       \/ /\ durable'.gen = durable.gen + 1
          /\ durable = NoBinding \/ durable.retired]_vars

\* A destroy intent is superseded by nothing but its own confirmation.
DestroyWins ==
    [][durable.pending = "destroy" =>
          \/ durable'.pending = "destroy" /\ durable'.gen = durable.gen
          \/ durable'.retired /\ durable'.gen = durable.gen]_vars

\* "Ensure allocation only; it does not implicitly power on a stopped machine":
\* no ensure call switches on a machine whose record says it has been stopped.
EnsureNeverPowersOn ==
    [][\A s \in Slots :
          slot[s].phase = "power" /\ slot[s].op = "ensure"
             /\ slot'[s].phase = "look" /\ slot[s].alloc.gen = durable.gen
             /\ durable.pending = "none" /\ durable.status.state = "stopped"
          => container[durable.gen] \in Up]_vars

\* A committed destroy is eventually confirmed.
DestroyCompletes == durable.pending = "destroy" ~> durable.retired
=============================================================================
