--------------------------- MODULE MachineProvider ---------------------------
(***************************************************************************)
(* The container provider of neoism-cloud-host (docker.rs) for ONE         *)
(* workspace owner, and the calls that reach it.                           *)
(*                                                                         *)
(* A call is a slot: it is submitted by some client, may be delayed, lost, *)
(* or abandoned by its client while the provider goes on with it, and ends *)
(* in one reply.  `DockerDevelopmentProvider::operation' runs a call under *)
(* a nonblocking file lock; every `await' on the docker CLI is a separate  *)
(* phase here, so the environment (containers that exit, disappear or turn *)
(* healthy, launch descriptors that expire) acts between two of them.      *)
(***************************************************************************)
EXTENDS Naturals, FiniteSets

CONSTANTS
    Slots,      \* the calls that can be outstanding at one time
    NoSlot,     \* "nobody holds the provider's file lock"
    Specs,      \* machine specifications
    MaxGen,     \* bound: generations 1..MaxGen
    MaxKey,     \* bound: signing authorities 1..MaxKey
    MaxFaults,  \* bound: failed, lost or abandoned calls and lost containers
    Late        \* the docker commands that may land after their CLI is gone

ASSUME SlotAssumption == NoSlot \notin Slots
ASSUME BoundAssumption == /\ MaxGen \in Nat \ {0}
                          /\ MaxKey \in Nat
                          /\ MaxFaults \in Nat
ASSUME SpecAssumption == Specs # {}

\* The docker command that each working phase runs, if it changes a container.
Commands == {"create", "power", "halt", "clear", "remove"}

\* Any command may outlive its CLI, which alone is killed after 30 seconds; so
\* may `container create', which then lands on whatever has become of its name.
ASSUME LateAssumption == Late \subseteq Commands

Gens == 1 .. MaxGen
Keys == 0 .. MaxKey          \* key 0: an allocation without launch descriptor
Ops == {"ensure", "start", "inspect", "stop", "destroy"}
Stages == {"probe", "create", "mark", "power", "halt", "look", "clear",
           "remove", "tomb"}
ContainerStates == {"absent", "created", "running", "ready", "exited"}
Up == {"running", "ready"}
Down == {"created", "exited"}

Allocation == [gen : Gens, spec : Specs, key : Keys]
\* "unknown" is the absence of a status (Option::None); "error" is an Err reply.
Status == [state : {"unknown", "error", "provisioning", "running", "stopped",
                    "destroyed"},
           ready : BOOLEAN]
Unknown == [state |-> "unknown", ready |-> FALSE]
Error == [state |-> "error", ready |-> FALSE]
Dead == [state |-> "destroyed", ready |-> FALSE]

Record == [known : BOOLEAN, alloc : Allocation, destroying : BOOLEAN,
           destroyed : BOOLEAN, created : BOOLEAN]
Call == [phase : {"free", "queued", "replied"} \cup Stages, op : Ops,
         alloc : Allocation, handle : 0 .. MaxGen, orphan : BOOLEAN,
         reply : Status]

NoAlloc == [gen |-> 1, spec |-> CHOOSE sp \in Specs : TRUE, key |-> 0]
NoRecord == [known |-> FALSE, alloc |-> NoAlloc, destroying |-> FALSE,
             destroyed |-> FALSE, created |-> FALSE]
FreeSlot == [phase |-> "free", op |-> "inspect", alloc |-> NoAlloc,
             handle |-> 0, orphan |-> FALSE, reply |-> Unknown]

VARIABLES
    ledger,     \* generation -> durable Record
    container,  \* generation -> what docker has under that generation's name
    late,       \* docker commands in flight whose CLI has gone away, each with
                \* the number of the fault that took its CLI
    stray,      \* history: the destroyed generations whose container a late
                \* `container create' has made anew
    plock,      \* the slot that holds the owner's file lock
    slot,       \* slot -> Call
    expired,    \* the launch descriptors whose lease has run out
    faults      \* faults spent

providerVars == <<ledger, container, late, stray, plock, slot, expired, faults>>

ProviderTypeOK ==
    /\ ledger \in [Gens -> Record]
    /\ container \in [Gens -> ContainerStates]
    /\ late \subseteq Late \X Gens \X (1 .. MaxFaults)
    /\ stray \subseteq Gens
    /\ plock \in Slots \cup {NoSlot}
    /\ slot \in [Slots -> Call]
    /\ expired \subseteq Keys \ {0}
    /\ faults \in 0 .. MaxFaults

ProviderInit ==
    /\ ledger = [g \in Gens |-> NoRecord]
    /\ container = [g \in Gens |-> "absent"]
    /\ late = {}
    /\ stray = {}
    /\ plock = NoSlot
    /\ slot = [s \in Slots |-> FreeSlot]
    /\ expired = {}
    /\ faults = 0

-----------------------------------------------------------------------------
(* Helpers *)

\* What docker does to a container in state c when a phase's command lands.
Effect(phase, c) ==
    CASE phase = "create" /\ c = "absent" -> "created"
      [] phase = "power" /\ c \in Down -> "running"
      [] phase \in {"halt", "clear"} /\ c \in Up -> "exited"
      [] phase = "remove" /\ c \in Down -> "absent"
      [] OTHER -> c

\* Variant: docker's own state name passes for the machine state.
ObservedRaw(c) == [state |-> c, ready |-> c = "ready"]

\* status(): the machine status read off a container that is present.
Observed(c) ==
    [state |-> CASE c \in Up -> "running"
                 [] c = "created" -> "provisioning"
                 [] OTHER -> "stopped",
     ready |-> c = "ready"]

Spend == faults < MaxFaults /\ faults' = faults + 1

\* The reply r reaches the client, or nobody when the client has gone.
Answered(s, r) ==
    IF slot[s].orphan THEN FreeSlot
    ELSE [slot[s] EXCEPT !.phase = "replied", !.handle = 0, !.reply = r]

\* operation() returns r: the lock guard is dropped and the reply is sent.
Finish(s, r) ==
    /\ plock' = NoSlot
    /\ slot' = [slot EXCEPT ![s] = Answered(s, r)]

Goto(s, phase) ==
    /\ slot' = [slot EXCEPT ![s].phase = phase]
    /\ UNCHANGED plock

\* The docker command of this phase is run to its end on generation g.
RunCommand(s, g) ==
    container' = [container EXCEPT ![g] = Effect(slot[s].phase, @)]

-----------------------------------------------------------------------------
(* The client's side of a call, and the clock *)

\* A client sends op for allocation a, naming the machine handle h (0: none).
Submit(s, op, a, h) ==
    /\ slot[s].phase = "free"
    /\ slot' = [slot EXCEPT ![s] = [phase |-> "queued", op |-> op, alloc |-> a,
                                    handle |-> h, orphan |-> FALSE,
                                    reply |-> Unknown]]
    /\ UNCHANGED <<ledger, container, late, stray, plock, expired, faults>>

\* The client takes its reply.
Receive(s) ==
    /\ slot[s].phase = "replied"
    /\ slot' = [slot EXCEPT ![s] = FreeSlot]
    /\ UNCHANGED <<ledger, container, late, stray, plock, expired, faults>>

\* The client times out, is cancelled or dies.  "Cancellation of an HTTP
\* request is not cancellation of the remote operation": the call goes on.
Orphan(s) ==
    /\ slot[s].phase # "free" /\ ~slot[s].orphan
    /\ Spend
    /\ slot' = [slot EXCEPT ![s] = IF @.phase = "replied" THEN FreeSlot
                                   ELSE [@ EXCEPT !.orphan = TRUE]]
    /\ UNCHANGED <<ledger, container, late, stray, plock, expired>>

\* A client fails while it has no call outstanding.
ClientDown ==
    /\ Spend
    /\ UNCHANGED <<ledger, container, late, stray, plock, slot, expired>>

\* The lease of launch descriptor k runs out.
Expire(k) ==
    /\ k \notin expired
    /\ expired' = expired \cup {k}
    /\ UNCHANGED <<ledger, container, late, stray, plock, slot, faults>>

-----------------------------------------------------------------------------
(* operation(): the synchronous prefix, up to the first await *)

\* Variants: the predecessor need not be destroyed, or need only have begun to be.
MayRecordBesideLive(a) ==
    LET recorded == {g \in Gens : ledger[g].known}
    IN  /\ a.key \notin expired
        /\ recorded = {} => a.gen = 1
        /\ \A g \in recorded : a.gen > g

MayRecordOnceDestroying(a) ==
    /\ MayRecordBesideLive(a)
    /\ \A g \in Gens : ledger[g].known => ledger[g].destroying

\* A record may be inserted for generation 1 of an unused owner, or above the
\* last recorded generation once that one is destroyed.
MayRecord(a) ==
    LET recorded == {g \in Gens : ledger[g].known}
    IN  /\ a.key \notin expired
        /\ \/ recorded = {} /\ a.gen = 1
           \/ \E last \in recorded :
                 /\ \A g \in recorded : g <= last
                 /\ a.gen > last
                 /\ ledger[last].destroyed

\* Variant: every ensure inserts its record anew.
RecordedAnew(s) ==
    LET a == slot[s].alloc
    IN  IF slot[s].op = "ensure"
        THEN [NoRecord EXCEPT !.known = MayRecord(a) \/ ledger[a.gen].known,
                              !.alloc = a]
        ELSE ledger[a.gen]

\* The ledger record of call s once the insertion of a first ensure is done.
Recorded(s) ==
    LET a == slot[s].alloc
    IN  IF slot[s].op = "ensure" /\ ~ledger[a.gen].known
        THEN [NoRecord EXCEPT !.known = MayRecord(a), !.alloc = a]
        ELSE ledger[a.gen]

\* Variant: the owner's file lock is not taken.
GuardedUnlocked(s) ==
    LET a == slot[s].alloc
    IN  /\ a.key # 0
        /\ Recorded(s).known
        /\ Recorded(s).alloc = a
        /\ slot[s].handle \in {0, a.gen}

\* validate, lock and guard: the call may look at its record.
Guarded(s) ==
    LET a == slot[s].alloc
    IN  /\ a.key # 0
        /\ plock = NoSlot
        /\ Recorded(s).known
        /\ Recorded(s).alloc = a
        /\ slot[s].handle \in {0, a.gen}

\* Variant: a destroy that has begun passes for one that is done.
EntombedEarly(s) ==
    /\ Guarded(s)
    /\ Recorded(s).destroying
    /\ slot[s].op \in {"destroy", "inspect"}

Entombed(s) ==
    /\ Guarded(s)
    /\ Recorded(s).destroyed
    /\ slot[s].op \in {"destroy", "inspect"}

Accepted(s) ==
    /\ Guarded(s)
    /\ ~Recorded(s).destroyed
    /\ Recorded(s).destroying => slot[s].op = "destroy"
    /\ slot[s].op \in {"ensure", "start"} => slot[s].alloc.key \notin expired

FirstStage(op, created) ==
    CASE op = "ensure" -> IF created THEN "probe" ELSE "create"
      [] op = "start" -> "power"
      [] op = "inspect" -> "look"
      [] op = "stop" -> "halt"
      [] op = "destroy" -> "clear"

\* Rejected, contended (Unavailable), NotFound, Identity or Conflict.
AdmitReject(s) ==
    /\ slot[s].phase = "queued"
    /\ ~Entombed(s) /\ ~Accepted(s)
    /\ slot' = [slot EXCEPT ![s] = Answered(s, Error)]
    /\ UNCHANGED <<ledger, container, late, stray, plock, expired, faults>>

\* The owned tombstone answers destroy and inspect.
AdmitTombstone(s) ==
    /\ slot[s].phase = "queued"
    /\ Entombed(s)
    /\ slot' = [slot EXCEPT ![s] = Answered(s, Dead)]
    /\ UNCHANGED <<ledger, container, late, stray, plock, expired, faults>>

\* The call takes the lock; a first ensure inserts its record and a destroy
\* commits `destroying', both saved before any docker command.  The handle has
\* done its work in the guard and is forgotten.
AdmitRun(s) ==
    LET g == slot[s].alloc.gen
        op == slot[s].op
    IN  /\ slot[s].phase = "queued"
        /\ Accepted(s)
        /\ ledger' = [ledger EXCEPT ![g] =
                        [Recorded(s) EXCEPT !.destroying = @ \/ op = "destroy"]]
        /\ plock' = s
        /\ slot' = [slot EXCEPT ![s].phase = FirstStage(op, Recorded(s).created),
                                ![s].handle = 0]
        /\ UNCHANGED <<container, late, stray, expired, faults>>

-----------------------------------------------------------------------------
(* operation(): one action per awaited docker command *)

\* ensure of a machine already created: it must still be there.
Probe(s) ==
    LET g == slot[s].alloc.gen
    IN  /\ slot[s].phase = "probe"
        /\ IF container[g] = "absent" THEN Finish(s, Error)
           ELSE Goto(s, "create")
        /\ UNCHANGED <<ledger, container, late, stray, expired, faults>>

\* provision(), container absent: create it under the durable name.
Create(s) ==
    LET g == slot[s].alloc.gen
    IN  /\ slot[s].phase = "create"
        /\ container[g] = "absent"
        /\ RunCommand(s, g)
        /\ Goto(s, "mark")
        /\ UNCHANGED <<ledger, late, stray, expired, faults>>

\* provision() sees the container: `created' is saved.
MarkCreated(s) ==
    LET g == slot[s].alloc.gen
    IN  /\ slot[s].phase \in {"create", "mark"}
        /\ container[g] # "absent"
        /\ ledger' = [ledger EXCEPT ![g].created = TRUE]
        /\ Goto(s, "power")
        /\ UNCHANGED <<container, late, stray, expired, faults>>

\* A command or status that needs the container does not find it: NotFound.
Missing(s) ==
    /\ slot[s].phase \in {"mark", "power", "halt", "look"}
    /\ container[slot[s].alloc.gen] = "absent"
    /\ Finish(s, Error)
    /\ UNCHANGED <<ledger, container, late, stray, expired, faults>>

\* ensure and start: start the container unless it runs; stop: stop it.
SwitchPower(s) ==
    LET g == slot[s].alloc.gen
    IN  /\ slot[s].phase \in {"power", "halt"}
        /\ container[g] # "absent"
        /\ RunCommand(s, g)
        /\ Goto(s, "look")
        /\ UNCHANGED <<ledger, late, stray, expired, faults>>

\* The final status(): it is the reply.
Look(s) ==
    LET g == slot[s].alloc.gen
    IN  /\ slot[s].phase = "look"
        /\ container[g] # "absent"
        /\ Finish(s, Observed(container[g]))
        /\ UNCHANGED <<ledger, container, late, stray, expired, faults>>

\* destroy: nothing to remove, or stop what runs and go on to remove it.
Clear(s) ==
    LET g == slot[s].alloc.gen
    IN  /\ slot[s].phase = "clear"
        /\ RunCommand(s, g)
        /\ Goto(s, IF container[g] = "absent" THEN "tomb" ELSE "remove")
        /\ UNCHANGED <<ledger, late, stray, expired, faults>>

\* destroy: `container rm' refuses a running or missing container.
Remove(s) ==
    LET g == slot[s].alloc.gen
    IN  /\ slot[s].phase = "remove"
        /\ RunCommand(s, g)
        /\ IF container[g] \in Down THEN Goto(s, "tomb") ELSE Finish(s, Error)
        /\ UNCHANGED <<ledger, late, stray, expired, faults>>

\* destroy: absence is confirmed and the tombstone saved.  The save may commit
\* and still report an error.
Tomb(s) ==
    LET g == slot[s].alloc.gen
    IN  /\ slot[s].phase = "tomb"
        /\ IF container[g] = "absent"
           THEN /\ ledger' = [ledger EXCEPT ![g].destroyed = TRUE]
                /\ \/ Finish(s, Dead) /\ UNCHANGED faults
                   \/ Finish(s, Error) /\ Spend
           ELSE Finish(s, Error) /\ UNCHANGED <<ledger, faults>>
        /\ UNCHANGED <<container, late, stray, expired>>

\* The call fails at any await: CLI timeout or error, failed save, changed
\* image alias, dropped future, provider crash, lost request.  Its docker
\* command has had no effect, has had it, or is still on its way.
Fail(s) ==
    LET g == slot[s].alloc.gen
        phase == slot[s].phase
    IN  /\ phase \in Stages \cup {"queued"}
        /\ Spend
        /\ slot' = [slot EXCEPT ![s] = Answered(s, Error)]
        /\ plock' = IF plock = s THEN NoSlot ELSE plock
        /\ \/ UNCHANGED <<container, late>>
           \/ phase \in Commands /\ RunCommand(s, g) /\ UNCHANGED late
           \/ /\ phase \in Late
              /\ late' = late \cup {<<phase, g, faults'>>}
              /\ UNCHANGED container
        /\ UNCHANGED <<ledger, stray, expired>>

-----------------------------------------------------------------------------
(* Docker and the worker, outside the provider's control *)

\* A command whose CLI was killed or orphaned takes effect after all.  The
\* daemon knows nothing of the ledger: a create that finds its name free makes
\* the container even of a generation whose destruction has been confirmed.
LateLand(c) ==
    /\ c \in late
    /\ late' = late \ {c}
    /\ container' = [container EXCEPT ![c[2]] = Effect(c[1], @)]
    /\ stray' = IF c[1] = "create" /\ ledger[c[2]].destroyed
                THEN stray \cup {c[2]} ELSE stray
    /\ UNCHANGED <<ledger, plock, slot, expired, faults>>

\* The health check of a running worker succeeds, or ceases to (a fault).
WorkerHealth(g) ==
    /\ \/ /\ container[g] = "running"
          /\ container' = [container EXCEPT ![g] = "ready"]
          /\ UNCHANGED faults
       \/ /\ container[g] = "ready"
          /\ container' = [container EXCEPT ![g] = "running"]
          /\ Spend
    /\ UNCHANGED <<ledger, late, stray, plock, slot, expired>>

\* The worker process ends by itself; docker does not restart it.
WorkerExit(g) ==
    /\ container[g] \in Up
    /\ container' = [container EXCEPT ![g] = "exited"]
    /\ UNCHANGED <<ledger, late, stray, plock, slot, expired, faults>>

\* The container is removed behind the provider's back.
ContainerLost(g) ==
    /\ container[g] # "absent"
    /\ Spend
    /\ container' = [container EXCEPT ![g] = "absent"]
    /\ UNCHANGED <<ledger, late, stray, plock, slot, expired>>

-----------------------------------------------------------------------------

\* The steps the provider takes on a call it has received.
Operation(s) ==
    \/ AdmitReject(s) \/ AdmitTombstone(s) \/ AdmitRun(s)
    \/ Probe(s) \/ Create(s) \/ MarkCreated(s) \/ Missing(s)
    \/ SwitchPower(s) \/ Look(s)
    \/ Clear(s) \/ Remove(s) \/ Tomb(s)

\* What happens without any client.
ProviderStep ==
    \/ \E s \in Slots : Operation(s) \/ Fail(s)
    \/ \E c \in late : LateLand(c)
    \/ \E g \in Gens : WorkerHealth(g) \/ WorkerExit(g) \/ ContainerLost(g)

\* The handles a call of this kind may name (RuntimeProvider's signatures).
Handles(op) ==
    {h \in 0 .. MaxGen : /\ op = "ensure" => h = 0
                         /\ op \in {"start", "stop", "destroy"} => h # 0}

\* Any number of uncoordinated clients, each naming whatever allocation and
\* handle it believes in.
ClientStep ==
    \/ \E s \in Slots, op \in Ops, a \in Allocation :
          \E h \in Handles(op) : Submit(s, op, a, h)
    \/ \E s \in Slots : Receive(s) \/ Orphan(s)
    \/ ClientDown
    \/ \E k \in Keys \ {0} : Expire(k)

ProviderNext == ProviderStep \/ ClientStep

ProviderSpec == ProviderInit /\ [][ProviderNext]_providerVars

-----------------------------------------------------------------------------
(* The inductive invariant: why the promises below hold *)

\* The stages of a destroy.
DestroyStages == {"clear", "remove", "tomb"}

\* The file lock is held by the one call that is being worked on.
LockHeldByWorker ==
    \A s \in Slots : slot[s].phase \in Stages <=> plock = s

\* A container exists only under a recorded generation, and of a destroyed one
\* only as a stray; a create under way in docker is of a recorded generation.
ContainerRecorded ==
    /\ \A c \in late : ledger[c[2]].known
    /\ stray \subseteq {g \in Gens : ledger[g].destroyed}
    /\ \A g \in Gens :
        /\ container[g] # "absent" => ledger[g].known
        /\ container[g] # "absent" /\ ledger[g].destroyed => g \in stray
        /\ ledger[g].destroyed => ledger[g].destroying
        /\ ledger[g].destroying => ledger[g].known

\* A call is worked on under its own live record, and is a destroy exactly when
\* that record says so.
WorkerRecorded ==
    \A s \in Slots : slot[s].phase \in Stages =>
        LET r == ledger[slot[s].alloc.gen]
        IN  /\ r.known /\ ~r.destroyed
            /\ r.alloc = slot[s].alloc
            /\ r.destroying <=> slot[s].phase \in DestroyStages

\* A `destroyed' reply names a tombstone.
DestroyedReplied ==
    \A s \in Slots :
        slot[s].reply.state = "destroyed" => ledger[slot[s].alloc.gen].destroyed

\* A call that has been replied to has a reply.
RepliesGiven ==
    \A s \in Slots : slot[s].phase = "replied" => slot[s].reply # Unknown

-----------------------------------------------------------------------------
(* What the provider promises (RuntimeProvider, lib.rs) *)

\* "It must never create a second machine": whatever is delayed, lost, replayed
\* or abandoned, of two generations with a container the older is a stray, made
\* by a create that docker finished after that generation's confirmed destroy.
OneMachine ==
    \A g, h \in Gens :
        g < h /\ container[g] # "absent" /\ container[h] # "absent" => g \in stray

\* The same promise in the words of lib.rs, without that exception.
NeverTwoMachines ==
    \A g, h \in Gens :
        container[g] # "absent" /\ container[h] # "absent" => g = h

\* "A higher generation is permitted only after confirmed destruction of the
\* prior machine": below a recorded generation everything recorded is destroyed.
GenerationOrder ==
    \A g, h \in Gens :
        g < h /\ ledger[g].known /\ ledger[h].known => ledger[g].destroyed

\* A `destroyed' reply, even one delayed on its way, is only ever read while
\* the tombstone is durable and nothing is left of the machine but what a late
\* create may have made of it since.
DestroyedReplyIsFinal ==
    \A s \in Slots :
        slot[s].reply.state = "destroyed" =>
            LET g == slot[s].alloc.gen
            IN  /\ ledger[g].destroyed
                /\ container[g] = "absent" \/ g \in stray

ProviderInv ==
    /\ ProviderTypeOK
    /\ LockHeldByWorker
    /\ ContainerRecorded
    /\ WorkerRecorded
    /\ DestroyedReplied
    /\ GenerationOrder

\* Tombstones are retained and a recorded generation keeps the allocation it
\* was recorded with; a destroy that has begun is never taken back.
TombstonesRetained ==
    [][\A g \in Gens :
          /\ ledger[g].known => /\ ledger'[g].known
                                /\ ledger'[g].alloc = ledger[g].alloc
          /\ ledger[g].destroying => ledger'[g].destroying
          /\ ledger[g].destroyed => ledger'[g].destroyed]_providerVars

\* Once a destroy is committed to the ledger no call, however late, brings the
\* machine back into being; only docker itself does, where it still has a
\* `container create' of that generation to finish.
NoResurrection ==
    [][\A g \in Gens :
          ledger[g].destroying /\ container[g] = "absent"
              => \/ container'[g] = "absent"
                 \/ \E c \in late \ late' : c[1] = "create" /\ c[2] = g]_providerVars
=============================================================================
