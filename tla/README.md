# A TLA+ verification of neoism

neoism is a Rust terminal workspace: a desktop and web front end, a workspace
daemon, an agent server that runs LLM sessions, and a cloud runtime that gives a
workspace its own machine. This directory models the parts whose correctness
depends on interleaving, crashes and lost messages, checks them with TLC on
small instances and proves what matters most, for every value of the constants,
with TLAPS. All paths below are relative to the root of the repository.

## 1. Inventory

### 1.1 Parts that carry concurrent or crash-sensitive logic

**Cloud runtime registry** (`neoism-cloud-runtime/src/registry.rs`, `lib.rs`,
`launch.rs`). One durable JSON record per workspace: allocation (generation,
spec, launch descriptor), revision, last machine status, pending intent, last
error, retired flag. Operations: `ensure`, `ensure_with_initializer`,
`reconcile`, `recover_handle`, `start`, `stop`, `destroy`, `binding`. Each takes
a nonblocking OS file lock (`Busy` when contended) and holds it across load,
intent commit, provider call and result commit. Hard: a coordinator may die at
any await, leaving a committed intent and a remote call that still runs. Correct
when the record never claims more than the provider has done: retired only when
the machine is gone, a new generation only after confirmed destruction, a
destroy never superseded, every record left behind loadable.

**Docker development provider** (`neoism-cloud-host/src/docker.rs`). A durable
ledger per owner (generation -> allocation, `created`, `destroying`,
`destroyed`), an OS file lock, and docker containers under durable names. One
`operation()` serves ensure, start, inspect, stop and destroy; every docker CLI
call is an await at which it can time out, be cancelled or crash, with the
command's effect present, absent or still to come. Correct when, whatever
clients send and however late, there is at most one machine per workspace,
tombstones are retained and a destroyed generation never comes back.

**Cloud host** (`neoism-cloud-host/src/manager.rs`, `signing.rs`,
`readiness.rs`). Calls the registry, mints the signing authority of a
generation before it is committed, replaces expired allocations (recover,
destroy, re-ensure, under one deadline, rechecking the binding between steps),
probes readiness and issues short-lived tokens.

**Agent prompt queue and session runs**
(`neoism-agent/crates/neoism-agent-server/src/session_queue.rs`,
`session_coordinator.rs`, `session_run.rs`, `session_prompt.rs`,
`session_context.rs`, and the queue tables of `state.rs`). Prompts are durable
SQLite rows; an in-memory coordinator keeps one run and one queue worker per
session with a pending-wake bit; admissions are keyed locks; a run may drain
"steer" rows while it executes. Hard: lost wakeups, a row executed twice or
lost across clear, pop, abort, retry, crash and restart, and ABA on the
in-memory entry.

**Agent event bus** (`state/event_bus.rs` of the same crate). A broadcast ring of
events under a mutex with two budgets (events and bytes), a cursor per receiver,
and tokio's `Notify`, which the sender calls after it has let go of the mutex.
Hard: a receiver that looks before it has registered, the last handle dropped
under a waiting receiver, a slow receiver that leaves, an event over the budget.
Correct when every receiver walks one log in order, is told exactly how much it
missed, and does not sleep while there is something to report.

**Agent event journal and stream** (`publish` and the event tables of `state.rs`,
`state/event_retention.rs`, `v2_events` in `v2_routes.rs`, `followEvents` in
`neoism-agent/sdk/typescript/packages/http/src/index.ts`). Events take a wire sequence
from a counter in memory,
are broadcast and stored - before, after or never, by kind - and pruned by age.
A stream subscribes to the bus, replays the journal above the client's cursor
page by page, and then goes live without repeating what it replayed. The client
reconnects with the highest sequence it has seen. Hard: the orders of stamp,
broadcast, store, prune and subscribe; restarts, which forget the counter.

**Subtask completions** (`execution_activity.rs`, `session_actions.rs`, the drain
worker of `session_queue.rs`). A background prompt of a child session owes its
parent a completion (`subtaskNotifyOnIdle`); when the child falls idle the
debt becomes a record in the child's outbox (`subtaskCompletions`), which
reconciliation turns into a runtime prompt of the parent, queued under the
completion's own message id. The parent's worker acknowledges it once answered. Hard: several
publishers and reconcilers, a transcript read before a worker saves and used
after it, a row written back whole by somebody who does not take the completion
lock, crashes between reply and acknowledgement. Correct when no answered
notification is run again and none is forgotten.

**Interactions and undo** (`interaction.rs`, `permission_runtime.rs`,
`background_job.rs`, `session_undo.rs`, `context_epoch.rs`). Pending permission
questions answered or cancelled, background jobs, undo trees.

**Workspace daemon** (`neoism-workspace-daemon/src`: `crdt/`, `pairing.rs`,
`daemon_token.rs`, `handshake.rs`, `sessions.rs`, `workspace_promote.rs`,
`agent/`, `workspace/manager.rs`). Shared documents (CRDT sync between peers),
pairing of clients, session tables, promotion of a local workspace, the relay
between front end and agent with reply queues.

### 1.2 How they interact

The host's initializer runs inside the registry's lock; the registry calls the
provider directly or over HTTP (`http.rs` -> `server.rs`), where "cancellation
of an HTTP request is not cancellation of the remote operation". The provider
calls the docker CLI. A worker machine runs an agent server, reached with a
token the host signs for exactly the committed generation. The daemon talks to
agent servers and front ends over websockets; the agent server's queue, run and
event log share one SQLite store. A child's run, its worker, an abort and the
startup scan publish completions into the parent's queue; the parent's worker
and its user's runs consume them. The bus feeds the streams, which also read the
journal that the durable writer fills.

### 1.3 Parts that are not modelled

Rendering, input, fonts, terminal emulation and the vendored event loop
(`sugarloaf`, `copa`, `corcovado`, `teletypewriter`, `neoism-window`,
`neoism-terminal-*`, `neoui`, `neoism-frontend`) are sequential or pure I/O with
no protocol of their own; packaging, docs, tools and product assets carry no
program logic.

## 2. Modules and their correspondence to the code

| module | models | state | actions |
|---|---|---|---|
| `MachineProvider` | `docker.rs` for one owner, and the calls that reach it over `http.rs`/`server.rs` | `ledger` (the durable records), `container` (docker), `late` (commands whose CLI is gone), `stray` (history: destroyed generations a late create has made anew), `plock` (the owner's file lock), `slot` (calls in flight), `expired`, `faults` | the client's `Submit`, `Receive`, `Orphan`; the synchronous prefix of `operation()` (`AdmitReject`, `AdmitTombstone`, `AdmitRun`), then one action per awaited docker command (`Probe`, `Create`, `MarkCreated`, `Missing`, `SwitchPower`, `Look`, `Clear`, `Remove`, `Tomb`), `Fail` at any of them, and docker itself (`LateLand`, `WorkerHealth`, `WorkerExit`, `ContainerLost`) |
| `CloudRuntime` | `registry.rs` for one workspace, with the initializer of `manager.rs`/`signing.rs`; EXTENDS `MachineProvider` | `durable` (the JSON record), `lock` (the workspace's lock file), `op` (where each coordinator stands), `authority` and `nextKey` (the key store) | one action per public operation up to its first await (`EnsureExisting`, `EnsureNew`, `Reconcile`, `RecoverHandle`, `Command` for start, stop, destroy), then `Initialize`, `CommitAllocation`, `ReturnExpired`, `Issue`, `Answer`, `TimeoutCall`, `Abandon` |
| `WorkspaceCompute` | the abstract promise to the host: machines one after the other | `life`, `up`, `strays` | `Plan`, `Condemn`, `Bury`, `Retire`, `Appear`, `Stray`, `Vanish` |
| `SessionQueue` | the prompt queue of one session: `session_queue.rs`, `session_coordinator.rs`, `session_run.rs`, the append and run of `session_prompt.rs`, the store's queue tables | the store (`fate`, `entry`, `ctl`, `messages`, `recorded`), the coordinator's entry (`run`, `cancel`, `worker`, `wake`), locks (`guard`, `admitting`), drop guards about to fire (`reapers`), `task` (queue workers and direct callers), `leaked` (history: a caller left with the slot and without a guard) | clients (`Admit`, `AdmitCompaction`, `Clear`, `Pop`, `Stop`, `StopSubagent`, `DirectPrompt`, `CallerGone`), the worker loop (`WaitUntilIdle` .. `PromptFailed`), the admission (`EnterAdmission`, `SavePrompt`, `OwnExecution`, `StartRun`, `GuardRun`, `Handoff`), the run (`BeginTurn` .. `CloseRun`), `Abandon`, errors and `Restart` |
| `PromptLedger` | the abstract promise about submitted prompts: settled once, handed off in order, at most one turn per message | `fate`, `content`, `transcript`, `turns` | `Submit`, `Keep`, `Hand`, `Prompt`, `Merge`, `Lose`, `Cancel` |
| `EventBus` | `event_bus.rs`: `EventBus` and `EventReceiver` | the ring (`ring`, `bytes`, `nextSequence`), `receivers` with their `cursor`, `senders`, the threads inside `send` and `recv` (`spc`, `rpc`), `notified` | `Send` and `Notify` (the two halves of send), `CloneSender`, `DropSender`, `Subscribe`, `DropReceiver`; recv in steps: `Recv` (register), `Look`, `LookEmpty`, `FallAsleep`, `Awake`, `Cancel`; `TryRecv` |
| `EventFeed` | the abstract promise of the bus: each subscriber hears of every event once, as itself or counted among the missed | `log`, `present`, `place`, `heard`, `open` | `Publish`, `Join`, `Leave`, `Hear`, `Miss`, `End`, `Close` |
| `EventStream` | the way of an event from `publish` to the application of an SDK client | the process (`sequence`, `handing`, `queue`, `writing`, `stored`, `bus`, `pruning`), the database (`rows`, `highWater`, `floor`, `cutoff`), one stream (`phase` .. `sent`), its client (`cursor`, `seen`, `app`) | `Publish`, `Enqueue`, `PublishLive`; the writer's `Write`, `WriteFails`; a transaction's `Allocate`, `Commit`, `CommitFails`, `Broadcast`; retention's `Age`, `FindExpired`, `Prune`, `PruneGivesUp`; the stream's `Connect`, `ReadFloor`, `Seek`, `ReadPage`, `Deliver`, `Disconnect`; `Restart` |
| `SubtaskCompletion` | the results of one child session on their way into its parent | the child's row (`owed`, `outbox`), the parent's store (`queue`, `saved`, `turns`, `replied`), the child's prompts and the publishers (`at`, `pub`, `deferred`, `loaded`), the parent's run and worker, the reconciliation lock (`want`, `rec`), `skipped` (history: the worker has ended without its last reconciliation and none has read the outbox since) | the child (`MarkOwed` .. `EndPrompt`, `ReleaseWorker`, `AbortChild`), publication (`ReadOwed`, `SeeIdle`, `SeeIdleAgain`, `mark_subtask_completion_pending`), reconciliation (`Reconcile`, `SeeTranscript`, `Settle`), the parent's worker (`WorkerPeeks` .. `FailedTurn`) and its user's runs, failures at each, `Restart` |
| `MachineProvider_proofs`, `CloudRuntime_proofs`, `SessionQueue_types`, `SessionQueue_proofs`, `EventBus_proofs`, `EventStream_proofs`, `EventStream_replay_proofs`, `SubtaskCompletion_proofs` | the theorems of section 5 | | |
| `MCMachineProvider`, `MCCloudRuntime`, `MCSessionQueue`, `MCEventBus`, `MCEventStream`, `MCSubtaskCompletion` | the modules TLC runs, with the symmetry sets of their instances | | |

An action goes from one await that somebody else can observe to the next, with
everything the code does in between. `PROJECT.json` maps each definition to the
lines it was read from. Definitions marked *Variant* are what a plausible slip
in that code would look like; no specification uses them. They are there to
show that the property they are paired with in `PROJECT.json` would notice.

`CloudRuntime` composes the registry with the provider by EXTENDS: registry
steps use the provider's `Submit`, `Receive` and `Orphan`, and provider steps
leave the registry's variables alone. So `Spec => ProviderSpec` is a theorem
(`ImplementsProvider`), and what is proved of the provider with arbitrary
clients holds for the whole.

The agent's modules compose through their promises. `EventStream` uses the bus as
`EventFeed` promises it (a log and a place in it; a lag ends the stream) and
`EventBus` implements that promise. `SubtaskCompletion` sees the two sessions'
queues and runs, `SessionQueue`'s subject, reduced to what the outbox reads and
writes of them.

### Abstractions of the cloud modules

- One workspace, hence one owner; workspaces share nothing but directories.
- `last_error` is a Boolean; its text, the connection and the failure text of a
  machine status are left out. Errors returned without a state change (`Busy`,
  `NotFound`, validation) are not actions: the caller tries again.
- Only the states the docker provider reports occur (`Failed` is never one).
- Volumes, networks and the bootstrap files are idempotent preparations of
  `container create` and are left out. A changed image alias and a failed save
  are among the outcomes of `Fail` (provider) and `Abandon` (registry).
- Leases run out in any order and at any time, `Expire`.
- A docker command whose CLI was killed or orphaned may land at any later time, or
  never, and so may `container create` (`docker.rs:297-300` kills the CLI only, and the
  comment at `docker.rs:559` allows the daemon to go on). A create that lands takes the
  name if it is free. When the generation has been destroyed by then, the container is a
  *stray*: `stray` records it, and the properties about absence say what remains true
  with it (see `NeverTwoMachines` below). Any number of late commands of one kind and
  generation may be outstanding; each carries the number of the fault that cut it off.
- The slots of calls are interchangeable, so the registry takes the first free one
  (`NextSlot`).
- An allocation without launch descriptor (key 0) is refused by this provider,
  as in the code.

### Abstractions of SessionQueue

- One session. A message id determines its content; admissions that reuse an id
  with other content (a conflict error) are left out. No-op client calls are not
  actions. Client ids are chosen when the request is made.
- Statuses, events and queue snapshots are left out, and so are external-agent
  sessions, import and undo. Completions of subtasks are `SubtaskCompletion`'s.
- Run ids are reused, lowest first, once nothing refers to them; the code draws ULIDs.
- Between the claim of the slot (`StartRun`) and its `SessionRunGuard` (`GuardRun`) lie
  two awaits (`session_run.rs:94-95`), the point "busy". A caller who goes away there
  leaves the slot claimed for good; `leaked` records it. A durable finish that fails
  (leaving a running row that reconciliation
  repairs later) is left out.
- `compact_owned` claims slot and control in one step, because it holds the
  execution lock throughout; `Pop` and `Clear` hold both locks.
- A run goes on of its own accord (tool calls, length limit, active goal) at
  most `MaxStep` times; `turns` counts to 2. Store errors, commits reported as
  errors, provider errors and restarts draw on one budget, `MaxFault`.
- `Restart` is a crash and the startup that follows (`interrupt_stale_runs`,
  `resume_prompt_queues`).
- `NoReply` messages are those sent with `no_reply`: they are kept in the
  transcript and start no turn.

### Abstractions of EventBus and EventStream

- A payload on the bus is its number and its size; `payload_bytes` and
  `compact_objects` only determine the size. A step is one critical section, or one
  access to the `Notify`, whose registration and `notify_waiters` are atomic.
- One stream and its client: streams share nothing else. The tenant and session
  filters are left out, every event is for the client; so is the baseline of
  unfinished messages (`live_messages.rs`) that a stream is given first.
- The transactional commits of every kind (messages, sessions, drains) are one
  action each for allocation, commit and broadcast.
- A lag of the bus, a failed page and a broken connection are one `Disconnect`. A floor
  that cannot be read is taken to be 0, as in the code. A request for the tail that
  also carries an expired cursor is left out: the SDK sends none.
- `shed` records which ids the replay has sent and then forgotten, when it had as many
  as it remembers; a page never has more ids than that (`PageAssumption`; 128 and
  16384 in the code).
- The client is the SDK's: highest sequence seen as its cursor, identities it has
  handed on remembered. Its bound on these is not reached.

### Abstractions of SubtaskCompletion

- One child, one parent; a generation is one background prompt of the child.
- A step goes from one await that others can see to the next. Those who hold
  `subtask_completion_locks` read and write the child's row in one step;
  `append_prompt`, which does not, reads it on entry (`loaded`) and writes it back
  whole (`WriteBack`), completion metadata included.
- Status and text of a completion, the migration of old records, several children
  reconciled in one pass, errors of the child's provider after its run has
  started, and the run guard's asynchronous abandonment are left out;
  `clear_subtask_completion_for_teardown` has no caller.
- Who reconciles, and who does not, is as in the code: a teardown or an abort that does
  not publish goes on to reconcile the parent; the child's worker, which publishes for
  a queued prompt, does not (`PassesOver`, `session_queue.rs:788-792`); the startup
  publishes what is owed and then reconciles (`"startup"`).
- `failed` records that some step failed since the server started. Failed
  publications and reconciliations are logged and left to the next trigger or the
  next start, so `NothingStranded` says nothing of a family in which one has failed;
  it does after the restart, which a failure leaves room for in the bound.
- A row that is gone when the worker comes to admit it is no failure, but the worker
  takes it for one of its prompt, and one failed prompt makes it skip its last reconciliation
  (`session_queue.rs:749-770`, `803`). `skipped` records that, until somebody reads the
  outbox with the worker off, or the server restarts.

## 3. What TLC checks

| run | instance | states | shows |
|---|---|---|---|
| `provider` | 2 calls in flight, 2 generations, 1 launch descriptor, 1 fault, every docker command late | 0.87 M | against completely uncoordinated clients and a docker that finishes what was cut off: of two machines the older is a stray of a destroyed generation (`OneMachine`), generations are in order (`GenerationOrder`), a destroyed reply is true whenever it is read, strays excepted (`DestroyedReplyIsFinal`), tombstones stay (`TombstonesRetained`), and no step of the provider revives anything (`NoResurrection`) |
| `registry` | 2 coordinators, 2 calls, 2 generations, 2 authorities, 1 fault, 7 revisions, every docker command late, under `FairSpec` | 0.57 M | the record and the provider never disagree about destruction (`RetiredIsGone`, `GenerationFence`), the record can always be loaded (`RecordLoadable`), the key store agrees with the committed descriptor (`SigningAgree`), no endpoint of a doomed machine is offered (`RoutedMachineIsKept`), nothing supersedes a destroy (`DestroyWins`), all of it implements `WorkspaceCompute` (`OneMachineAfterAnother`), and a committed destroy is confirmed and retired in the end (`DestroyCompletes`) |
| `ensure_power` | 1 coordinator, 2 calls | found at once | a counterexample, see below |
| `queue` | 2 messages, 2 rows, 1 compaction control, 2 worker slots, 2 run ids, 2 faults | 1.02 M | one worker (`OneWorker`), no lost wake (`NoLostWakeup`), a recovery marker vouches for an unstarted turn (`MarkerMeansUnstarted`), an executing queued prompt is on record (`RunRecorded`), compaction needs a pending control (`CompactionIsAuthorized`), and the queue implements `PromptLedger` (`LedgerImplemented`) |
| `callers` | 3 messages (one with `no_reply`), 1 row, 1 direct caller making 2 calls, 2 workers, 3 run ids, 1 fault | 0.96 M | callers and worker never run at once (`RunExclusive`), one turn per message however it is sent again (`ExecutedOnce`) |
| `sessions_live` | 1 message, 2 rows, 1 worker, 1 caller making 1 call, 2 run ids, 1 fault, under `FairSpec` | 0.11 M | every queued row leaves the queue unless an error parked it (`QueuedIsServed`), and the slot is released again (`SlotIsReleased`), both unless a caller went away between the claim and the guard |
| `stop_subagent`, `replay` | one hazard each | found in seconds | counterexamples, see below |
| `event_bus` | 2 handles, 2 receivers, a ring of 2 events and 2 bytes, payloads of 1 and 3 bytes, 3 sends, under `FairSpec` | 0.66 M | nothing is kept that all have read (`NothingKeptUnread`), only a receiver's own delay makes it lag (`LagMeansOverflow`), no wake is lost (`NoLostWake`), the bus implements `EventFeed` (`FeedImplemented`), and a sleeping receiver with something to hear returns (`NewsIsHeard`) |
| `event_stream` | 3 events, 1 connection, 1 restart, pages and batches of 2 rows, 2 remembered ids | 5.27 M | nothing is sent twice on a stream but what its replay has shed (`OncePerStream`), nothing is left out of what was broadcast after the subscription (`NothingSkipped`) or held by the journal (`ReplayComplete`), stored sequences are never given out again (`SequencesFresh`), everything stored above the floor is in the journal (`FloorHonest`) |
| `stream_restart` | the same with 2 connections | found in seconds | a counterexample, see below |
| `completions` | 2 prompts of the child, 2 completions, 1 event (a user's prompt, an abort, a failure or a crash; a restart after the failure besides) | 4.86 M | no answered notification is run again (`DeliveredOnce`), the outbox gives nothing up without a reply (`AcknowledgedIsAnswered`), a family at rest has no completion waiting, unless a step failed or the worker skipped its last reconciliation (`NothingStranded`) |

### Four disagreements between the code and its words

- `EnsureNeverPowersOn`. "Ensure does not implicitly start a stopped VM"
  (`neoism-cloud-runtime/README.md`). The registry inspects a stopped allocation
  rather than ensuring it, but an ensure call it abandoned is still on its way,
  and `docker.rs` starts whatever is not running. Ensure is called, its caller
  gives up, the retry succeeds, the machine is stopped and recorded as such, the
  first call arrives and switches it on. The record says stopped, with nothing
  pending, until somebody reconciles.
- `StopHolds`. `clear_session_prompt_queue` is "used when forcibly stopping a
  subagent so its pending follow-ups do not start after cancellation". The stop
  aborts the run, releases the lock and then clears: between the two the
  cancelled run may end and the worker hand off the next follow-up to a run that
  nobody has cancelled.
- `NeverReplayed`. "Never replay model/tool work using a retained row". A steer
  row that was saved and then could not be acknowledged stays in the queue while
  its message is in the transcript that the same run goes on with; after the
  run, the worker starts it again as a turn of its own.
- `CursorIsPast`. "The wire counter ... never moves backwards"
  (`event_retention.rs:10-12`). Live-only events take sequences that no row records. A
  client whose cursor comes from one is ahead of the counter after a restart; what
  is stored next gets sequences at or below that cursor, and the client's next
  catch-up passes them by.

### Met on the way, defined but not run

Each is a definition in its module, with the comment that the code
contradicts, and TLC finds each violated under the instance named. The runs keep
one counterexample of each kind; for the first three the runs check instead what does
hold, the same property with its exception named.

In `MachineProvider`, under `MCMachineProvider.cfg`:

- `NeverTwoMachines`: at most one generation has a container (`lib.rs:353-358` of the
  cloud runtime: never a second machine, a new generation only after confirmed destruction). The provider
  probes generation 1, runs `container create`, the CLI times out and is killed; a destroy
  finds no container and writes the tombstone; generation 2 is ensured and created;
  docker finishes the first create. `OneMachine` allows exactly that container, a
  destroyed generation's stray. Nothing looks for it: every later call of generation 1 is
  answered from the tombstone, so it stays until somebody removes it by hand.

In `SessionQueue`, under `MCSessionQueueLive.cfg`:

- `SlotAlwaysOwned`: "cancellation or an I/O error leaves in-memory ownership intact so a
  cleanup guard can retry" (`session_run.rs:171`). A direct caller claims the slot and goes
  away while `start_run` or `register_session_busy` is awaited: no guard exists yet, the slot
  stays claimed, and every later run and the queue's worker wait for it until the process
  ends (an abort only cancels: the owner is to release). `SlotOwned` says that this is the only way,
  and is a theorem.

In `SubtaskCompletion`, under `MCSubtaskCompletion.cfg`:

- `NeverStranded`: a family at rest has nothing waiting unless a step failed
  (`session_actions.rs:931-935`, `session_queue.rs:799-802`). The worker peeks a
  notification, a user's run of the parent drains it and is stopped before it replies; its
  own reconciliation sees worker and turn and leaves the rest to the worker; the worker
  finds the row gone, counts a failed prompt and ends without its last reconciliation.
  The completion waits for the parent's next run or a restart.

In `EventStream`, under `MCEventStreamRestart.cfg`:

- `NothingSlips`: an event broadcast before the subscription and stored by the
  writer after the last page was read reaches the client by neither way
  (`v2_routes.rs:314-316` says subscribing first leaves no gap).
- `ExpiryIsTold`: the floor is read once, before the pages; rows pruned during the
  replay are missing without notice (`v2_routes.rs:330-333`).
- `CursorResumes`: the client's cursor is the highest sequence seen, but events are
  stored and broadcast out of order, so rows below it may be unheard
  (`neoism-agent-core/src/event.rs:11-15`).
- `AppHearsOnce`: an event heard from the bus and again from the journal has two
  identities for the SDK (`index.ts:259`).
- `OnlyTailOverlaps`, under `MCEventStream.cfg` already: an id that the replay has
  shed may still come from the bus and is then sent again, when a transaction stored
  it early and broadcasts it late (`v2_routes.rs:420-422`). `OncePerStream` excepts
  exactly these.

And in `SubtaskCompletion`:

- `EachPromptIsTold`: a debt can be lost before it becomes a record. `append_prompt` may
  write back the row it read before the debt was marked; a second prompt may be
  marked before the first has started; or a deferred publication may see the child
  idle in the gap before its prompt runs (the comments at
  `session_actions.rs:402-410` and `930-935`).
- `NoCopyInFlight`: reconciliation reads the transcript, the worker then saves the
  turn and retires the row, and reconciliation queues a second copy (the comment at
  `session_actions.rs:697-702`). `DeliveredOnce` holds nevertheless: the second copy finds its
  message in the transcript and its row without marker.

Read in the same code and not modelled: a run cancelled before its first step
returns `Ok`, so the worker acknowledges its notification, although
`session_actions.rs:715-718` says only a completed reply proves delivery (the model has
it as `cancelled`); a provider failure of a child
may publish "completed" before the wrapper's "error" arrives.

### Bounds, and why they are enough

Two calls in flight are what it takes for a stale call to meet a fresh one; two
generations for a replaced machine and its replacement; two coordinators for
contention, the second also standing for a restarted first. `MaxFaults`,
`MaxRev` and `MaxFault` bound how often things go wrong or are asked for, not
what may go wrong: the faults of one run can hit any await. The registry's
`MaxRev` guards only new intents, so an operation that has begun always runs to
its end; with 7 revisions two generations can be ensured, destroyed and
retired one after the other beside late calls and late commands of the first, or the
first also be stopped or started and the second ensured. Two rows give a head and a
follower, and let the same message be
admitted again while or after its first row is served; two worker slots are one
more than `OneWorker` allows; three run ids cover the slot, a reaper and a
caller at once. In the liveness runs one worker slot is enough, since
`OneWorker` holds. Every bound is a constant, and the theorems hold for all its
values.

Two receivers are what it takes for one to be slow; a ring of two events and two
bytes is full after two payloads of 1, and a payload of 3 can never fit; three
sends are one more than the ring holds. (Budgets that bind one without the other
triple the states: with three bytes and payloads of 1, 3 and 4 everything but
`NewsIsHeard` was checked as well, and the theorems hold for all budgets.) Three events give the
stream one that is stored and broadcast out of order with the next and one that
comes while it replays; pages of two make a replay of two pages, and two remembered
ids make the second page shed the first. Two prompts of a
child let a completion be queued behind another, and let the second prompt be
marked while the first still owes; a completion each. One event (a user's prompt,
an abort, a failure, a crash; the restart after a failure does not count) is the limit
of the exhaustive run with two prompts;
the same invariants were also checked exhaustively for one prompt and three
events, and by simulation for two prompts and two events.

`CHECK_DEADLOCK FALSE` throughout: a workspace whose bounds are spent, a session
with nothing queued, a bus with no handle left, a journal with nothing to send and
a family all of whose prompts are told are at rest.

### Fairness, and why the code justifies it

- Provider: weak fairness of each call's `Operation`; a docker command ends by
  its timeout and the task is then polled again.
- Registry: weak fairness of `Continue` (an operation whose future is polled
  goes on), and strong fairness of `Reconcile` for SOME coordinator. The lock is
  nonblocking and a loser gets `Busy`; callers poll, so one that asks again and
  again is let in in the end. Nothing is assumed of the clients' commands.
- Queue: weak fairness of the spawned worker's steps, of a run's steps, of
  drop-guard tasks (`Abandon`), of the wake that follows a commit under the same
  lock and of the second half of a subagent stop. Strong fairness of the steps
  that wait for a tokio mutex, which serves waiters in order. Provider steps and
  compactions are taken to return (they have timeouts of their own). Clients,
  errors and `CallerGone` are not fair.
- Bus: weak fairness of the second half of a send, which is synchronous code, and
  of a receiver inside `recv`, whose task is polled when it is woken. Nobody has to
  send, to receive or to leave.

## 4. Plan

Done, in this order: `MachineProvider`, `CloudRuntime` over it, `WorkspaceCompute`
and the refinement, the proofs of all their safety properties; `SessionQueue` and
`PromptLedger`, and the proofs of theirs; `EventBus` with `EventFeed`, its invariants
and the refinement; `EventStream`, with the proofs about the journal and about a
stream's replay; `SubtaskCompletion`, with the proofs of its invariants. Every safety
property that a run checks is a theorem. To come:

1. `WorkspaceHost` (`manager.rs`, `readiness.rs`) composed with `CloudRuntime`:
   `ensure_worker`, `replace_expired_binding`, `connect`, the recheck after
   probing and the issue of a token. Properties: a token is issued for the
   committed generation only; a replacement never destroys a machine that has
   been renewed meanwhile. Abstract promise: `WorkspaceCompute` extended by
   connections.
2. `QueueSnapshot` and the session status map (`session_queue.rs`,
   `session_run.rs`): the optimistic read over slot, rows and messages, and
   `publish_idle_if_no_run` racing with a new run.
3. The rest of `SubtaskCompletion`: several children in one pass, status
   and text, and the abandonment of a run guard.
4. The baseline of unfinished messages (`live_messages.rs`) in `EventStream`.
5. `Interaction` (`interaction.rs`, `permission_runtime.rs`): a pending question
   is answered, rejected or cancelled once.
6. `Pairing`, `Sessions` (`neoism-workspace-daemon`): pairing codes and the
   session table.

## 5. What is proved

TLAPS checks the theorems that `PROJECT.json` lists and the lemmas below them, for all numbers of calls,
coordinators, generations, specs, keys and faults, and every set `Late` of
commands that docker may finish late, and for all numbers of messages, rows, controls,
runs, workers and callers
of a session's queue; for all numbers of handles, receivers and sizes of a bus, of
events, pages and restarts of a journal, of prompts, completions and failures of a
family. The assumptions are those named in the modules: `SlotAssumption`,
`BoundAssumption`, `SpecAssumption`, `LateAssumption`, `ProcAssumption`,
`RevAssumption`, and `MessageAssumption`, `TaskAssumption`, `ModeAssumption`,
`BoundAssumption` of `SessionQueue`; `SenderAssumption` and `SizeAssumption` of
`EventBus`, `CursorAssumption`, `PageAssumption`, `BoundAssumption` of `EventStream`,
`NameAssumption`, `BoundAssumption` of `SubtaskCompletion`; TLC evaluates them in every run.

**Provider.** `ProviderInv` is inductive: types; the file lock is held exactly by
the call being worked on; a container exists only under a recorded generation
that is not destroyed; a call works under its own live record, in a destroy
stage exactly when that record says destroying; a destroyed reply names a
tombstone; generations are in order. `OneMachine` alone is not inductive: a
`Create` step preserves it only because its generation's record is known, live
and not being destroyed (`WorkerRecorded`), and all lower ones are destroyed and
hence without container, their strays excepted (`GenerationOrder` with
`ContainerRecorded`). A late create is of a recorded generation, so where its record is not
destroyed it makes that generation's own machine, and where it is, a stray.

**Registry.** `RegistryInv` adds the registry's side: exactly the lock's holder
has an operation under way; the record found by anyone is loadable; a new
generation is prepared only beside a retired record; a record is driven only
while live, and the awaited answer belongs to its allocation; no call names a
generation that was never committed; the provider destroys the current
generation only for a committed destroy; the ledger follows the record.
`DestroyCommitted` and `CallsCommitted` speak of calls that may be long
orphaned: they are why a destroyed answer can be believed, and why an ensure of
an old generation can do no harm. Each lemma treats one action and, under it,
one conjunct at a time.

**Refinement.** `ComputeImplemented` maps the record and the ledger to
`WorkspaceCompute`: each step changes either the life of one generation or the
containers, never both, and maps to one abstract step or a stutter; a late create of
a destroyed generation is the abstract `Stray`.

**Prompt queue.** `QueueInv` (in `SessionQueue`, so that TLC can look at it too) is
inductive. Its parts, and what needs them:

- `TaskShape` says at which points a task owns a run; `PromptLockHeld` that the
  prompt lock is held exactly between entering an admission and its end.
- `WorkerOwned` and `LookedAndMissed` carry `NoLostWakeup`. The wake flag alone is
  not enough: a worker that has found the queue empty gives up ownership, so
  whatever arrived after its look must already show as a wake, as an admission
  that still holds the execution lock, or as an error that left the row behind.
- `SlotHeld` carries `RunExclusive`: every executing task owns the run in the slot
  and no drop guard names it; a closing run has left the slot. A step therefore
  either leaves the slot, claims an empty one under a fresh id, gives its own
  back, or names its own run to a drop guard (`SlotMove`). `RecordHeld` adds the
  store's record of the run. `SlotOwned` (theorem `SlotHasAnOwner`) is the converse:
  a claimed slot has an executing task or a drop guard, or its caller left between
  claim and guard.
- `RowsInOrder`, `AppendFollowsRow` and `AppendIsFresh` carry the rest. Past the save
  the message is in the transcript, has had no turn, and no other queued row would
  resume it; only the lock's holder writes to the store (`UnlockedAlone`), so nobody
  spoils that before the handoff. Hence `ExecutedOnce`, `MarkerMeansUnstarted`, and
  that the row handed off is the head.

Every step is a move of one task, a step of a client, a wake, the end of a worker's
cycle, the firing of a drop guard or a restart (`Steps`). The lemmas of the first half say what a
move does to its task's record; each part of the invariant then has one lemma for
the task that moves (`ShapeMove`, `LockMove`, ...) and one that lifts it to all tasks
(`ShapeKept`, `LockKept`, ...). `LedgerIsKept` is the refinement of `PromptLedger`, by
what a move does to the store (`StoreMove`); a merge or a loss of a row that a
client has cancelled meanwhile is a stutter.

**Event bus.** `BusInv`: the ring is the end of the log without a hole
(`RingIsSuffix`, which is why the index computed from a cursor is right), cursors
lie in the log, only subscribers receive, nothing is kept that all have read, and
`NoLostWake`: who sleeps on news has been woken, or a sender is still on its way to
`notify_waiters`. That is inductive because `recv` registers before it looks.
`BusImplementsFeed` reads the log, the cursors and
the outcomes as `EventFeed`'s; each operation is one of its actions or a stutter.
A reclaim and an eviction are stutters, since the feed has no ring.

`LagInv` carries `LagMeansOverflow`. With `Spent(i)` for the bytes of the first `i`
events ever sent, the ring's bytes are `Spent(nextSequence) - Spent(Start)`, and what a
cursor behind the ring's start has left unread exceeds one of the two budgets.
A reclaim moves the start only up to a cursor; an eviction of the `k`-th entry says
that without it the ring was still too full, and what a receiver behind it has
unread is at least that. The invariant mentions sums over the log, so it takes
some induction. The library's theorem is over an operator; `UpTo` is over a set of
numbers instead, by `WFMin` on the order of the naturals, and from it come
`TotalsAdd` (the recursive function `Totals` exists and adds), `PartAdds` (a part of a
sequence sums to a difference) and `TotalsGrow`. That is why `SizeOf` is
defined by a recursive function.

**Event journal.** `JournalInv`: every pending or stored event has a sequence of its
own, not above the counter; everything stored above the floor is in the journal;
the floor is not above the high-water mark, nor that above the counter. A restart
takes the counter from the journal's end and the high-water mark: whatever was stored
is in the journal or below the floor, hence not above either. A batch of the retention
worker moves both marks and deletes in one transaction, which is what keeps this
through a crash.

**Replay.** `ReplayInv` joins the journal's invariant with one about events (`EventInv`:
ids are given once, and an event is on the bus at most once and not while it is still
to be broadcast) and one about the stream (`StreamOK`), in named parts: `Cursory` says
what the phases mean for the cursors; `SentFrom`, that all the replay has sent is stored
at or below its cursor and remembered or shed, and a live stream has sent only that
and what the bus carried up to its place; `WantedRows`, that a row wanted leaves the journal only
when the floor passes it; `WantedSent`, that until the floor moves the rows wanted below the
cursor of the replay have been sent and those above are on the page or above all of it.
`OncePerStream` alone is not inductive: a page sends nothing again because what was sent
lies below its rows, and the bus sends nothing again because an id is on it once and
overlaps are remembered by id, not by sequence. `ReplayComplete` needs to know that a page
is the lowest part of what is above the cursor (`FirstOnes`, on finite sets of numbers) and
that rows may vanish between the reading of the page's sequences and of its rows.

**Subtask completions.** `Inv`, in seven named parts: the types; the turn that the
worker has in hand is in the transcript and, once it runs, no longer marked saved
and not answered (`WorkerOK`); no notification with a saved marker was answered
(`HistoryOK`), because the row goes with the handoff and a second copy is
saved only where the transcript has no such message; and what the outbox has
given up was answered or cancelled (`AcknowledgedOK`). The last must also hold of the copy
of the row that `append_prompt` holds and may write back, and of the worker between
its turn and its acknowledgement, or it is not inductive. Frame lemmas
(`ChildFrame`, `StoreFrame`, ..) say which actions touch which group of variables, so
that each part is proved about the few that do; `RetireDeletes`, `AdmitAppends` and
`TailTakes` are the facts about the parent's queue.

`CareInv` adds who still looks after the family, and carries `NothingStranded`. While no
step has failed, what the child owes is in the hands of a prompt or a publisher
(`OwedOK`, by `Attended`). While, besides, the worker has not skipped its last
reconciliation (`Unhurt`), a reconciliation that leaves the rest to the worker has a
worker, or one that waits to reconcile after it (`ActiveOK`), and each pending completion
is listed by the reconciliation under way or has one to come (`ExpectedOK`): a waiting
reconciler, the parent's worker or a run of it, or a prompt of the child or a
publisher that is certain to ask for one (`Asked`). Which of them are certain is the delicate
part: a teardown passes over to a reconciliation when it does not publish, the
child's worker does not, and a publisher past its first look drops everything when the
child has become active again; that activity is then a prompt that will ask in its turn
(`WillAsk`, `AskedStep`). `FreshOK` says
that a prompt not made yet owes nothing and that what is owed has no completion, in the row
and in the copy of it that `append_prompt` holds and may write back. At rest none of these
is left, so nothing is owed or waits. Without `~failed` it is false: a failed
reconciliation leaves its completions to the next trigger. Without `~skipped` it is
false as well, which is `NeverStranded`.

Proved, and not among the runs' properties: `RevisionPerChange`, `AllocationFixed`,
`HandoffRetiresRow`, `SlotOwned`, `RingIsSuffix`, the types of the bus.

Only model-checked: liveness (`DestroyCompletes`, `QueuedIsServed`,
`SlotIsReleased`, `NewsIsHeard`), which is out of the prover's reach.
The properties that the code violates (`EnsureNeverPowersOn`, `StopHolds`, `NeverReplayed`,
`CursorIsPast`) are refuted by TLC.

A dead end that is by design: if ensure is committed, the coordinator dies
before the provider has recorded the generation and the lease then runs out, no
handle is ever learnt; the record can be neither driven nor destroyed nor
replaced. `DestroyCompletes` does not speak of it, since no destroy was committed.

## 6. Running it

    tlc -workers 2 -config MCSessionQueue.cfg MCSessionQueue
    tlapm MachineProvider_proofs.tla
    tlapm CloudRuntime_proofs.tla
    tlapm SessionQueue_proofs.tla
    tlapm EventBus_proofs.tla
    tlapm EventStream_proofs.tla
    tlapm EventStream_replay_proofs.tla
    tlapm SubtaskCompletion_proofs.tla

`PROJECT.json` lists the runs with their properties, the mutants with the
property each must break, the hazards with the properties that cover them, and
the findings.
