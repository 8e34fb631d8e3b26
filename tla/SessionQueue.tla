---------------------------- MODULE SessionQueue ----------------------------
(***************************************************************************)
(* The prompt queue of one session of neoism-agent-server: durable rows    *)
(* (state.rs), the in-memory run slot and queue worker                     *)
(* (session_coordinator.rs), the worker loop and the client operations     *)
(* (session_queue.rs), the initialization and execution of a prompt        *)
(* (session_prompt.rs) and the teardown of a run (session_run.rs).         *)
(*                                                                         *)
(* A task is a queue worker or a caller that prompts directly.  Both run   *)
(* the same append_prompt_admission; an executing run calls it again for   *)
(* every row it drains.  A step goes from one await that others can see to *)
(* the next.                                                               *)
(***************************************************************************)
EXTENDS Naturals, FiniteSets

CONSTANTS
    Msgs,       \* message ids; an id stands for its content
    NoMsg,
    NoReply,    \* the messages sent with no_reply
    Workers,    \* slots for spawned queue workers
    Callers,    \* slots for direct append_prompt calls
    NoTask,
    Deliveries, \* deliveries clients ask for, within Modes
    MaxRow,     \* bound: prompt rows ever admitted
    MaxCtl,     \* bound: compaction controls ever admitted
    MaxRun,     \* run ids; one that nobody refers to is used again
    MaxStep,    \* bound: provider steps a run takes of its own accord
    MaxCall,    \* bound: direct calls
    MaxFault    \* bound: failures and crashes

Tasks == Workers \cup Callers
Rows == 1 .. MaxRow
Ctls == 1 .. MaxCtl
Runs == 1 .. MaxRun
Modes == {"steer", "queue", "continue"}

ASSUME MessageAssumption == NoMsg \notin Msgs /\ NoReply \subseteq Msgs
ASSUME TaskAssumption == NoTask \notin Tasks /\ Workers \cap Callers = {}
ASSUME ModeAssumption == Deliveries \subseteq Modes
ASSUME BoundAssumption ==
    /\ {MaxRow, MaxCtl, MaxStep, MaxCall, MaxFault} \subseteq Nat
    /\ MaxRun \in Nat

\* What became of a row or a control.  Prompt rows are handed (to the run that
\* executes them), lost (handed off, but the commit was reported as an error),
\* merged (into the transcript, acknowledged) or cleared; controls are run,
\* failed or cleared.
RowFates == {"unused", "queued", "handed", "lost", "merged", "cleared"}
CtlFates == {"unused", "queued", "run", "failed", "cleared"}

Entry == [msg : Msgs \cup {NoMsg}, mode : Modes, saved : BOOLEAN]
NoEntry == [msg |-> NoMsg, mode |-> "queue", saved |-> FALSE]

WorkerPoints == {"wait", "control", "claim", "compacting", "cleanup", "peek",
                 "idle", "failed", "park"}
AppendPoints == {"enter", "save", "own", "start", "busy", "handoff"}
RunPoints == {"turn", "step", "drain", "steer", "decide", "finish", "closing"}

\* row 0: no admission; reply: create_stub_reply; run 0: owns no run.
Task == [pc : {"off"} \cup WorkerPoints \cup AppendPoints \cup RunPoints,
         row : {0} \cup Rows, msg : Msgs \cup {NoMsg}, reply : BOOLEAN,
         saved : BOOLEAN, ctl : {0} \cup Ctls, run : {0} \cup Runs,
         drained : BOOLEAN, step : 0 .. MaxStep]
Off == [pc |-> "off", row |-> 0, msg |-> NoMsg, reply |-> FALSE,
        saved |-> FALSE, ctl |-> 0, run |-> 0, drained |-> FALSE, step |-> 0]
Waiting == [Off EXCEPT !.pc = "wait"]

VARIABLES
    (* the store *)
    fate,       \* row -> what became of it; queued: it is in prompt_queue
    entry,      \* row -> its content and saved_message_id marker
    ctl,        \* compaction control -> what became of it
    messages,   \* the messages of the transcript
    recorded,   \* the runs whose session_runs row says running
    (* the coordinator's entry *)
    run,        \* the run in the slot, 0: none
    cancel,     \* its cancellation flag
    worker,     \* a worker owns the queue
    wake,       \* pending_wake
    (* locks and tasks *)
    guard,      \* the task holding the prompt admission lock
    admitting,  \* an admission holds the execution lock, its wake to come
    reapers,    \* runs a drop guard is about to abandon
    task,       \* task -> Task
    stopping,   \* a subagent stop stands between its abort and its clear
    calls, faults,
    (* history *)
    turns,      \* message -> turns of its own begun, counted up to 2
    read,       \* rows retained while a provider step was given their message
    parked,     \* durable work was left to a later wake, after an error
    leaked,     \* a caller went away with the slot and without a guard for it
    condemned   \* the rows that were queued when that stop aborted the run

storeVars == <<fate, entry, ctl, messages, recorded>>
slotVars == <<run, cancel, worker, wake>>
stopVars == <<stopping, condemned>>
countVars == <<calls, faults>>
historyVars == <<turns, read, leaked>>
lockVars == <<guard, admitting, reapers>>
asideVars == <<stopVars, countVars, historyVars, parked>>
vars == <<storeVars, slotVars, lockVars, task, asideVars>>

TypeOK ==
    /\ fate \in [Rows -> RowFates]
    /\ entry \in [Rows -> Entry]
    /\ ctl \in [Ctls -> CtlFates]
    /\ messages \subseteq Msgs
    /\ recorded \subseteq Runs
    /\ run \in {0} \cup Runs
    /\ {cancel, worker, wake, admitting, stopping, parked, leaked} \subseteq BOOLEAN
    /\ guard \in Tasks \cup {NoTask}
    /\ reapers \subseteq Runs
    /\ task \in [Tasks -> Task]
    /\ calls \in 0 .. MaxCall
    /\ faults \in 0 .. MaxFault
    /\ turns \in [Msgs -> 0 .. 2]
    /\ read \subseteq Rows
    /\ condemned \subseteq Rows

Init ==
    /\ fate = [r \in Rows |-> "unused"]
    /\ entry = [r \in Rows |-> NoEntry]
    /\ ctl = [c \in Ctls |-> "unused"]
    /\ messages = {} /\ recorded = {}
    /\ run = 0 /\ cancel = FALSE /\ worker = FALSE /\ wake = FALSE
    /\ guard = NoTask /\ admitting = FALSE /\ reapers = {}
    /\ task = [t \in Tasks |-> Off]
    /\ stopping = FALSE /\ condemned = {}
    /\ calls = 0 /\ faults = 0
    /\ turns = [m \in Msgs |-> 0] /\ read = {}
    /\ parked = FALSE /\ leaked = FALSE

-----------------------------------------------------------------------------
(* The store *)

Queue == {r \in Rows : fate[r] = "queued"}
Controls == {c \in Ctls : ctl[c] = "queued"}
Steerable == {r \in Queue : entry[r].mode \in {"steer", "continue"}}
Visible == {r \in Queue : entry[r].mode # "continue"}

\* Positions grow with the rows, so the head is the lowest.
IsHead(r, Q) == r \in Q /\ \A s \in Q : r <= s

\* The rows of R leave the queue with fate f.
Settled(R, f) == [r \in Rows |-> IF r \in R \cap Queue THEN f ELSE fate[r]]
Taken(C, f) == [c \in Ctls |-> IF c \in C \cap Controls THEN f ELSE ctl[c]]

IsNextRow(r) == fate[r] = "unused" /\ \A s \in Rows : s < r => fate[s] # "unused"
IsNextCtl(c) == ctl[c] = "unused" /\ \A d \in Ctls : d < c => ctl[d] # "unused"

-----------------------------------------------------------------------------
(* Tasks *)

At(t, pc) == task[t].pc = pc
Put(t, r) == task' = [task EXCEPT ![t] = r]
Go(t, pc) == Put(t, [task[t] EXCEPT !.pc = pc])

Free == guard = NoTask
Release(t) == guard' = IF guard = t THEN NoTask ELSE guard

\* The execution lock: an admission keeps it up to its wake, a prompt from the
\* claim of the slot until the session is registered as busy.
Unlocked == ~admitting /\ \A t \in Tasks : ~At(t, "busy")

\* A run id nobody refers to; ids are only compared, so the first will do.
Referred == {run} \cup reapers \cup recorded \cup {task[t].run : t \in Tasks}
FreshRun(i) == i \notin Referred /\ \A j \in Runs : j < i => j \in Referred

Fault == faults < MaxFault /\ faults' = faults + 1

\* What the task does once the append it is in has returned.  In a run, a
\* drained prompt; on a worker, the next iteration.
Succeeded(t) ==
    IF task[t].run # 0
    THEN [task[t] EXCEPT !.pc = "drain", !.drained = TRUE, !.row = 0,
                         !.msg = NoMsg, !.saved = FALSE]
    ELSE IF t \in Workers THEN Waiting ELSE Off
Erred(t) ==
    IF task[t].run # 0
    THEN [task[t] EXCEPT !.pc = "decide", !.row = 0, !.msg = NoMsg, !.saved = FALSE]
    ELSE IF t \in Workers THEN [Waiting EXCEPT !.pc = "failed", !.row = task[t].row]
    ELSE Off
Conflicted(t) == IF t \in Workers THEN Waiting ELSE Off

\* The admission is over, the task executes run i.
InTurn(i) == [Off EXCEPT !.pc = "turn", !.run = i]

\* The run's owner returns early: its guard abandons the run.
Unwound(t) ==
    IF t \in Workers THEN [Waiting EXCEPT !.pc = "failed", !.row = task[t].row]
    ELSE Off

-----------------------------------------------------------------------------
(* Admission and cancellation by clients *)

\* Commit the row; the wake follows under the same execution lock.  A message
\* already queued the same way only wakes.
Admit(m, d) ==
    /\ Unlocked
    /\ IF \E r \in Queue : entry[r].msg = m
       THEN /\ \E r \in Queue : entry[r].msg = m /\ entry[r].mode = d
            /\ UNCHANGED <<fate, entry>>
       ELSE \E r \in Rows :
            /\ IsNextRow(r)
            /\ fate' = [fate EXCEPT ![r] = "queued"]
            /\ entry' = [entry EXCEPT ![r] = [msg |-> m, mode |-> d, saved |-> FALSE]]
    /\ admitting' = TRUE
    /\ UNCHANGED <<ctl, messages, recorded, slotVars, guard, reapers, task,
                   asideVars>>

\* The commit succeeded but was reported as an error: nobody is woken.
AdmitUnacknowledged(m, d) ==
    /\ Unlocked /\ Fault
    /\ ~\E r \in Queue : entry[r].msg = m
    /\ \E r \in Rows :
        /\ IsNextRow(r)
        /\ fate' = [fate EXCEPT ![r] = "queued"]
        /\ entry' = [entry EXCEPT ![r] = [msg |-> m, mode |-> d, saved |-> FALSE]]
    /\ parked' = TRUE
    /\ UNCHANGED <<ctl, messages, recorded, slotVars, lockVars, task, stopVars,
                   calls, historyVars>>

\* INSERT OR IGNORE: at most one control is pending.
AdmitCompaction ==
    /\ Unlocked
    /\ IF Controls # {} THEN UNCHANGED ctl
       ELSE \E c \in Ctls : IsNextCtl(c) /\ ctl' = [ctl EXCEPT ![c] = "queued"]
    /\ admitting' = TRUE
    /\ UNCHANGED <<fate, entry, messages, recorded, slotVars, guard, reapers,
                   task, asideVars>>

AdmitCompactionUnacknowledged ==
    /\ Unlocked /\ Fault
    /\ Controls = {}
    /\ \E c \in Ctls : IsNextCtl(c) /\ ctl' = [ctl EXCEPT ![c] = "queued"]
    /\ parked' = TRUE
    /\ UNCHANGED <<fate, entry, messages, recorded, slotVars, lockVars, task,
                   stopVars, calls, historyVars>>

\* Variant: every wake starts a worker.
WakeAlways ==
    /\ worker' = TRUE
    /\ wake' = FALSE
    /\ \E w \in Workers : At(w, "off") /\ Put(w, Waiting)

\* Variant: a wake for a busy worker is dropped.
WakeDropped ==
    IF worker THEN UNCHANGED <<worker, wake, task>>
    ELSE /\ worker' = TRUE
         /\ wake' = FALSE
         /\ \E w \in Workers : At(w, "off") /\ Put(w, Waiting)

\* Coalesce into the worker there is, or start one.
Wake ==
    IF worker THEN wake' = TRUE /\ UNCHANGED <<worker, task>>
    ELSE /\ worker' = TRUE
         /\ wake' = FALSE
         /\ \E w \in Workers : At(w, "off") /\ Put(w, Waiting)

AdmitWake ==
    /\ admitting
    /\ admitting' = FALSE
    /\ Wake
    /\ parked' = FALSE
    /\ UNCHANGED <<storeVars, run, cancel, guard, reapers, stopVars, countVars,
                   historyVars>>

\* session_queue_clear: every row the user sees, under both locks.
Clear ==
    /\ Free /\ Unlocked
    /\ Visible \cup Controls # {}
    /\ fate' = Settled(Visible, "cleared")
    /\ ctl' = Taken(Controls, "cleared")
    /\ UNCHANGED <<entry, messages, recorded, slotVars, lockVars, task, asideVars>>

\* session_queue_pop: the control, or else the first row the user sees.
Pop ==
    /\ Free /\ Unlocked
    /\ IF Controls # {} THEN ctl' = Taken(Controls, "cleared") /\ UNCHANGED fate
       ELSE /\ \E r \in Rows : IsHead(r, Visible) /\ fate' = Settled({r}, "cleared")
            /\ UNCHANGED ctl
    /\ UNCHANGED <<entry, messages, recorded, slotVars, lockVars, task, asideVars>>

\* abort_session_run: the pending control goes, the run is asked to stop.
Abort ==
    /\ ctl' = Taken(Controls, "cleared")
    /\ cancel' = (run # 0 \/ cancel)

Stop ==
    /\ Unlocked
    /\ Controls # {} \/ (run # 0 /\ ~cancel)
    /\ Abort
    /\ UNCHANGED <<fate, entry, messages, recorded, run, worker, wake,
                   lockVars, task, asideVars>>

\* A parent stops a subagent: abort its run, then clear everything it has
\* queued without taking a lock.
StopSubagent ==
    /\ Unlocked /\ ~stopping
    /\ IF run # 0 THEN Abort /\ condemned' = Queue
       ELSE UNCHANGED <<ctl, cancel, condemned>>
    /\ stopping' = TRUE
    /\ UNCHANGED <<fate, entry, messages, recorded, run, worker, wake,
                   lockVars, task, countVars, historyVars, parked>>

ClearAll ==
    /\ stopping
    /\ fate' = Settled(Queue, "cleared")
    /\ ctl' = Taken(Controls, "cleared")
    /\ stopping' = FALSE /\ condemned' = {}
    /\ UNCHANGED <<entry, messages, recorded, slotVars, lockVars, task,
                   countVars, historyVars, parked>>

-----------------------------------------------------------------------------
(* The run slot *)

\* try_start_prompt_run with its cancellation flag, under the execution lock.
Claimed(i) ==
    /\ FreshRun(i)
    /\ run' = i
    /\ cancel' = FALSE

\* Variant: whatever run is in the slot leaves it.
VacatedAny(i) == run' = 0 /\ cancel' = FALSE

\* finish_run: only the run that is in the slot leaves it.
Vacated(i) ==
    IF run = i THEN run' = 0 /\ cancel' = FALSE ELSE UNCHANGED <<run, cancel>>

Durably(i) == recorded' = recorded \ {i}

\* abandon_session_run, spawned by the drop guard of a run whose future is gone.
Abandon(i) ==
    /\ i \in reapers
    /\ reapers' = reapers \ {i}
    /\ IF run = i THEN Durably(i) ELSE UNCHANGED recorded
    /\ Vacated(i)
    /\ UNCHANGED <<fate, entry, ctl, messages, worker, wake, guard, admitting,
                   task, asideVars>>

-----------------------------------------------------------------------------
(* The queue worker: drain_prompt_queue *)

WaitUntilIdle(w) ==
    /\ At(w, "wait") /\ run = 0
    /\ Go(w, "control")
    /\ UNCHANGED <<storeVars, slotVars, lockVars, asideVars>>

ReadControl(w) ==
    /\ At(w, "control")
    /\ IF Controls = {} THEN Go(w, "peek")
       ELSE \E c \in Controls : Put(w, [task[w] EXCEPT !.pc = "claim", !.ctl = c])
    /\ UNCHANGED <<storeVars, slotVars, lockVars, asideVars>>

\* Variant: the worker's earlier look at the control is permission enough.
ClaimCompactionStale(w) ==
    /\ At(w, "claim") /\ Unlocked
    /\ IF run # 0 THEN Put(w, Waiting) /\ UNCHANGED <<run, cancel, ctl, recorded>>
       ELSE \E i \in Runs :
            /\ Claimed(i)
            /\ ctl' = Taken(Controls, "run")
            /\ recorded' = recorded \cup {i}
            /\ Put(w, [task[w] EXCEPT !.pc = "compacting", !.run = i])
    /\ UNCHANGED <<fate, entry, messages, worker, wake, lockVars, asideVars>>

\* compact_owned: the slot first, then the control, which may be gone or be
\* another one by now.
ClaimCompaction(w) ==
    /\ At(w, "claim") /\ Unlocked
    /\ IF run # 0 \/ Controls = {}
       THEN Put(w, Waiting) /\ UNCHANGED <<run, cancel, ctl, recorded>>
       ELSE \E i \in Runs :
            /\ Claimed(i)
            /\ ctl' = Taken(Controls, "run")
            /\ recorded' = recorded \cup {i}
            /\ Put(w, [task[w] EXCEPT !.pc = "compacting", !.run = i])
    /\ UNCHANGED <<fate, entry, messages, worker, wake, lockVars, asideVars>>

\* The control could not be taken: the guard gives the slot back.
ClaimFails(w) ==
    /\ At(w, "claim") /\ Unlocked /\ run = 0 /\ Fault
    /\ \E i \in Runs : Claimed(i) /\ reapers' = reapers \cup {i}
    /\ Go(w, "cleanup")
    /\ UNCHANGED <<storeVars, worker, wake, guard, admitting, stopVars, calls,
                   historyVars, parked>>

\* release_owned_compaction_run, whatever came of the compaction.
EndCompaction(w) ==
    /\ At(w, "compacting")
    /\ Durably(task[w].run)
    /\ Vacated(task[w].run)
    /\ \E ok \in BOOLEAN :
        Put(w, IF ok THEN Waiting ELSE [task[w] EXCEPT !.pc = "cleanup", !.run = 0])
    /\ UNCHANGED <<fate, entry, ctl, messages, worker, wake, lockVars, asideVars>>

\* remove_compact_control: the control it read, never a newer one.
RemoveControl(w) ==
    /\ At(w, "cleanup")
    /\ ctl' = Taken({task[w].ctl}, "failed")
    /\ Put(w, Waiting)
    /\ UNCHANGED <<fate, entry, messages, recorded, slotVars, lockVars, asideVars>>

PeekPrompt(w) ==
    /\ At(w, "peek")
    /\ IF Queue = {} THEN Go(w, "idle")
       ELSE \E r \in Rows :
            /\ IsHead(r, Queue)
            /\ Put(w, [Off EXCEPT !.pc = "enter", !.row = r, !.msg = entry[r].msg,
                                  !.reply = entry[r].msg \notin NoReply])
    /\ UNCHANGED <<storeVars, slotVars, lockVars, asideVars>>

\* A read of the queue or of a row, or the removal of a failed control, fails.
QueueStoreFails(w) ==
    /\ \E pc \in {"control", "peek", "cleanup", "failed"} : At(w, pc)
    /\ Fault
    /\ Go(w, "park")
    /\ UNCHANGED <<storeVars, slotVars, lockVars, stopVars, calls, historyVars,
                   parked>>

\* Variant: a wake that came while the queue was read is ignored.
FinishCycleAtOnce(w) ==
    /\ At(w, "idle")
    /\ wake' = FALSE
    /\ worker' = FALSE
    /\ Put(w, Off)
    /\ UNCHANGED <<storeVars, run, cancel, lockVars, asideVars>>

\* finish_worker_cycle, after an empty peek.
FinishCycle(w) ==
    /\ At(w, "idle")
    /\ wake' = FALSE
    /\ worker' = wake
    /\ Put(w, IF wake THEN Waiting ELSE Off)
    /\ UNCHANGED <<storeVars, run, cancel, lockVars, asideVars>>

\* park_failed_worker: the same, with the work left where it is.
Park(w) ==
    /\ At(w, "park")
    /\ wake' = FALSE
    /\ worker' = wake
    /\ Put(w, IF wake THEN Waiting ELSE Off)
    /\ parked' = (parked \/ ~wake)
    /\ UNCHANGED <<storeVars, run, cancel, lockVars, stopVars, countVars,
                   historyVars>>

\* The append failed.  A row that is gone was handed off or cancelled.
PromptFailed(w) ==
    /\ At(w, "failed")
    /\ IF task[w].row \in Queue THEN Go(w, "park") ELSE Put(w, Waiting)
    /\ UNCHANGED <<storeVars, slotVars, lockVars, asideVars>>

-----------------------------------------------------------------------------
(* append_prompt_admission *)

DirectPrompt(c, m) ==
    /\ At(c, "off") /\ calls < MaxCall
    /\ calls' = calls + 1
    /\ Put(c, [Off EXCEPT !.pc = "enter", !.msg = m, !.reply = m \notin NoReply])
    /\ UNCHANGED <<storeVars, slotVars, lockVars, stopVars, faults,
                   historyVars, parked>>

\* Take the prompt lock; look at the row and the slot again under it.
EnterAdmission(t) ==
    /\ At(t, "enter") /\ Free
    /\ LET r == task[t].row IN
       IF r # 0 /\ r \notin Queue THEN Put(t, Erred(t)) /\ UNCHANGED guard
       ELSE IF task[t].reply /\ run # 0 THEN Put(t, Conflicted(t)) /\ UNCHANGED guard
       ELSE /\ Put(t, [task[t] EXCEPT !.pc = "save", !.saved = r # 0 /\ entry[r].saved])
            /\ guard' = t
    /\ UNCHANGED <<storeVars, slotVars, admitting, reapers, asideVars>>

Acknowledge(t) == fate' = Settled({task[t].row}, "merged")

\* Variant: the marker is set by message id, not by row.
PersistByMessage(t) ==
    /\ messages' = messages \cup {task[t].msg}
    /\ entry' = [r \in Rows |->
        IF r \in Queue /\ entry[r].msg = task[t].msg
        THEN [entry[r] EXCEPT !.saved = TRUE] ELSE entry[r]]

\* The message and the row's marker commit together.
Persist(t) ==
    /\ messages' = messages \cup {task[t].msg}
    /\ entry' = [r \in Rows |->
        IF r = task[t].row /\ r \in Queue THEN [entry[r] EXCEPT !.saved = TRUE]
        ELSE entry[r]]

\* Variant: a message that is there already is always resumed.
SavePromptAgain(t) ==
    /\ At(t, "save")
    /\ IF task[t].msg \notin messages THEN Persist(t) ELSE UNCHANGED <<entry, messages>>
    /\ Go(t, "own")
    /\ UNCHANGED <<fate, ctl, recorded, slotVars, lockVars, asideVars>>

\* A message that is there already is resumed if this row saved it, else the
\* admission is a duplicate and is acknowledged.
SavePrompt(t) ==
    /\ At(t, "save")
    /\ IF task[t].msg \notin messages
       THEN Persist(t) /\ Go(t, "own") /\ UNCHANGED <<fate, guard>>
       ELSE IF task[t].saved
       THEN Go(t, "own") /\ UNCHANGED <<fate, entry, messages, guard>>
       ELSE /\ Acknowledge(t)
            /\ Put(t, Succeeded(t))
            /\ Release(t)
            /\ UNCHANGED <<entry, messages>>
    /\ UNCHANGED <<ctl, recorded, slotVars, admitting, reapers, asideVars>>

\* The save committed, but was reported as an error, and there is no row whose
\* marker says that it is this call's: taken for a duplicate.
SaveUnacknowledged(t) ==
    /\ At(t, "save") /\ Fault
    /\ task[t].msg \notin messages /\ task[t].row \notin Queue
    /\ messages' = messages \cup {task[t].msg}
    /\ Put(t, Succeeded(t))
    /\ Release(t)
    /\ UNCHANGED <<fate, entry, ctl, recorded, slotVars, admitting, reapers,
                   stopVars, calls, historyVars, parked>>

\* Execution ownership; without a reply to make, that is all.
OwnExecution(t) ==
    /\ At(t, "own")
    /\ IF task[t].reply THEN Go(t, "start") /\ UNCHANGED <<fate, guard>>
       ELSE Acknowledge(t) /\ Put(t, Succeeded(t)) /\ Release(t)
    /\ UNCHANGED <<entry, ctl, messages, recorded, slotVars, admitting,
                   reapers, asideVars>>

\* The append is to end with the acknowledgement of its row.
Acknowledging(t) ==
    \/ At(t, "own") /\ ~task[t].reply
    \/ At(t, "save") /\ task[t].msg \in messages /\ ~task[t].saved

\* An error before the run is claimed.  An acknowledgement may have committed.
AppendFails(t) ==
    /\ \E pc \in {"save", "own"} : At(t, pc)
    /\ Fault
    /\ UNCHANGED fate \/ (Acknowledging(t) /\ Acknowledge(t))
    /\ Put(t, Erred(t))
    /\ Release(t)
    /\ UNCHANGED <<entry, ctl, messages, recorded, slotVars, admitting,
                   reapers, stopVars, calls, historyVars, parked>>

\* The message's own turn begins.
Begin(m) == turns' = [turns EXCEPT ![m] = IF @ < 2 THEN @ + 1 ELSE @]

\* start_session_run_for_prompt claims the slot; its record of the run, which
\* nothing reads before the handoff, is best effort.
StartRun(t) ==
    /\ At(t, "start") /\ Unlocked
    /\ IF run # 0
       THEN /\ Put(t, Conflicted(t))
            /\ Release(t)
            /\ UNCHANGED <<run, cancel, recorded>>
       ELSE \E i \in Runs :
            /\ Claimed(i)
            /\ recorded' \in {recorded, recorded \cup {i}}
            /\ Put(t, [task[t] EXCEPT !.pc = "busy", !.run = i])
            /\ UNCHANGED guard
    /\ UNCHANGED <<fate, entry, ctl, messages, worker, wake, admitting,
                   reapers, asideVars>>

\* The session is registered as busy and the run has its guard; a direct prompt
\* has no row to hand off.
GuardRun(t) ==
    /\ At(t, "busy")
    /\ IF task[t].row # 0 THEN Go(t, "handoff") /\ UNCHANGED <<guard, turns>>
       ELSE Put(t, InTurn(task[t].run)) /\ Release(t) /\ Begin(task[t].msg)
    /\ UNCHANGED <<storeVars, slotVars, admitting, reapers, stopVars, countVars,
                   read, leaked, parked>>

\* Variant: the row stays until the turn is over.
HandoffKeepsRow(t) ==
    /\ At(t, "handoff")
    /\ recorded' = recorded \cup {task[t].run}
    /\ Release(t)
    /\ Begin(task[t].msg)
    /\ Put(t, InTurn(task[t].run))
    /\ UNCHANGED <<fate, entry, ctl, messages, slotVars, admitting, reapers, stopVars,
                   countVars, read, leaked, parked>>

\* Variant: the run's own best-effort record is relied on.
HandoffUnrecorded(t) ==
    /\ At(t, "handoff")
    /\ Release(t)
    /\ IF task[t].row \in Queue
       THEN /\ fate' = Settled({task[t].row}, "handed")
            /\ Begin(task[t].msg)
            /\ Put(t, InTurn(task[t].run))
            /\ UNCHANGED reapers
       ELSE /\ reapers' = reapers \cup {task[t].run}
            /\ Put(t, Unwound(t))
            /\ UNCHANGED <<fate, turns>>
    /\ UNCHANGED <<entry, ctl, messages, recorded, slotVars, admitting, stopVars,
                   countVars, read, leaked, parked>>

\* One transaction records the run and retires the row.
Handoff(t) ==
    /\ At(t, "handoff")
    /\ recorded' = recorded \cup {task[t].run}
    /\ Release(t)
    /\ IF task[t].row \in Queue
       THEN /\ fate' = Settled({task[t].row}, "handed")
            /\ Begin(task[t].msg)
            /\ Put(t, InTurn(task[t].run))
            /\ UNCHANGED reapers
       ELSE /\ reapers' = reapers \cup {task[t].run}
            /\ Put(t, Unwound(t))
            /\ UNCHANGED <<fate, turns>>
    /\ UNCHANGED <<entry, ctl, messages, slotVars, admitting, stopVars,
                   countVars, read, leaked, parked>>

\* The transaction is reported as an error, whether it committed or not.
HandoffFails(t) ==
    /\ At(t, "handoff") /\ Fault
    /\ \/ UNCHANGED <<fate, recorded>>
       \/ /\ fate' = Settled({task[t].row}, "lost")
          /\ recorded' = recorded \cup {task[t].run}
    /\ reapers' = reapers \cup {task[t].run}
    /\ Put(t, Unwound(t))
    /\ Release(t)
    /\ UNCHANGED <<entry, ctl, messages, slotVars, admitting, stopVars, calls,
                   historyVars, parked>>

-----------------------------------------------------------------------------
(* The run of a prompt *)

\* drain_manual_compaction_for_run, at the safe boundaries of the run.
ClaimInRun(t) ==
    /\ Unlocked
    /\ ctl' = IF run = task[t].run /\ ~cancel THEN Taken(Controls, "run") ELSE ctl

\* Before the first provider step.
BeginTurn(t) ==
    /\ At(t, "turn")
    /\ ClaimInRun(t)
    /\ Go(t, "step")
    /\ UNCHANGED <<fate, entry, messages, recorded, slotVars, lockVars, asideVars>>

\* A provider step is given the whole transcript, the messages of rows retained
\* after a failure among them.
Retained == {r \in Queue : entry[r].saved}

ProviderStep(t) ==
    /\ read' = read \cup Retained
    /\ Put(t, [task[t] EXCEPT !.pc = "drain", !.drained = FALSE])

FirstStep(t) ==
    /\ At(t, "step")
    /\ IF cancel THEN Go(t, "finish") /\ UNCHANGED read ELSE ProviderStep(t)
    /\ UNCHANGED <<storeVars, slotVars, lockVars, stopVars, countVars, turns, leaked,
                   parked>>

\* drain_queued_prompts_into_active_run, one turn of its loop.
DrainBoundary(t) ==
    /\ At(t, "drain")
    /\ ClaimInRun(t)
    /\ Go(t, "steer")
    /\ UNCHANGED <<fate, entry, messages, recorded, slotVars, lockVars, asideVars>>

DrainPrompt(t) ==
    /\ At(t, "steer")
    /\ IF cancel \/ Steerable = {} THEN Go(t, "decide")
       ELSE \E r \in Rows :
            /\ IsHead(r, Steerable)
            /\ Put(t, [task[t] EXCEPT !.pc = "enter", !.row = r,
                                      !.msg = entry[r].msg, !.reply = FALSE])
    /\ UNCHANGED <<storeVars, slotVars, lockVars, asideVars>>

\* Variant: the step limit is not looked at.
FollowUpUnlimited(t) ==
    /\ At(t, "decide") /\ ~cancel
    /\ read' = read \cup Retained
    /\ Put(t, [task[t] EXCEPT !.pc = "drain", !.drained = FALSE,
                              !.step = IF task[t].drained THEN @ ELSE @ + 1])
    /\ UNCHANGED <<storeVars, slotVars, lockVars, stopVars, countVars, turns, leaked, parked>>

\* Another provider step: for the prompts drained, or of the run's own accord
\* (tool calls, a length limit, an active goal).
FollowUp(t) ==
    /\ At(t, "decide") /\ ~cancel
    /\ read' = read \cup Retained
    /\ \/ /\ task[t].drained
          /\ Put(t, [task[t] EXCEPT !.pc = "drain", !.drained = FALSE])
       \/ /\ ~task[t].drained /\ task[t].step < MaxStep
          /\ Put(t, [task[t] EXCEPT !.pc = "drain", !.step = @ + 1])
    /\ UNCHANGED <<storeVars, slotVars, lockVars, stopVars, countVars, turns, leaked,
                   parked>>

EndTurn(t) ==
    /\ At(t, "decide")
    /\ cancel \/ ~task[t].drained
    /\ Go(t, "finish")
    /\ UNCHANGED <<storeVars, slotVars, lockVars, asideVars>>

\* try_finish_session_run: durable state first, then the slot.
FinishRun(t) ==
    /\ At(t, "finish")
    /\ Durably(task[t].run)
    /\ Vacated(task[t].run)
    /\ Go(t, "closing")
    /\ UNCHANGED <<fate, entry, ctl, messages, worker, wake, lockVars, asideVars>>

\* Completions are reconciled and the guard is disarmed.
CloseRun(t) ==
    /\ At(t, "closing")
    /\ Put(t, IF t \in Workers THEN Waiting ELSE Off)
    /\ UNCHANGED <<storeVars, slotVars, lockVars, asideVars>>

\* A provider, tool or store error ends the run.
TurnFails(t) ==
    /\ \E pc \in {"step", "decide"} : At(t, pc)
    /\ Fault
    /\ reapers' = reapers \cup {task[t].run}
    /\ Put(t, Unwound(t))
    /\ UNCHANGED <<storeVars, slotVars, guard, admitting, stopVars, calls,
                   historyVars, parked>>

\* Variant: no guard abandons the run of a dropped future.
CallerGoneUnguarded(c) ==
    /\ ~At(c, "off")
    /\ Put(c, Off)
    /\ Release(c)
    /\ UNCHANGED <<storeVars, slotVars, admitting, reapers, asideVars>>

\* The HTTP caller goes away and its future is dropped, wherever it stands.  The
\* guard abandons the run; before there is one the slot stays claimed.
CallerGone(c) ==
    /\ ~At(c, "off")
    /\ reapers' = IF task[c].run # 0 /\ ~At(c, "busy")
                  THEN reapers \cup {task[c].run} ELSE reapers
    /\ leaked' = (leaked \/ At(c, "busy"))
    /\ Put(c, Off)
    /\ Release(c)
    /\ UNCHANGED <<storeVars, slotVars, admitting, stopVars, countVars, turns,
                   read, parked>>

\* The server dies and starts again: stale runs are interrupted, and a session
\* with anything in its queue gets a worker.
Restart ==
    /\ Fault
    /\ recorded' = {}
    /\ run' = 0 /\ cancel' = FALSE /\ wake' = FALSE
    /\ guard' = NoTask /\ admitting' = FALSE /\ reapers' = {}
    /\ stopping' = FALSE /\ condemned' = {}
    /\ parked' = FALSE /\ leaked' = FALSE
    /\ worker' = (Queue \cup Controls # {})
    /\ \E w \in Workers :
        task' = [t \in Tasks |-> IF worker' /\ t = w THEN Waiting ELSE Off]
    /\ UNCHANGED <<fate, entry, ctl, messages, calls, turns, read>>

-----------------------------------------------------------------------------
Client ==
    \/ \E m \in Msgs, d \in Deliveries : Admit(m, d) \/ AdmitUnacknowledged(m, d)
    \/ AdmitCompaction \/ AdmitCompactionUnacknowledged \/ AdmitWake
    \/ Clear \/ Pop \/ Stop \/ StopSubagent \/ ClearAll
    \/ \E c \in Callers : CallerGone(c) \/ \E m \in Msgs : DirectPrompt(c, m)

WorkerStep(w) ==
    \/ WaitUntilIdle(w) \/ ReadControl(w) \/ EndCompaction(w) \/ RemoveControl(w)
    \/ PeekPrompt(w) \/ FinishCycle(w) \/ Park(w) \/ PromptFailed(w)

AppendStep(t) == SavePrompt(t) \/ OwnExecution(t) \/ GuardRun(t) \/ Handoff(t)

TurnStep(t) ==
    \/ FirstStep(t) \/ DrainPrompt(t) \/ FollowUp(t) \/ EndTurn(t) \/ FinishRun(t)
    \/ CloseRun(t)

\* The steps that wait for a lock.
LockStep(t) == EnterAdmission(t) \/ StartRun(t) \/ BeginTurn(t) \/ DrainBoundary(t)

TaskStep(t) == AppendStep(t) \/ TurnStep(t) \/ LockStep(t)

Failure ==
    \/ \E w \in Workers : ClaimFails(w) \/ QueueStoreFails(w)
    \/ \E t \in Tasks :
        SaveUnacknowledged(t) \/ AppendFails(t) \/ HandoffFails(t) \/ TurnFails(t)
    \/ Restart

Next ==
    \/ Client
    \/ \E w \in Workers : WorkerStep(w) \/ ClaimCompaction(w)
    \/ \E t \in Tasks : TaskStep(t)
    \/ \E i \in Runs : Abandon(i)
    \/ Failure

Spec == Init /\ [][Next]_vars

GoesOn(t) == AppendStep(t) \/ TurnStep(t) \/ (t \in Workers /\ WorkerStep(t))
IsServed(t) == LockStep(t) \/ (t \in Workers /\ ClaimCompaction(t))

\* A task that can go on does; the locks are handed over in the order in which
\* they were asked for, so a task that asks again and again is served; provider
\* steps and compactions return.
Fairness ==
    /\ \A t \in Tasks : WF_vars(GoesOn(t)) /\ SF_vars(IsServed(t))
    /\ WF_vars(\E i \in Runs : Abandon(i))
    /\ WF_vars(AdmitWake) /\ WF_vars(ClearAll)

FairSpec == Spec /\ Fairness

-----------------------------------------------------------------------------
(* The inductive invariant: why the promises below hold *)

Executing(t) == task[t].run # 0 /\ ~At(t, "closing")

\* The points at which a task holds the prompt lock, and those of an append.
LockedPoints == AppendPoints \ {"enter"}

\* Where a task that owns a run can be; a caller knows a row only inside its run,
\* a worker has one in every append.
TaskShape ==
    \A t \in Tasks :
        /\ task[t].run # 0 =>
              task[t].pc \in RunPoints \cup {"compacting", "busy", "handoff",
                                          "enter", "save", "own"}
        /\ task[t].pc \in RunPoints \cup {"compacting", "busy", "handoff"} =>
              task[t].run # 0
        /\ task[t].run # 0 /\ task[t].pc \in {"enter", "save", "own"} => ~task[t].reply
        /\ t \in Callers => task[t].pc \notin WorkerPoints
        /\ t \in Callers /\ task[t].row # 0 => task[t].run # 0
        /\ t \in Workers /\ task[t].pc \in AppendPoints => task[t].row # 0

PromptLockHeld ==
    \A t \in Tasks : task[t].pc \in LockedPoints <=> guard = t

\* worker is the worker, and there is one.
WorkerOwned ==
    /\ worker <=> \E w \in Workers : ~At(w, "off")
    /\ \A w, v \in Workers : ~At(w, "off") /\ ~At(v, "off") => w = v

\* The slot belongs to whoever executes; one that closes has left it.
SlotHeld ==
    \A t \in Tasks :
        /\ Executing(t) => run = task[t].run /\ run \notin reapers
        /\ At(t, "closing") => run # task[t].run
        /\ \A u \in Tasks : Executing(t) /\ Executing(u) => t = u

\* Once handed off, and while it drains other prompts, a run is on record.
RecordHeld ==
    \A w \in Workers :
        Executing(w) /\ task[w].pc \notin {"busy", "handoff"} =>
            task[w].run \in recorded

\* What came into the queue after the worker's look has a wake to show for it.
LookedAndMissed ==
    \A w \in Workers :
        /\ At(w, "peek") /\ Controls # {} => wake \/ admitting \/ parked
        /\ At(w, "idle") /\ Queue \cup Controls # {} => wake \/ admitting \/ parked

\* Rows are used in order, each for a message, and no message is queued twice.
RowsInOrder ==
    /\ \A r, s \in Rows : r < s /\ fate[s] # "unused" => fate[r] # "unused"
    /\ \A r \in Rows : fate[r] # "unused" => entry[r].msg \in Msgs
    /\ \A r, s \in Queue : entry[r].msg = entry[s].msg => r = s

TurnsKept == \A m \in Msgs : turns[m] # 0 => m \in messages

\* An append works on the row it was started for, the head if it will hand off.
AppendFollowsRow ==
    \A t \in Tasks : task[t].pc \in AppendPoints =>
        /\ task[t].msg \in Msgs
        /\ task[t].row # 0 =>
              /\ fate[task[t].row] # "unused"
              /\ entry[task[t].row].msg = task[t].msg
        /\ task[t].row \in Queue
           /\ (task[t].run = 0 \/ task[t].pc \in {"busy", "handoff"}) =>
              IsHead(task[t].row, Queue)

\* Past the save the message is kept, unstarted, and resumed by nobody else.
AppendIsFresh ==
    \A t \in Tasks :
        task[t].pc \in {"own", "start", "busy", "handoff"}
           \/ (At(t, "save") /\ task[t].saved) =>
            /\ task[t].msg \in messages /\ turns[task[t].msg] = 0
            /\ \A r \in Queue :
                  entry[r].saved /\ entry[r].msg = task[t].msg => r = task[t].row

-----------------------------------------------------------------------------
(* Properties *)

\* The queue has an owner exactly while the coordinator says so, and one only:
\* wake and finish_worker_cycle never start a second worker or lose the one
\* there is.
OneWorker ==
    /\ Cardinality({w \in Workers : ~At(w, "off")}) <= 1
    /\ worker <=> \E w \in Workers : ~At(w, "off")

\* Whoever executes or compacts holds the session's one run slot, so no two
\* tasks ever do, and no drop guard abandons a run that is not its own.
RunExclusive ==
    /\ \A t \in Tasks : Executing(t) => run = task[t].run
    /\ \A t, u \in Tasks : Executing(t) /\ Executing(u) => t = u
    /\ \A t \in Tasks : Executing(t) => run \notin reapers

\* Work in the queue has a worker, or a wake under way, or was left to a later
\* wake after an error: a wake racing with an empty peek is not lost.
NoLostWakeup == Queue \cup Controls # {} => worker \/ admitting \/ parked

\* However often a message is submitted, queued, retried after a failure or
\* picked up after a restart, its turn is started at most once.
ExecutedOnce == \A m \in Msgs : turns[m] <= 1

\* A recovery marker vouches for a message of the transcript whose turn has not
\* been started: a row that resumes initialization replays nothing.
MarkerMeansUnstarted ==
    \A r \in Queue : entry[r].saved =>
        entry[r].msg \in messages /\ turns[entry[r].msg] = 0

\* While a queued prompt executes, the store says that its run is running.
RunRecorded ==
    \A w \in Workers :
        task[w].pc \in RunPoints \ {"closing"} => task[w].run \in recorded

QueueInv ==
    /\ TypeOK /\ TaskShape /\ PromptLockHeld
    /\ WorkerOwned /\ NoLostWakeup /\ LookedAndMissed
    /\ SlotHeld /\ RecordHeld
    /\ RowsInOrder /\ TurnsKept /\ AppendFollowsRow /\ AppendIsFresh
    /\ MarkerMeansUnstarted

\* Only a row that is still queued starts a turn on a worker.
HandoffRetiresRow ==
    [][\A w \in Workers : At(w, "handoff") /\ task'[w].pc = "turn" =>
        fate[task[w].row] = "queued" /\ fate'[task[w].row] = "handed"]_vars

\* The queue keeps what PromptLedger promises: whatever clients, workers,
\* callers, failures and restarts do, a row is settled once, rows are handed off
\* in the order of their admission and no message has two turns.
ContentOf == [r \in Rows |-> entry[r].msg]
Ledger == INSTANCE PromptLedger
    WITH Messages <- Msgs, content <- ContentOf, transcript <- messages
LedgerImplemented == Ledger!LedgerSpec

\* A compaction runs only by consuming a control that is pending at that
\* moment: one that Stop or Clear removed after the worker saw it does not run.
CompactionIsAuthorized ==
    [][\A w \in Workers : ~At(w, "compacting") /\ task'[w].pc = "compacting" =>
        \E c \in Controls : ctl'[c] = "run"]_vars

\* Every row leaves the queue or is left to a later wake by an error, unless a
\* caller went away between its claim of the slot and the guard for it.
QueuedIsServed ==
    \A r \in Rows : fate[r] = "queued" ~> fate[r] # "queued" \/ parked \/ leaked

\* Whatever else happens to a run, the slot is not stranded.
SlotIsReleased == \A i \in Runs : run = i ~> run # i \/ leaked

\* A claimed slot has a task that will release it, or a drop guard about to.
SlotOwned ==
    run # 0 => leaked \/ run \in reapers \/ \E t \in Tasks : Executing(t)

\* "Cancellation or an I/O error leaves in-memory ownership intact so a cleanup
\* guard can retry the exact same run" (session_run.rs): the same, always.
SlotAlwaysOwned ==
    run # 0 => run \in reapers \/ \E t \in Tasks : Executing(t)

\* "Used when forcibly stopping a subagent so its pending follow-ups do not
\* start after cancellation" (session_queue.rs, clear_session_prompt_queue): a
\* row that is queued when the abort cancels the run is not handed off, unless
\* to a run that is cancelled too.
StopHolds ==
    [][\A r \in condemned : fate[r] = "queued" /\ fate'[r] = "handed" => cancel]_vars

\* "Safe handoff boundary: never replay model/tool work using a retained row"
\* (session_prompt.rs): a message given to the model by one run is not handed
\* to another as a turn of its own.
NeverReplayed ==
    [][\A r \in Rows : fate[r] = "queued" /\ fate'[r] = "handed" =>
        r \notin read]_vars
=============================================================================
