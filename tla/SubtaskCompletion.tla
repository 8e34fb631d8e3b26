------------------------ MODULE SubtaskCompletion ------------------------
(***************************************************************************)
(* How the result of a background subtask reaches the parent session       *)
(* (session_actions.rs of neoism-agent-server): the child session carries  *)
(* the prompt whose completion it owes and an outbox of completions, the   *)
(* parent receives each as a runtime prompt with the completion's own      *)
(* message id.  One child, one parent; the two sessions' queues and runs   *)
(* are SessionQueue's, here reduced to what the outbox sees of them.       *)
(*                                                                         *)
(* A step goes from one await that others can see to the next.  The        *)
(* holders of subtask_completion_locks read and write the child's row in   *)
(* one step; append_prompt writes it back without that lock.               *)
(***************************************************************************)
EXTENDS Naturals, Sequences

CONSTANTS
    Gens,       \* prompts of the child: the generations of its completions
    NoGen,
    Hook,       \* the startup scan, or the abort of a child that is idle
    NoOne,
    MaxRec,     \* bound: completions ever recorded
    MaxEvent    \* bound: the user's prompts and aborts, failures, and crashes
                \* other than the one that follows a failure

ASSUME BoundAssumption == {MaxRec, MaxEvent} \subseteq Nat

Recs == 1 .. MaxRec
Publishers == Gens \cup {Hook}
Teardowns == {"run", "user"}    \* of a run of the parent: its worker's, a user's
Others == {"child", "worker", "startup"}
Reconcilers == Publishers \cup Teardowns \cup Others

\* The names are of different things.
ASSUME NameAssumption ==
    /\ NoGen \notin Gens /\ Hook \notin Gens /\ NoOne \notin Reconcilers
    /\ Publishers \cap (Teardowns \cup Others) = {}

\* A completion: the generation it is of, and whether the parent is still to
\* be notified of it.
Outbox == [Recs -> [gen : Gens \cup {NoGen}, pending : BOOLEAN]]
Unmade == [gen |-> NoGen, pending |-> FALSE]

\* A prompt of the child waits for the child (waiting: on append_prompt, queued:
\* in the child's queue), is initialized, runs, and then publishes.
PromptPoints == {"new", "marked", "waiting", "queued", "init", "run", "over"}
PublishPoints == {"deferred", "idle", "check", "mark", "notify", "done"}

VARIABLES
    (* the child's durable row *)
    owed,       \* subtaskNotifyOnIdle: the generation it owes
    outbox,     \* subtaskCompletions
    made,       \* message ids made for completions
    (* the parent's store *)
    queue,      \* its queued notifications, in order
    saved,      \* those whose row carries the saved marker
    turns,      \* the notifications in its transcript
    replied,    \* those a successful reply follows
    (* the child's prompts and the publishers *)
    at,         \* where each of them is
    steered,    \* the prompts delivered as a queue row
    pub,        \* the generation it publishes
    deferred,   \* the direct prompts whose teardown publishes first
    loaded,     \* the child's row as the prompt that is initialized read it
    (* the parent's run slot and worker *)
    prun,       \* "none", "worker" or "user"
    worker,     \* [at, id, failed]: the drain worker
    wake,       \* pending_wake
    (* subtask_parent_locks *)
    want,       \* who waits to reconcile the parent
    rec,        \* the reconciliation in progress
    (* bounds and history *)
    events,     \* the user's prompts and aborts, failures and crashes so far
    answered,   \* notifications whose own run ended with a reply
    cancelled,  \* notifications whose own run was cancelled before a reply
    failed,     \* something failed since the server started
    skipped     \* the parent's worker ended without its last reconciliation,
                \* and none has read the outbox since

childVars == <<owed, outbox, made>>
parentVars == <<queue, saved, turns, replied>>
promptVars == <<at, steered, pub, deferred, loaded>>
slotVars == <<prun, worker, wake>>
lockVars == <<want, rec>>
historyVars == <<answered, cancelled, skipped>>
vars == <<childVars, parentVars, promptVars, slotVars, lockVars, events,
          historyVars, failed>>

Asleep == [at |-> "off", id |-> 0, failed |-> FALSE]
Awake(failing) == [at |-> "wait", id |-> 0, failed |-> failing]
Unlocked == [who |-> NoOne, at |-> "free", pending |-> {}, active |-> FALSE,
             turns |-> {}, replied |-> {}]

\* The state is well-typed, one run at a time in the child, completions under
\* message ids that were made for them, and the queue names each only once.
TypeOK ==
    /\ owed \in Gens \cup {NoGen} /\ outbox \in Outbox /\ made \in 0 .. MaxRec
    /\ \A i \in Recs : outbox[i] # Unmade => i <= made
    /\ queue \in Seq(1 .. made) /\ saved \subseteq turns
    /\ \A i \in saved : \E k \in 1 .. Len(queue) : queue[k] = i
    /\ \A i, j \in 1 .. Len(queue) : queue[i] = queue[j] => i = j
    /\ replied \subseteq turns /\ turns \subseteq 1 .. made
    /\ at \in [Publishers -> PromptPoints \cup PublishPoints]
    /\ steered \subseteq Gens /\ deferred \subseteq Publishers
    /\ pub \in [Publishers -> Gens \cup {NoGen}]
    /\ loaded \in [owed : Gens \cup {NoGen}, outbox : Outbox]
    /\ prun \in {"none", "worker", "user"} /\ wake \in BOOLEAN
    /\ worker \in [at : {"off", "wait", "save", "own", "run", "ack", "failed"},
                   id : 0 .. made, failed : BOOLEAN]
    /\ prun = "worker" => worker.at = "run"
    /\ \A g, h \in Gens : at[g] = "run" /\ at[h] = "run" => g = h
    /\ want \subseteq Reconcilers
    /\ rec \in [who : Reconcilers \cup {NoOne}, at : {"free", "read", "each"},
                pending : SUBSET Recs, active : BOOLEAN,
                turns : SUBSET Recs, replied : SUBSET Recs]
    /\ answered \cup cancelled \subseteq turns
    /\ failed \in BOOLEAN /\ skipped \in BOOLEAN
    /\ events \in 0 .. MaxEvent

NoRow == [owed |-> NoGen, outbox |-> [i \in Recs |-> Unmade]]

Init ==
    /\ owed = NoGen /\ outbox = [i \in Recs |-> Unmade] /\ made = 0
    /\ queue = <<>> /\ saved = {} /\ turns = {} /\ replied = {}
    /\ at = [p \in Publishers |-> IF p = Hook THEN "done" ELSE "new"]
    /\ steered = {} /\ deferred = {} /\ pub = [p \in Publishers |-> NoGen]
    /\ loaded = NoRow
    /\ prun = "none" /\ worker = Asleep /\ wake = FALSE
    /\ want = {} /\ rec = Unlocked
    /\ events = 0
    /\ answered = {} /\ cancelled = {} /\ failed = FALSE /\ skipped = FALSE

-----------------------------------------------------------------------------
(* Readings and updates that several operations share.                     *)

Pending == {i \in Recs : outbox[i].pending}
RecordsOf(g) == {i \in Recs : outbox[i].gen = g}
Queued(i) == \E k \in 1 .. Len(queue) : queue[k] = i

\* The startup has not reconciled yet.
Starting == "startup" \in want

Running == \E g \in Gens : at[g] = "run"
Initializing == \E g \in Gens : at[g] = "init"

\* A run, a worker or a queue row of the child.  A direct prompt counts only
\* once its run has started.
subtask_has_active_work ==
    \/ Running
    \/ \E g \in steered : at[g] \in {"queued", "init", "over"}

Goes(p, point) == at' = [at EXCEPT ![p] = point]
Event == events < MaxEvent /\ events' = events + 1
Fails == Event /\ failed' = TRUE

\* The acknowledgement reloads the child's row under its lock.
Acknowledged(i) == [outbox EXCEPT ![i].pending = FALSE]

\* Waking starts a worker, or tells the one there is.
Wake ==
    IF worker.at = "off"
    THEN worker' = Awake(FALSE) /\ UNCHANGED wake
    ELSE wake' = TRUE /\ UNCHANGED worker

AdmitAgain(i) == queue' = Append(queue, i) /\ Wake

\* admit_prompt: a message that is queued is not queued again, but it wakes.
Admit(i) ==
    /\ queue' = IF Queued(i) THEN queue ELSE Append(queue, i)
    /\ Wake

-----------------------------------------------------------------------------
(* The child's prompts.                                                    *)

\* The task tool: the owed generation is persisted first; a running child is
\* steered through its queue, an idle one is prompted by a task of its own.
MarkOwed(g) ==
    /\ at[g] = "new"
    /\ owed' = g
    /\ IF Running
       THEN steered' = steered \cup {g} /\ Goes(g, "marked")
       ELSE UNCHANGED steered /\ Goes(g, "waiting")
    /\ UNCHANGED <<outbox, made, parentVars, pub, deferred, loaded, slotVars,
                   lockVars, events, historyVars, failed>>

Enqueue(g) ==
    /\ at[g] = "marked"
    /\ Goes(g, "queued")
    /\ UNCHANGED <<childVars, parentVars, steered, pub, deferred, loaded,
                   slotVars, lockVars, events, historyVars, failed>>

\* append_prompt reads the child's row.  A queued prompt is also drained into
\* the run that is active; a direct one is refused there.
EnterPrompt(g) ==
    /\ at[g] \in {"waiting", "queued"} /\ ~Initializing
    /\ IF at[g] = "waiting" /\ Running
       THEN /\ Goes(g, "check") /\ pub' = [pub EXCEPT ![g] = g]
            /\ UNCHANGED loaded
       ELSE /\ Goes(g, "init") /\ UNCHANGED pub
            /\ loaded' = [owed |-> owed, outbox |-> outbox]
    /\ UNCHANGED <<childVars, parentVars, steered, deferred, slotVars, lockVars,
                   events, historyVars, failed>>

\* It writes that row back whole, before and after it saves the message (one
\* step here: the later write undoes what came between), and starts the run,
\* or, drained, leaves its message to the run that is active.
WriteBack(g) ==
    /\ at[g] = "init"
    /\ owed' = loaded.owed /\ outbox' = loaded.outbox
    /\ Goes(g, IF Running THEN "over" ELSE "run") /\ loaded' = NoRow
    /\ UNCHANGED <<made, parentVars, steered, pub, deferred, slotVars, lockVars,
                   events, historyVars, failed>>

\* A direct prompt that cannot be initialized is published as an error.
PromptFails(g) ==
    /\ at[g] = "init" /\ g \notin steered
    /\ Fails
    /\ Goes(g, "check") /\ pub' = [pub EXCEPT ![g] = g] /\ loaded' = NoRow
    /\ UNCHANGED <<childVars, parentVars, steered, deferred, slotVars, lockVars,
                   historyVars>>

\* The run's teardown.  Its own worker still counts as activity of a queued
\* prompt; the parent is reconciled all the same.
EndPrompt(g) ==
    /\ at[g] = "run" /\ ~Initializing
    /\ Goes(g, IF g \in steered THEN "over" ELSE "deferred")
    /\ deferred' = deferred \cup ({g} \ steered)
    /\ want' = IF g \in steered THEN want \cup {"child"} ELSE want
    /\ UNCHANGED <<childVars, parentVars, steered, pub, loaded, slotVars, rec,
                   events, historyVars, failed>>

\* The child's worker ends with an empty queue.
ReleaseWorker ==
    LET over == {g \in steered : at[g] = "over"}
    IN  /\ over # {} /\ ~Running /\ ~Initializing
        /\ \A g \in steered : at[g] # "queued"
        /\ \E g \in over :
              at' = [p \in Publishers |->
                       IF p = g THEN "deferred" ELSE IF p \in over THEN "done" ELSE at[p]]
    /\ UNCHANGED <<childVars, parentVars, steered, pub, deferred, loaded, slotVars,
                   lockVars, events, historyVars, failed>>

\* The abort of a child that does not run, or a second one of one that does,
\* once the server has started.
AbortChild ==
    /\ at[Hook] = "done" /\ ~Starting
    /\ Event
    /\ Goes(Hook, "deferred")
    /\ UNCHANGED <<childVars, parentVars, steered, pub, deferred, loaded,
                   slotVars, lockVars, historyVars, failed>>

-----------------------------------------------------------------------------
(* publish_deferred_subtask_completion_if_idle and the publication proper. *)

\* The publication is over.  The task of a direct prompt, whose teardown
\* published what the child owed, then publishes its own generation.
Publishes(p) ==
    LET again == p \in deferred \cap Gens /\ p \notin steered
    IN  /\ at' = [at EXCEPT ![p] = IF again THEN "check" ELSE "done"]
        /\ pub' = [pub EXCEPT ![p] = IF again THEN p ELSE NoGen]
        /\ deferred' = deferred \ {p}

Notifies(p) ==
    /\ Goes(p, "notify") /\ want' = want \cup {p}
    /\ pub' = [pub EXCEPT ![p] = NoGen] /\ UNCHANGED deferred

\* Short of publishing, a teardown or an abort goes on to reconcile the parent.
\* The child's worker, which publishes for a queued prompt, does not, nor does
\* the startup, which reconciles in any case.
PassesOver(p) ==
    IF p \in steered \/ (p = Hook /\ Starting)
    THEN Publishes(p) /\ UNCHANGED want
    ELSE Notifies(p)

ReadOwed(p) ==
    /\ at[p] = "deferred"
    /\ IF owed = NoGen
       THEN PassesOver(p)
       ELSE /\ pub' = [pub EXCEPT ![p] = owed] /\ Goes(p, "idle")
            /\ UNCHANGED <<deferred, want>>
    /\ UNCHANGED <<childVars, parentVars, steered, loaded, slotVars, rec, events,
                   historyVars, failed>>

\* Both ask whether the child is idle: a busy child stops the first short of
\* publishing, and the second of everything.
SeeIdle(p) ==
    /\ at[p] = "idle"
    /\ IF subtask_has_active_work
       THEN PassesOver(p)
       ELSE Goes(p, "check") /\ UNCHANGED <<pub, deferred, want>>
    /\ UNCHANGED <<childVars, parentVars, steered, loaded, slotVars, rec, events,
                   historyVars, failed>>

SeeIdleAgain(p) ==
    /\ at[p] = "check"
    /\ IF subtask_has_active_work
       THEN Publishes(p)
       ELSE Goes(p, "mark") /\ UNCHANGED <<pub, deferred>>
    /\ UNCHANGED <<childVars, parentVars, steered, loaded, slotVars, lockVars,
                   events, historyVars, failed>>

\* The generation must still be owed; a record of it is not made twice.
mark_subtask_completion_pending(p) ==
    /\ at[p] = "mark"
    /\ LET g == pub[p]
       IN  \/ /\ owed # g
              /\ Publishes(p)
              /\ UNCHANGED <<childVars, want>>
           \/ /\ owed = g /\ RecordsOf(g) # {}
              /\ owed' = NoGen
              /\ IF RecordsOf(g) \cap Pending # {}
                 THEN Notifies(p)
                 ELSE Publishes(p) /\ UNCHANGED want
              /\ UNCHANGED <<outbox, made>>
           \/ /\ owed = g /\ RecordsOf(g) = {} /\ made < MaxRec
              /\ owed' = NoGen
              /\ made' = made + 1
              /\ outbox' = [outbox EXCEPT ![made + 1] = [gen |-> g, pending |-> TRUE]]
              /\ Notifies(p)
    /\ UNCHANGED <<parentVars, steered, loaded, slotVars, rec, events, historyVars,
                   failed>>

MarkFails(p) ==
    /\ at[p] = "mark"
    /\ Fails
    /\ Publishes(p)
    /\ UNCHANGED <<childVars, parentVars, steered, loaded, slotVars, lockVars,
                   historyVars>>

-----------------------------------------------------------------------------
(* enqueue_parent_subtask_completion_prompts_if_ready, one at a time.      *)

\* The reconciliation is over when no completion is left to it.
Leaves(x, left) ==
    IF left # {}
    THEN rec' = [rec EXCEPT !.pending = left] /\ UNCHANGED <<at, pub, deferred>>
    ELSE /\ rec' = Unlocked
         /\ IF x \in Publishers THEN Publishes(x) ELSE UNCHANGED <<at, pub, deferred>>

\* It reads the outbox and whether a worker owns the queue, then the transcript.
\* The startup reconciles after it has published.
Reconcile(x) ==
    /\ rec.who = NoOne /\ x \in want
    /\ x = "startup" => at[Hook] = "done"
    /\ want' = want \ {x}
    /\ IF Pending = {}
       THEN Leaves(x, {})
       ELSE /\ rec' = [Unlocked EXCEPT !.who = x, !.at = "read", !.pending = Pending,
                                      !.active = worker.at # "off"]
            /\ UNCHANGED <<at, pub, deferred>>
    /\ skipped' = (skipped /\ worker.at # "off")
    /\ UNCHANGED <<childVars, parentVars, steered, loaded, slotVars, events,
                   answered, cancelled, failed>>

SeeTranscriptTurns ==
    /\ rec.at = "read"
    /\ rec' = [rec EXCEPT !.at = "each", !.turns = turns, !.replied = turns]
    /\ UNCHANGED <<childVars, parentVars, promptVars, slotVars, want, events,
                   historyVars, failed>>

\* Only a completed reply without an error delivers; a turn is half of it.
SeeTranscript ==
    /\ rec.at = "read"
    /\ rec' = [rec EXCEPT !.at = "each", !.turns = turns, !.replied = replied]
    /\ UNCHANGED <<childVars, parentVars, promptVars, slotVars, want, events,
                   historyVars, failed>>

\* The oldest of the pending completions: acknowledged, left to the worker
\* that has it, or queued.
Settle(i) ==
    /\ rec.at = "each" /\ i \in rec.pending /\ \A j \in rec.pending : i <= j
    /\ Leaves(rec.who, rec.pending \ {i})
    /\ \/ /\ i \in rec.replied
          /\ outbox' = Acknowledged(i)
          /\ UNCHANGED <<queue, worker, wake>>
       \/ /\ i \notin rec.replied /\ rec.active /\ i \in rec.turns
          /\ UNCHANGED <<outbox, queue, worker, wake>>
       \/ /\ i \notin rec.replied /\ ~(rec.active /\ i \in rec.turns)
          /\ Admit(i) /\ UNCHANGED outbox
    /\ UNCHANGED <<owed, made, saved, turns, replied, steered, loaded, prun, want,
                   events, historyVars, failed>>

ReconcileFails ==
    /\ rec.who # NoOne
    /\ Fails
    /\ Leaves(rec.who, {})
    /\ UNCHANGED <<childVars, parentVars, steered, loaded, slotVars, want,
                   historyVars>>

-----------------------------------------------------------------------------
(* The parent: its drain worker, its runs, and a user's prompts.           *)

\* Deleting the row of a notification.
Retire(i) ==
    /\ saved' = saved \ {i}
    /\ LET k == CHOOSE k \in 1 .. Len(queue) : queue[k] = i
       IN  queue' = SubSeq(queue, 1, k - 1) \o SubSeq(queue, k + 1, Len(queue))
Worker(point) == worker' = [worker EXCEPT !.at = point]

NeedsRecoveryPending(i) == i \in Pending

\* parent_subtask_completion_needs_recovery: still pending, not answered.
NeedsRecovery(i) == i \in Pending /\ i \notin replied

WorkerPeeksOnly ==
    /\ worker.at = "wait" /\ prun = "none"
    /\ IF queue # <<>>
       THEN /\ worker' = [worker EXCEPT !.at = "save", !.id = Head(queue)]
            /\ UNCHANGED wake
       ELSE wake' = FALSE /\ worker' = IF wake THEN worker ELSE Asleep
    /\ UNCHANGED <<childVars, parentVars, promptVars, prun, lockVars, events,
                   historyVars, failed>>

\* The idle session's worker takes the head of the queue, or ends; only then,
\* unless a prompt of it failed, does it reconcile what came while it was active.
WorkerPeeks ==
    /\ worker.at = "wait" /\ prun = "none"
    /\ \/ /\ queue # <<>>
          /\ worker' = [worker EXCEPT !.at = "save", !.id = Head(queue)]
          /\ UNCHANGED <<wake, want, skipped>>
       \/ /\ queue = <<>> /\ wake
          /\ wake' = FALSE
          /\ UNCHANGED <<worker, want, skipped>>
       \/ /\ queue = <<>> /\ ~wake
          /\ worker' = Asleep
          /\ want' = IF worker.failed THEN want ELSE want \cup {"worker"}
          /\ skipped' = (skipped \/ worker.failed)
          /\ UNCHANGED wake
    /\ UNCHANGED <<childVars, parentVars, promptVars, prun, rec, events,
                   answered, cancelled, failed>>

\* append_prompt_admission under the session's guard: a row that is gone, say
\* because a user's run drained it, is an error to the worker; an active run is
\* waited for, a turn that is already there is run
\* again only by the admission that saved it or by a recovery.
SaveTurn ==
    /\ worker.at = "save"
    /\ LET i == worker.id
       IN  \/ /\ ~Queued(i)
              /\ worker' = Awake(TRUE)
              /\ UNCHANGED <<queue, saved, turns>>
           \/ /\ Queued(i) /\ prun # "none"
              /\ worker' = Awake(worker.failed)
              /\ UNCHANGED <<queue, saved, turns>>
           \/ /\ Queued(i) /\ prun = "none"
              /\ i \in saved \/ i \notin turns \/ NeedsRecovery(i)
              /\ saved' = saved \cup {i}
              /\ turns' = turns \cup {i}
              /\ Worker("own")
              /\ UNCHANGED queue
           \/ /\ Queued(i) /\ prun = "none"
              /\ i \notin saved /\ i \in turns /\ ~NeedsRecovery(i)
              /\ Retire(i)
              /\ Worker("ack")
              /\ UNCHANGED turns
    /\ UNCHANGED <<childVars, replied, promptVars, prun, wake, lockVars, events,
                   historyVars, failed>>

\* Before the handoff the row is retained and the worker parks.
AdmissionFails ==
    /\ worker.at = "own"
    /\ Fails
    /\ wake' = FALSE
    /\ worker' = IF wake THEN Awake(TRUE) ELSE Asleep
    /\ skipped' = (skipped \/ ~wake)
    /\ UNCHANGED <<childVars, parentVars, promptVars, prun, lockVars, answered,
                   cancelled>>

Handoff ==
    /\ worker.at = "own"
    /\ Retire(worker.id)
    /\ prun' = "worker"
    /\ Worker("run")
    /\ UNCHANGED <<childVars, turns, replied, promptVars, wake, lockVars, events,
                   historyVars, failed>>

\* A successful reply answers every notification before it.
Reply ==
    /\ prun # "none" /\ replied # turns
    /\ replied' = turns
    /\ UNCHANGED <<childVars, queue, saved, turns, promptVars, slotVars, lockVars, events,
                   historyVars, failed>>

\* Between two steps the active run takes the queued notifications in.
DrainRow ==
    /\ prun # "none" /\ queue # <<>>
    /\ turns' = turns \cup {Head(queue)}
    /\ queue' = Tail(queue)
    /\ saved' = saved \ {Head(queue)}
    /\ UNCHANGED <<childVars, replied, promptVars, slotVars, lockVars, events,
                   historyVars, failed>>

\* The run of a notification ends; without a reply it was cancelled before its
\* first step, which append_prompt reports as a success.
EndTurn ==
    /\ prun = "worker"
    /\ prun' = "none"
    /\ want' = want \cup {"run"}
    /\ Worker("ack")
    /\ IF worker.id \in replied
       THEN answered' = answered \cup {worker.id} /\ UNCHANGED cancelled
       ELSE cancelled' = cancelled \cup {worker.id} /\ UNCHANGED answered
    /\ UNCHANGED <<childVars, parentVars, promptVars, wake, rec, events, failed,
                   skipped>>

\* A step fails or is aborted, after a teardown or, the run guard dropped,
\* without one.
TurnFails ==
    /\ prun = "worker"
    /\ Fails
    /\ prun' = "none"
    /\ want' \in {want, want \cup {"run"}}
    /\ Worker("failed")
    /\ UNCHANGED <<childVars, parentVars, promptVars, wake, rec, historyVars>>

TornDown == "run" \notin want /\ rec.who # "run"

\* The worker acknowledges the completion it has delivered.
AcknowledgeTurn ==
    /\ worker.at = "ack" /\ TornDown
    /\ outbox' = Acknowledged(worker.id)
    /\ worker' = Awake(worker.failed)
    /\ UNCHANGED <<owed, made, parentVars, promptVars, prun, wake, lockVars, events,
                   historyVars, failed>>

AcknowledgementFails ==
    /\ worker.at = "ack" /\ TornDown
    /\ Fails
    /\ worker' = Awake(worker.failed)
    /\ UNCHANGED <<childVars, parentVars, promptVars, prun, wake, lockVars,
                   historyVars>>

FailedTurn ==
    /\ worker.at = "failed" /\ TornDown
    /\ worker' = Awake(TRUE)
    /\ UNCHANGED <<childVars, parentVars, promptVars, prun, wake, lockVars, events,
                   historyVars, failed>>

UserPrompts ==
    /\ prun = "none" /\ worker.at # "own"
    /\ Event
    /\ prun' = "user"
    /\ UNCHANGED <<childVars, parentVars, promptVars, worker, wake, lockVars,
                   historyVars, failed>>

UserTurnEnds ==
    /\ prun = "user"
    /\ prun' = "none"
    /\ want' = want \cup {"user"}
    /\ UNCHANGED <<childVars, parentVars, promptVars, worker, wake, rec, events,
                   historyVars, failed>>

UserTurnFails ==
    /\ prun = "user"
    /\ failed' = TRUE
    /\ prun' = "none"
    /\ UNCHANGED <<childVars, parentVars, promptVars, worker, wake, lockVars, events,
                   historyVars>>

\* Only the store survives.  Queues are resumed first, then what the child owes
\* is published and the parent of a completion that waits is reconciled.
Restart ==
    /\ Event \/ (failed /\ UNCHANGED events)
    /\ at' = [p \in Publishers |->
                IF p = Hook THEN "deferred"
                ELSE IF at[p] = "new" THEN "new"
                ELSE IF p \in steered /\ at[p] \in {"queued", "init"} THEN "queued"
                ELSE "done"]
    /\ deferred' = {} /\ want' = {"startup"} /\ rec' = Unlocked
    /\ prun' = "none" /\ wake' = FALSE /\ failed' = FALSE /\ skipped' = FALSE
    /\ worker' = IF queue = <<>> THEN Asleep ELSE Awake(FALSE)
    /\ pub' = [p \in Publishers |-> NoGen] /\ loaded' = NoRow
    /\ UNCHANGED <<childVars, parentVars, steered, answered, cancelled>>

-----------------------------------------------------------------------------

Child ==
    \/ \E g \in Gens : \/ MarkOwed(g) \/ Enqueue(g) \/ EnterPrompt(g)
                       \/ WriteBack(g) \/ PromptFails(g) \/ EndPrompt(g)
    \/ ReleaseWorker \/ AbortChild

Publication ==
    \E p \in Publishers : \/ ReadOwed(p) \/ SeeIdle(p) \/ SeeIdleAgain(p)
                         \/ mark_subtask_completion_pending(p) \/ MarkFails(p)

Reconciliation ==
    \/ \E x \in Reconcilers : Reconcile(x)
    \/ SeeTranscript \/ ReconcileFails
    \/ \E i \in Recs : Settle(i)

Parent ==
    \/ WorkerPeeks \/ SaveTurn \/ AdmissionFails \/ Handoff
    \/ Reply \/ DrainRow \/ EndTurn \/ TurnFails
    \/ AcknowledgeTurn \/ AcknowledgementFails \/ FailedTurn
    \/ UserPrompts \/ UserTurnEnds \/ UserTurnFails

Next == Child \/ Publication \/ Reconciliation \/ Parent \/ Restart

Spec == Init /\ [][Next]_vars

-----------------------------------------------------------------------------
(* Properties.                                                             *)

\* A notification whose own run ended with a reply is never run again: not by
\* a copy a reconciliation queued while the worker had it, nor by one that
\* survived a crash before the acknowledgement.
DeliveredOnce == prun = "worker" => worker.id \notin answered

\* The outbox gives a completion up only when a successful reply of the parent
\* follows its notification, or the user stopped the run that would have
\* replied.
AcknowledgedIsAnswered ==
    \A i \in 1 .. made :
        outbox[i] # Unmade /\ ~outbox[i].pending => i \in replied \cup cancelled

AtRest ==
    /\ \A p \in Publishers : at[p] \in {"new", "done"}
    /\ want = {} /\ rec.who = NoOne
    /\ worker.at = "off" /\ prun = "none"

\* When the family is at rest, nothing has failed since the server started and
\* the parent's worker has not skipped its last reconciliation, the child owes
\* nothing and no completion waits: none is stranded between the worker that
\* had it and the reconciliation that passed it over.
NothingStranded == AtRest /\ ~failed /\ ~skipped => owed = NoGen /\ Pending = {}

\* The plain form, of session_actions.rs:931-935 and session_queue.rs:799-802,
\* which no run checks because the code does not keep it: a user's run drains
\* the row the worker has peeked, the user stops that run before it replies,
\* and the worker takes the row that is gone for a failed prompt.  The
\* completion then waits for the parent's next run or for a restart.
NeverStranded == AtRest /\ ~failed => owed = NoGen /\ Pending = {}

\* Nor does the code keep what comments of session_actions.rs promise: that
\* every prompt of the child that ends is told
\* to the parent (a stale write of the child's row, or a second prompt before
\* the first has started, takes the owed generation away) ...
EachPromptIsTold ==
    AtRest /\ ~failed => \A g \in Gens \ steered : at[g] = "done" => RecordsOf(g) # {}

\* ... and that no second copy of a notification is queued while the worker
\* runs the first (the transcript was read before the worker saved the turn).
NoCopyInFlight == prun = "worker" => ~Queued(worker.id)
=============================================================================
