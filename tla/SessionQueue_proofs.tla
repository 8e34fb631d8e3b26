------------------------- MODULE SessionQueue_proofs -------------------------
(***************************************************************************)
(* The promises of the prompt queue, for every number of messages, rows,   *)
(* controls, runs, workers, callers and faults.                            *)
(***************************************************************************)
EXTENDS SessionQueue_types

(* The steps, by who takes them *)

ClientMove ==
    \/ \E m \in Msgs, d \in Deliveries : Admit(m, d) \/ AdmitUnacknowledged(m, d)
    \/ AdmitCompaction \/ AdmitCompactionUnacknowledged
    \/ Clear \/ Pop \/ Stop \/ StopSubagent \/ ClearAll

WorkerMove(w) ==
    \/ WaitUntilIdle(w) \/ ReadControl(w) \/ ClaimCompaction(w) \/ ClaimFails(w)
    \/ EndCompaction(w) \/ RemoveControl(w) \/ PeekPrompt(w) \/ PromptFailed(w)
    \/ QueueStoreFails(w)

AppendMove(t) ==
    \/ EnterAdmission(t) \/ SavePrompt(t) \/ SaveUnacknowledged(t) \/ OwnExecution(t)
    \/ AppendFails(t) \/ StartRun(t) \/ GuardRun(t) \/ Handoff(t) \/ HandoffFails(t)

TurnMove(t) ==
    \/ BeginTurn(t) \/ FirstStep(t) \/ DrainBoundary(t) \/ DrainPrompt(t) \/ FollowUp(t)
    \/ EndTurn(t) \/ FinishRun(t) \/ CloseRun(t) \/ TurnFails(t)

CallerMove(c) == CallerGone(c) \/ \E m \in Msgs : DirectPrompt(c, m)

\* A step of task t that neither ends nor starts a worker.
Move(t) ==
    \/ t \in Workers /\ WorkerMove(t)
    \/ t \in Callers /\ CallerMove(t)
    \/ AppendMove(t) \/ TurnMove(t)

\* The step of a worker that may be its last.
CycleMove(w) == FinishCycle(w) \/ Park(w)

\* Every step is one of these.
LEMMA Steps ==
  ASSUME [Next]_vars
  PROVE  \/ ClientMove \/ AdmitWake \/ Restart \/ UNCHANGED vars
         \/ \E i \in Runs : Abandon(i)
         \/ \E t \in Tasks : Move(t)
         \/ \E w \in Workers : CycleMove(w)
  <1>1. CASE Client
    BY <1>1 DEF Client, ClientMove, Move, CallerMove, Tasks
  <1>2. CASE \E w \in Workers : WorkerStep(w) \/ ClaimCompaction(w)
    BY <1>2 DEF WorkerStep, WorkerMove, CycleMove, Move, Tasks
  <1>3. CASE \E t \in Tasks : TaskStep(t)
    BY <1>3 DEF TaskStep, AppendStep, TurnStep, LockStep, AppendMove, TurnMove, Move
  <1>4. CASE Failure
    BY <1>4 DEF Failure, WorkerMove, AppendMove, TurnMove, Move, Tasks
  <1>. QED
    BY <1>1, <1>2, <1>3, <1>4 DEF Next

\* What the record of a task is after an append has returned.
LEMMA Outcomes ==
  ASSUME TypeOK, TaskShape, NEW t \in Tasks
  PROVE  /\ Succeeded(t).run = task[t].run /\ Succeeded(t).row = 0
         /\ Succeeded(t).pc = IF task[t].run # 0 THEN "drain"
                              ELSE IF t \in Workers THEN "wait" ELSE "off"
         /\ Erred(t).run = task[t].run
         /\ Erred(t).row = IF task[t].run = 0 /\ t \in Workers THEN task[t].row ELSE 0
         /\ Erred(t).pc = IF task[t].run # 0 THEN "decide"
                          ELSE IF t \in Workers THEN "failed" ELSE "off"
         /\ Conflicted(t).run = 0 /\ Conflicted(t).row = 0
         /\ Conflicted(t).pc = IF t \in Workers THEN "wait" ELSE "off"
         /\ Unwound(t).run = 0
         /\ Unwound(t).row = IF t \in Workers THEN task[t].row ELSE 0
         /\ Unwound(t).pc = IF t \in Workers THEN "failed" ELSE "off"
         /\ Waiting.run = 0 /\ Waiting.row = 0 /\ Waiting.pc = "wait"
         /\ Off.run = 0 /\ Off.row = 0 /\ Off.pc = "off"
         /\ \A i : InTurn(i).run = i /\ InTurn(i).row = 0 /\ InTurn(i).pc = "turn"
  <1>1. task[t] \in Task
    BY DEF TypeOK
  <1>. QED
    BY <1>1 DEF Succeeded, Erred, Conflicted, Unwound, Waiting, Off, InTurn, Task

\* A move changes the record of no other task.
LEMMA MoveAlone ==
  ASSUME TypeOK, NEW t \in Tasks, Move(t)
  PROVE  \A u \in Tasks : u # t => task'[u] = task[u]
  <1>1. CASE \E r : Put(t, r)
    BY <1>1 DEF Put, TypeOK
  <1>2. ASSUME t \in Workers, WorkerMove(t) PROVE \E r : Put(t, r)
    BY <1>2 DEF WorkerMove, WaitUntilIdle, ReadControl, ClaimCompaction, ClaimFails, EndCompaction,
       RemoveControl, PeekPrompt, PromptFailed, QueueStoreFails, Go
  <1>3. ASSUME t \in Callers, CallerMove(t) PROVE \E r : Put(t, r)
    BY <1>3 DEF CallerMove, CallerGone, DirectPrompt
  <1>4. ASSUME AppendMove(t) PROVE \E r : Put(t, r)
    BY <1>4 DEF AppendMove, EnterAdmission, SavePrompt, SaveUnacknowledged, OwnExecution, AppendFails,
       StartRun, GuardRun, Handoff, HandoffFails, Go
  <1>5. ASSUME TurnMove(t) PROVE \E r : Put(t, r)
    BY <1>5 DEF TurnMove, BeginTurn, FirstStep, DrainBoundary, DrainPrompt, FollowUp, EndTurn, FinishRun,
       CloseRun, TurnFails, ProviderStep, Go
  <1>. QED
    BY <1>1, <1>2, <1>3, <1>4, <1>5 DEF Move

-----------------------------------------------------------------------------
(* What a move does to the record of its task *)

\* Only the point changes, and what no promise is about.
Keeps(t) ==
    /\ task'[t].run = task[t].run /\ task'[t].row = task[t].row
    /\ task'[t].msg = task[t].msg /\ task'[t].reply = task[t].reply
    /\ task'[t].saved = task[t].saved

\* The record that is put somewhere is there.
LEMMA PutRecord ==
  ASSUME TypeOK, NEW t \in Tasks, NEW r, Put(t, r)
  PROVE  task'[t] = r /\ \A u \in Tasks : u # t => task'[u] = task[u]
  BY DEF Put, TypeOK

\* Going somewhere keeps the rest.
LEMMA GoRecord ==
  ASSUME TypeOK, NEW t \in Tasks, NEW pc, Go(t, pc)
  PROVE  At(t, pc)' /\ Keeps(t) /\ \A u \in Tasks : u # t => task'[u] = task[u]
  <1>1. task'[t] = [task[t] EXCEPT !.pc = pc] /\ \A u \in Tasks : u # t => task'[u] = task[u]
    BY PutRecord DEF Go
  <1>2. task[t] \in Task
    BY DEF TypeOK
  <1>. QED
    BY <1>1, <1>2 DEF At, Keeps, Task

\* The worker goes for the control that it read, or on to the prompts.
LEMMA ReadControlRecord ==
  ASSUME TypeOK, NEW t \in Tasks, ReadControl(t)
  PROVE  At(t, "control") /\ Keeps(t) /\ (At(t, "claim")' \/ (At(t, "peek")' /\ Controls = {}))
  <1>1. ASSUME NEW c, Put(t, [task[t] EXCEPT !.pc = "claim", !.ctl = c])
        PROVE  At(t, "claim")' /\ Keeps(t)
    <2>1. task'[t] = [task[t] EXCEPT !.pc = "claim", !.ctl = c] /\ task[t] \in Task
      BY <1>1, PutRecord DEF TypeOK
    <2>. QED
      BY <2>1 DEF At, Keeps, Task
  <1>. QED
    BY <1>1, GoRecord DEF ReadControl

\* A compaction starts in an empty slot, under a run id of its own.
LEMMA ClaimRecord ==
  ASSUME TypeOK, NEW t \in Tasks, ClaimCompaction(t)
  PROVE  /\ At(t, "claim")
         /\ \/ task'[t] = Waiting /\ UNCHANGED <<run, cancel, ctl, recorded>>
            \/ /\ run = 0 /\ run' \in Runs /\ FreshRun(run') /\ At(t, "compacting")'
               /\ task'[t].run = run' /\ task'[t].row = task[t].row
               /\ recorded' = recorded \cup {run'} /\ Controls # {}
               /\ ctl' = Taken(Controls, "run")
  <1>1. ASSUME NEW i, Put(t, [task[t] EXCEPT !.pc = "compacting", !.run = i])
        PROVE  At(t, "compacting")' /\ task'[t].run = i /\ task'[t].row = task[t].row
    <2>1. task'[t] = [task[t] EXCEPT !.pc = "compacting", !.run = i] /\ task[t] \in Task
      BY <1>1, PutRecord DEF TypeOK
    <2>. QED
      BY <2>1 DEF At, Task
  <1>. QED
    BY <1>1, PutRecord DEF ClaimCompaction, Claimed

\* Whatever came of the compaction, the worker owns no run any more.
LEMMA EndCompactionRecord ==
  ASSUME TypeOK, NEW t \in Tasks, EndCompaction(t)
  PROVE  /\ At(t, "compacting")
         /\ task'[t] = Waiting \/ (At(t, "cleanup")' /\ task'[t].run = 0)
  <1>1. ASSUME Put(t, [task[t] EXCEPT !.pc = "cleanup", !.run = 0])
        PROVE  At(t, "cleanup")' /\ task'[t].run = 0
    <2>1. task'[t] = [task[t] EXCEPT !.pc = "cleanup", !.run = 0] /\ task[t] \in Task
      BY <1>1, PutRecord DEF TypeOK
    <2>. QED
      BY <2>1 DEF At, Task
  <1>. QED
    BY <1>1, PutRecord DEF EndCompaction

\* The worker starts the append of the head, or finds the queue empty.
LEMMA PeekRecord ==
  ASSUME TypeOK, NEW t \in Tasks, PeekPrompt(t)
  PROVE  /\ At(t, "peek")
         /\ \/ Queue = {} /\ At(t, "idle")' /\ Keeps(t)
            \/ /\ At(t, "enter")' /\ task'[t].run = 0 /\ ~task'[t].saved
               /\ task'[t].row \in Rows /\ IsHead(task'[t].row, Queue)
               /\ task'[t].msg = entry[task'[t].row].msg
  <1>1. ASSUME NEW r \in Rows, IsHead(r, Queue),
               Put(t, [Off EXCEPT !.pc = "enter", !.row = r, !.msg = entry[r].msg,
                                  !.reply = entry[r].msg \notin NoReply])
        PROVE  /\ At(t, "enter")' /\ task'[t].row = r /\ task'[t].run = 0
               /\ ~task'[t].saved /\ task'[t].msg = entry[r].msg
    <2>. DEFINE b == entry[r].msg \notin NoReply
    <2>1. task'[t] = [Off EXCEPT !.pc = "enter", !.row = r, !.msg = entry[r].msg, !.reply = b]
      BY <1>1, PutRecord
    <2>. HIDE DEF b
    <2>. QED
      BY <2>1 DEF At, Off
  <1>. QED
    BY <1>1, GoRecord DEF PeekPrompt

\* The append of a row that is gone ends; one that finds the slot taken is left.
LEMMA EnterRecord ==
  ASSUME TypeOK, NEW t \in Tasks, EnterAdmission(t)
  PROVE  /\ At(t, "enter") /\ guard = NoTask
         /\ \/ task'[t] = Erred(t) /\ UNCHANGED guard
            \/ task[t].reply /\ task'[t] = Conflicted(t) /\ UNCHANGED guard
            \/ /\ At(t, "save")' /\ guard' = t
               /\ task'[t].run = task[t].run /\ task'[t].row = task[t].row
               /\ task'[t].msg = task[t].msg /\ task'[t].reply = task[t].reply
               /\ task[t].row # 0 => task[t].row \in Queue
               /\ task'[t].saved => task[t].row \in Queue /\ entry[task[t].row].saved
  <1>. DEFINE b == task[t].row # 0 /\ entry[task[t].row].saved
  <1>1. ASSUME Put(t, [task[t] EXCEPT !.pc = "save", !.saved = b])
        PROVE  /\ At(t, "save")' /\ task'[t].run = task[t].run /\ task'[t].row = task[t].row
               /\ task'[t].msg = task[t].msg /\ task'[t].reply = task[t].reply
               /\ task'[t].saved = b
    <2>1. task'[t] = [task[t] EXCEPT !.pc = "save", !.saved = b] /\ task[t] \in Task
      BY <1>1, PutRecord DEF TypeOK
    <2>. HIDE DEF b
    <2>. QED
      BY <2>1 DEF At, Task
  <1>. QED
    BY <1>1, PutRecord DEF EnterAdmission, Free

\* The message is kept, found to be this row's own, or found to be a duplicate.
LEMMA SaveRecord ==
  ASSUME TypeOK, NEW t \in Tasks, SavePrompt(t)
  PROVE  /\ At(t, "save")
         /\ \/ /\ At(t, "own")' /\ Keeps(t) /\ task[t].msg \notin messages
               /\ Persist(t) /\ UNCHANGED <<fate, guard>>
            \/ /\ At(t, "own")' /\ Keeps(t) /\ task[t].msg \in messages /\ task[t].saved
               /\ UNCHANGED <<fate, entry, messages, guard>>
            \/ /\ task'[t] = Succeeded(t) /\ task[t].msg \in messages
               /\ Acknowledge(t) /\ Release(t) /\ UNCHANGED <<entry, messages>>
  BY GoRecord, PutRecord DEF SavePrompt

\* A prompt's run starts in an empty slot, under an id of its own.
LEMMA StartRecord ==
  ASSUME TypeOK, NEW t \in Tasks, StartRun(t)
  PROVE  /\ At(t, "start")
         /\ \/ /\ task'[t] = Conflicted(t) /\ Release(t)
               /\ UNCHANGED <<run, cancel, recorded>>
            \/ /\ run = 0 /\ run' \in Runs /\ FreshRun(run')
               /\ recorded' \in {recorded, recorded \cup {run'}}
               /\ At(t, "busy")' /\ task'[t].run = run'
               /\ task'[t].row = task[t].row /\ task'[t].msg = task[t].msg
               /\ UNCHANGED guard
  <1>1. ASSUME NEW i, Put(t, [task[t] EXCEPT !.pc = "busy", !.run = i])
        PROVE  /\ At(t, "busy")' /\ task'[t].run = i /\ task'[t].row = task[t].row
               /\ task'[t].msg = task[t].msg
    <2>1. task'[t] = [task[t] EXCEPT !.pc = "busy", !.run = i] /\ task[t] \in Task
      BY <1>1, PutRecord DEF TypeOK
    <2>. QED
      BY <2>1 DEF At, Task
  <1>. QED
    BY <1>1, PutRecord DEF StartRun, Claimed

\* Once the run has its guard, the row is handed off; without one the turn begins
\* at once.
LEMMA GuardRecord ==
  ASSUME TypeOK, NEW t \in Tasks, GuardRun(t)
  PROVE  /\ At(t, "busy")
         /\ \/ /\ task[t].row # 0 /\ At(t, "handoff")' /\ Keeps(t)
               /\ UNCHANGED <<guard, turns>>
            \/ /\ task[t].row = 0 /\ task'[t] = InTurn(task[t].run)
               /\ Release(t) /\ Begin(task[t].msg)
  BY GoRecord, PutRecord DEF GuardRun

\* Provider steps leave the append alone.
LEMMA ProviderRecord ==
  ASSUME TypeOK, NEW t \in Tasks, FirstStep(t) \/ FollowUp(t)
  PROVE  Keeps(t) /\ task[t].pc \in {"step", "decide"} /\ task'[t].pc \in {"finish", "drain"}
  <1>1. ASSUME NEW b, Put(t, [task[t] EXCEPT !.pc = "drain", !.drained = b])
        PROVE  Keeps(t) /\ At(t, "drain")'
    <2>1. task'[t] = [task[t] EXCEPT !.pc = "drain", !.drained = b] /\ task[t] \in Task
      BY <1>1, PutRecord DEF TypeOK
    <2>. QED
      BY <2>1 DEF At, Task, Keeps
  <1>2. ASSUME NEW k, Put(t, [task[t] EXCEPT !.pc = "drain", !.step = k])
        PROVE  Keeps(t) /\ At(t, "drain")'
    <2>1. task'[t] = [task[t] EXCEPT !.pc = "drain", !.step = k] /\ task[t] \in Task
      BY <1>2, PutRecord DEF TypeOK
    <2>. QED
      BY <2>1 DEF At, Task, Keeps
  <1>3. CASE FirstStep(t)
    BY <1>1, <1>3, GoRecord DEF FirstStep, ProviderStep, At
  <1>4. CASE FollowUp(t)
    BY <1>1, <1>2, <1>4 DEF FollowUp, At
  <1>. QED
    BY <1>3, <1>4

\* A run starts to drain a row that may steer it.
LEMMA DrainRecord ==
  ASSUME TypeOK, NEW t \in Tasks, DrainPrompt(t)
  PROVE  /\ At(t, "steer")
         /\ \/ At(t, "decide")' /\ Keeps(t)
            \/ /\ At(t, "enter")' /\ task'[t].run = task[t].run /\ ~task'[t].reply
               /\ task'[t].row \in Queue /\ task'[t].msg = entry[task'[t].row].msg
  <1>1. ASSUME NEW r, NEW m,
               Put(t, [task[t] EXCEPT !.pc = "enter", !.row = r, !.msg = m, !.reply = FALSE])
        PROVE  /\ At(t, "enter")' /\ task'[t].run = task[t].run /\ ~task'[t].reply
               /\ task'[t].row = r /\ task'[t].msg = m
    <2>1. /\ task'[t] = [task[t] EXCEPT !.pc = "enter", !.row = r, !.msg = m, !.reply = FALSE]
          /\ task[t] \in Task
      BY <1>1, PutRecord DEF TypeOK
    <2>. QED
      BY <2>1 DEF At, Task
  <1>2. CASE Go(t, "decide")
    BY <1>2, GoRecord DEF DrainPrompt
  <1>3. CASE ~Go(t, "decide")
    <2>1. PICK r \in Rows :
            /\ IsHead(r, Steerable)
            /\ Put(t, [task[t] EXCEPT !.pc = "enter", !.row = r, !.msg = entry[r].msg,
                                      !.reply = FALSE])
      BY <1>3 DEF DrainPrompt
    <2>2. /\ At(t, "enter")' /\ task'[t].run = task[t].run /\ ~task'[t].reply
          /\ task'[t].row = r /\ task'[t].msg = entry[r].msg
      BY <1>1, <2>1
    <2>. QED
      BY <2>1, <2>2 DEF DrainPrompt, IsHead, Steerable
  <1>. QED
    BY <1>2, <1>3

\* A direct prompt has no row.
LEMMA CallRecord ==
  ASSUME TypeOK, NEW t \in Tasks, NEW m \in Msgs, DirectPrompt(t, m)
  PROVE  /\ At(t, "off") /\ At(t, "enter")' /\ task'[t].row = 0 /\ task'[t].run = 0
         /\ task'[t].msg = m
  <1>. DEFINE b == m \notin NoReply
  <1>1. Put(t, [Off EXCEPT !.pc = "enter", !.msg = m, !.reply = b]) /\ At(t, "off")
    BY DEF DirectPrompt
  <1>. HIDE DEF b
  <1>2. task'[t] = [Off EXCEPT !.pc = "enter", !.msg = m, !.reply = b]
    BY <1>1, PutRecord
  <1>. QED
    BY <1>1, <1>2 DEF At, Off

-----------------------------------------------------------------------------
(* Where tasks can be *)

\* The shape of one task.
Shaped(t) ==
    /\ task[t].run # 0 =>
          task[t].pc \in RunPoints \cup {"compacting", "busy", "handoff", "enter", "save",
                                      "own"}
    /\ task[t].pc \in RunPoints \cup {"compacting", "busy", "handoff"} => task[t].run # 0
    /\ task[t].run # 0 /\ task[t].pc \in {"enter", "save", "own"} => ~task[t].reply
    /\ t \in Callers => task[t].pc \notin WorkerPoints
    /\ t \in Callers /\ task[t].row # 0 => task[t].run # 0
    /\ t \in Workers /\ task[t].pc \in AppendPoints => task[t].row # 0

\* A move keeps the shape of its task.
LEMMA ShapeMove ==
  ASSUME TypeOK, TaskShape, NEW t \in Tasks, Move(t) PROVE Shaped(t)'
  <1>. /\ Shaped(t) /\ 0 \notin Runs /\ 0 \notin Rows /\ (t \in Callers => t \notin Workers)
    BY TaskAssumption DEF TaskShape, Shaped, Runs, Rows
  <1>. USE Outcomes DEF Shaped, At, Keeps, RunPoints, WorkerPoints, AppendPoints
  <1>1. ASSUME t \in Workers, WorkerMove(t) PROVE Shaped(t)'
    <2>1. CASE WaitUntilIdle(t) \/ ClaimFails(t)
      BY <1>1, <2>1, GoRecord DEF WaitUntilIdle, ClaimFails
    <2>2. CASE RemoveControl(t) \/ PromptFailed(t) \/ QueueStoreFails(t)
      BY <1>1, <2>2, GoRecord, PutRecord DEF RemoveControl, PromptFailed, QueueStoreFails
    <2>3. CASE ReadControl(t) \/ ClaimCompaction(t)
      BY <1>1, <2>3, ReadControlRecord, ClaimRecord
    <2>4. CASE EndCompaction(t) \/ PeekPrompt(t)
      BY <1>1, <2>4, EndCompactionRecord, PeekRecord
    <2>. QED
      BY <1>1, <2>1, <2>2, <2>3, <2>4 DEF WorkerMove
  <1>2. ASSUME t \in Callers, CallerMove(t) PROVE Shaped(t)'
    BY <1>2, CallRecord, PutRecord DEF CallerMove, CallerGone
  <1>3. ASSUME AppendMove(t) PROVE Shaped(t)'
    <2>1. CASE EnterAdmission(t)
      BY <2>1, EnterRecord
    <2>2. CASE SavePrompt(t)
      BY <2>2, SaveRecord
    <2>3. CASE SaveUnacknowledged(t) \/ AppendFails(t)
      BY <2>3, PutRecord DEF SaveUnacknowledged, AppendFails
    <2>4. CASE OwnExecution(t)
      BY <2>4, GoRecord, PutRecord DEF OwnExecution
    <2>5. CASE StartRun(t)
      BY <2>5, StartRecord
    <2>6. CASE Handoff(t) \/ HandoffFails(t)
      BY <2>6, PutRecord DEF Handoff, HandoffFails
    <2>7. CASE GuardRun(t)
      BY <2>7, GuardRecord
    <2>. QED
      BY <1>3, <2>1, <2>2, <2>3, <2>4, <2>5, <2>6, <2>7 DEF AppendMove
  <1>4. ASSUME TurnMove(t) PROVE Shaped(t)'
    <2>1. CASE BeginTurn(t) \/ DrainBoundary(t) \/ EndTurn(t) \/ FinishRun(t)
      BY <2>1, GoRecord DEF BeginTurn, DrainBoundary, EndTurn, FinishRun
    <2>2. CASE FirstStep(t) \/ FollowUp(t)
      BY <2>2, ProviderRecord
    <2>3. CASE DrainPrompt(t)
      BY <2>3, DrainRecord DEF Queue
    <2>4. CASE CloseRun(t) \/ TurnFails(t)
      BY <2>4, PutRecord DEF CloseRun, TurnFails
    <2>. QED
      BY <1>4, <2>1, <2>2, <2>3, <2>4 DEF TurnMove
  <1>. QED
    BY <1>1, <1>2, <1>3, <1>4 DEF Move

\* What clients do to the queue is not seen by the tasks.
LEMMA ClientAlone ==
  ASSUME ClientMove
  PROVE  UNCHANGED <<messages, recorded, run, worker, wake, guard, reapers, task, turns,
                   leaked>>
  BY DEF ClientMove, Admit, AdmitUnacknowledged, AdmitCompaction,
     AdmitCompactionUnacknowledged, Clear, Pop, Stop, StopSubagent,
     ClearAll, slotVars, lockVars, asideVars, historyVars

\* A wake coalesces into the worker, or starts one.
LEMMA WakeRecord ==
  ASSUME TypeOK, AdmitWake
  PROVE  /\ worker' /\ UNCHANGED <<fate, entry, ctl, messages, recorded, run, guard, reapers, turns,
                        leaked>>
         /\ \/ worker /\ wake' /\ UNCHANGED task
            \/ /\ ~worker
               /\ \E w \in Workers : /\ At(w, "off") /\ task'[w] = Waiting
                                     /\ \A u \in Tasks : u # w => task'[u] = task[u]
  <1>1. ASSUME NEW w \in Workers, Put(w, Waiting)
        PROVE  task'[w] = Waiting /\ \A u \in Tasks : u # w => task'[u] = task[u]
    BY <1>1, PutRecord DEF Tasks
  <1>. QED
    BY <1>1 DEF AdmitWake, Wake, storeVars, historyVars

\* The worker goes on if there is a wake, and else it is gone.
LEMMA CycleRecord ==
  ASSUME TypeOK, NEW w \in Workers, CycleMove(w)
  PROVE  /\ task[w].pc \in {"idle", "park"} /\ worker' = wake
         /\ task'[w] = IF wake THEN Waiting ELSE Off
         /\ \A u \in Tasks : u # w => task'[u] = task[u]
         /\ UNCHANGED <<fate, entry, ctl, messages, recorded, run, guard, reapers, turns,
                        leaked>>
         /\ parked => parked'
         /\ At(w, "park") /\ ~wake => parked'
  <1>. DEFINE r == IF wake THEN Waiting ELSE Off
  <1>1. Put(w, r)
    BY DEF CycleMove, FinishCycle, Park
  <1>2. task'[w] = r /\ \A u \in Tasks : u # w => task'[u] = task[u]
    BY <1>1, PutRecord DEF Tasks
  <1>3. CASE FinishCycle(w)
    BY <1>2, <1>3 DEF FinishCycle, At, storeVars, lockVars, asideVars, historyVars
  <1>4. CASE Park(w)
    BY <1>2, <1>4 DEF Park, At, storeVars, lockVars, historyVars
  <1>. QED
    BY <1>3, <1>4 DEF CycleMove

\* After a restart there is a worker that waits, or none.
LEMMA RestartRecord ==
  ASSUME TypeOK, Restart
  PROVE  /\ worker' <=> Queue \cup Controls # {}
         /\ \E w \in Workers : \A t \in Tasks :
               task'[t] = IF worker' /\ t = w THEN Waiting ELSE Off
         /\ run' = 0 /\ guard' = NoTask /\ reapers' = {} /\ recorded' = {}
         /\ UNCHANGED <<fate, entry, ctl, messages, turns>>
  BY DEF Restart, historyVars

\* Every step keeps the shape of the tasks.
LEMMA ShapeKept ==
  ASSUME TypeOK, TaskShape, [Next]_vars PROVE TaskShape'
  <1>. /\ 0 \notin Runs /\ 0 \notin Rows /\ TaskShape = \A t \in Tasks : Shaped(t)
    BY DEF TaskShape, Shaped, Runs, Rows
  <1>1. CASE UNCHANGED task
    BY <1>1 DEF TaskShape
  <1>2. ASSUME NEW t \in Tasks, Move(t) PROVE TaskShape'
    BY <1>2, ShapeMove, MoveAlone DEF Shaped, TaskShape
  <1>3. ASSUME NEW t \in Tasks, task'[t] = Waiting \/ task'[t] = Off, t \in Workers \/ task'[t] = Off
        PROVE  Shaped(t)'
    BY <1>3, TaskAssumption DEF Shaped, Waiting, Off, RunPoints, AppendPoints, WorkerPoints
  <1>4. CASE AdmitWake
    BY <1>4, <1>3, WakeRecord DEF TaskShape, Shaped, Tasks
  <1>5. ASSUME NEW w \in Workers, CycleMove(w) PROVE TaskShape'
    BY <1>5, <1>3, CycleRecord DEF TaskShape, Shaped, Tasks
  <1>6. CASE Restart
    BY <1>6, <1>3, RestartRecord DEF TaskShape, Shaped, Tasks
  <1>. QED
    BY <1>1, <1>2, <1>4, <1>5, <1>6, Steps, ClientAlone
    DEF Abandon, vars

-----------------------------------------------------------------------------
(* The prompt lock *)

\* A move passes the lock only to and from its task.
LEMMA LockMove ==
  ASSUME TypeOK, TaskShape, PromptLockHeld, NEW t \in Tasks, Move(t)
  PROVE  /\ (task[t].pc \in LockedPoints <=> guard = t)'
         /\ guard' = guard \/ (guard \in {t, NoTask} /\ guard' \in {t, NoTask})
  <1>. /\ task[t].pc \in LockedPoints <=> guard = t
       /\ t # NoTask /\ (t \in Callers => t \notin Workers)
    BY TaskAssumption DEF PromptLockHeld
  <1>. DEFINE Goal == /\ (task[t].pc \in LockedPoints <=> guard = t)'
                      /\ guard' = guard \/ (guard \in {t, NoTask} /\ guard' \in {t, NoTask})
  <1>. USE Outcomes DEF At, LockedPoints, AppendPoints
  <1>1. ASSUME t \in Workers, WorkerMove(t) PROVE Goal
    <2>. guard' = guard
      BY <1>1 DEF WorkerMove, WaitUntilIdle, ReadControl, ClaimCompaction, ClaimFails, EndCompaction,
         RemoveControl, PeekPrompt, PromptFailed, QueueStoreFails, lockVars
    <2>1. CASE WaitUntilIdle(t) \/ ClaimFails(t)
      BY <1>1, <2>1, GoRecord DEF WaitUntilIdle, ClaimFails
    <2>2. CASE RemoveControl(t) \/ PromptFailed(t) \/ QueueStoreFails(t)
      BY <1>1, <2>2, GoRecord, PutRecord DEF RemoveControl, PromptFailed, QueueStoreFails
    <2>3. CASE ReadControl(t) \/ ClaimCompaction(t)
      BY <1>1, <2>3, ReadControlRecord, ClaimRecord
    <2>4. CASE EndCompaction(t) \/ PeekPrompt(t)
      BY <1>1, <2>4, EndCompactionRecord, PeekRecord
    <2>. QED
      BY <1>1, <2>1, <2>2, <2>3, <2>4 DEF WorkerMove
  <1>2. ASSUME t \in Callers, CallerMove(t) PROVE Goal
    <2>1. CASE CallerGone(t)
      BY <2>1, PutRecord DEF CallerGone, Release
    <2>2. ASSUME NEW m \in Msgs, DirectPrompt(t, m) PROVE Goal
      BY <2>2, CallRecord DEF DirectPrompt, lockVars
    <2>. QED
      BY <1>2, <2>1, <2>2 DEF CallerMove
  <1>3. ASSUME AppendMove(t) PROVE Goal
    <2>1. CASE EnterAdmission(t)
      BY <2>1, EnterRecord
    <2>2. CASE SavePrompt(t)
      BY <2>2, SaveRecord DEF Release
    <2>3. CASE SaveUnacknowledged(t) \/ AppendFails(t)
      BY <2>3, PutRecord DEF SaveUnacknowledged, AppendFails, Release
    <2>4. CASE OwnExecution(t)
      BY <2>4, GoRecord, PutRecord DEF OwnExecution, Release
    <2>5. CASE StartRun(t)
      BY <2>5, StartRecord DEF Release
    <2>6. CASE Handoff(t) \/ HandoffFails(t)
      BY <2>6, PutRecord DEF Handoff, HandoffFails, Release
    <2>7. CASE GuardRun(t)
      BY <2>7, GuardRecord DEF Release
    <2>. QED
      BY <1>3, <2>1, <2>2, <2>3, <2>4, <2>5, <2>6, <2>7 DEF AppendMove
  <1>4. ASSUME TurnMove(t) PROVE Goal
    <2>. guard' = guard
      BY <1>4 DEF TurnMove, BeginTurn, FirstStep, DrainBoundary, DrainPrompt, FollowUp, EndTurn,
         FinishRun, CloseRun, TurnFails, lockVars
    <2>1. CASE BeginTurn(t) \/ DrainBoundary(t) \/ EndTurn(t) \/ FinishRun(t)
      BY <2>1, GoRecord DEF BeginTurn, DrainBoundary, EndTurn, FinishRun
    <2>2. CASE FirstStep(t) \/ FollowUp(t)
      BY <2>2, ProviderRecord
    <2>3. CASE DrainPrompt(t)
      BY <2>3, DrainRecord
    <2>4. CASE CloseRun(t) \/ TurnFails(t)
      BY <2>4, PutRecord DEF CloseRun, TurnFails
    <2>. QED
      BY <1>4, <2>1, <2>2, <2>3, <2>4 DEF TurnMove
  <1>. QED
    BY <1>1, <1>2, <1>3, <1>4 DEF Move

\* The lock is held exactly by the task that stands inside an append.
LEMMA LockKept ==
  ASSUME TypeOK, TaskShape, PromptLockHeld, [Next]_vars PROVE PromptLockHeld'
  <1>. NoTask \notin Tasks
    BY TaskAssumption
  <1>1. CASE UNCHANGED <<task, guard>>
    BY <1>1 DEF PromptLockHeld
  <1>2. ASSUME NEW t \in Tasks, Move(t) PROVE PromptLockHeld'
    BY <1>2, LockMove, MoveAlone DEF PromptLockHeld
  <1>. USE Outcomes DEF PromptLockHeld, LockedPoints, AppendPoints, At, Tasks
  <1>3. CASE AdmitWake
    BY <1>3, WakeRecord
  <1>4. ASSUME NEW w \in Workers, CycleMove(w) PROVE PromptLockHeld'
    BY <1>4, CycleRecord
  <1>5. CASE Restart
    BY <1>5, RestartRecord
  <1>. QED
    BY <1>1, <1>2, <1>3, <1>4, <1>5, Steps, ClientAlone DEF Abandon, vars, lockVars

-----------------------------------------------------------------------------
(* The owner of the queue *)

\* A worker's move neither starts nor ends it.
LEMMA OwnerMove ==
  ASSUME TypeOK, TaskShape, NEW t \in Tasks, Move(t)
  PROVE  /\ UNCHANGED <<worker, wake, admitting, parked>>
         /\ t \in Workers => ~At(t, "off") /\ ~At(t, "off")'
  <1>. t \in Callers => t \notin Workers
    BY TaskAssumption
  <1>. DEFINE Goal == /\ UNCHANGED <<worker, wake, admitting, parked>>
                      /\ t \in Workers => ~At(t, "off") /\ ~At(t, "off")'
  <1>. USE Outcomes DEF At, slotVars, lockVars, asideVars
  <1>1. ASSUME t \in Workers, WorkerMove(t) PROVE Goal
    <2>1. CASE WaitUntilIdle(t) \/ ClaimFails(t)
      BY <1>1, <2>1, GoRecord DEF WaitUntilIdle, ClaimFails
    <2>2. CASE RemoveControl(t) \/ PromptFailed(t) \/ QueueStoreFails(t)
      BY <1>1, <2>2, GoRecord, PutRecord DEF RemoveControl, PromptFailed, QueueStoreFails
    <2>3. CASE ReadControl(t) \/ ClaimCompaction(t)
      BY <1>1, <2>3, ReadControlRecord, ClaimRecord DEF ReadControl, ClaimCompaction
    <2>4. CASE EndCompaction(t) \/ PeekPrompt(t)
      BY <1>1, <2>4, EndCompactionRecord, PeekRecord DEF EndCompaction, PeekPrompt
    <2>. QED
      BY <1>1, <2>1, <2>2, <2>3, <2>4 DEF WorkerMove
  <1>2. ASSUME t \in Callers, CallerMove(t) PROVE Goal
    BY <1>2 DEF CallerMove, CallerGone, DirectPrompt
  <1>3. ASSUME AppendMove(t) PROVE Goal
    <2>1. CASE EnterAdmission(t)
      BY <2>1, EnterRecord DEF EnterAdmission
    <2>2. CASE SavePrompt(t)
      BY <2>2, SaveRecord DEF SavePrompt
    <2>3. CASE SaveUnacknowledged(t) \/ AppendFails(t)
      BY <2>3, PutRecord DEF SaveUnacknowledged, AppendFails
    <2>4. CASE OwnExecution(t)
      BY <2>4, GoRecord, PutRecord DEF OwnExecution
    <2>5. CASE StartRun(t)
      BY <2>5, StartRecord DEF StartRun
    <2>6. CASE Handoff(t) \/ HandoffFails(t)
      BY <2>6, PutRecord DEF Handoff, HandoffFails
    <2>7. CASE GuardRun(t)
      BY <2>7, GuardRecord DEF GuardRun
    <2>. QED
      BY <1>3, <2>1, <2>2, <2>3, <2>4, <2>5, <2>6, <2>7 DEF AppendMove
  <1>4. ASSUME TurnMove(t) PROVE Goal
    <2>1. CASE BeginTurn(t) \/ DrainBoundary(t) \/ EndTurn(t) \/ FinishRun(t)
      BY <2>1, GoRecord DEF BeginTurn, DrainBoundary, EndTurn, FinishRun
    <2>2. CASE FirstStep(t) \/ FollowUp(t)
      BY <2>2, ProviderRecord DEF FirstStep, FollowUp
    <2>3. CASE DrainPrompt(t)
      BY <2>3, DrainRecord DEF DrainPrompt
    <2>4. CASE CloseRun(t) \/ TurnFails(t)
      BY <2>4, PutRecord DEF CloseRun, TurnFails
    <2>. QED
      BY <1>4, <2>1, <2>2, <2>3, <2>4 DEF TurnMove
  <1>. QED
    BY <1>1, <1>2, <1>3, <1>4 DEF Move

\* The queue keeps its one owner, or gets one, or none.
LEMMA OwnerKept ==
  ASSUME TypeOK, TaskShape, WorkerOwned, [Next]_vars PROVE WorkerOwned'
  <1>. Workers \subseteq Tasks
    BY DEF Tasks
  <1>1. CASE UNCHANGED <<task, worker>>
    BY <1>1 DEF WorkerOwned, At
  <1>2. ASSUME NEW t \in Tasks, Move(t) PROVE WorkerOwned'
    BY <1>2, OwnerMove, MoveAlone DEF WorkerOwned, At
  <1>. USE Outcomes DEF WorkerOwned, At
  <1>3. CASE AdmitWake
    BY <1>3, WakeRecord
  <1>4. ASSUME NEW w \in Workers, CycleMove(w) PROVE WorkerOwned'
    BY <1>4, CycleRecord
  <1>5. CASE Restart
    BY <1>5, RestartRecord
  <1>. QED
    BY <1>1, <1>2, <1>3, <1>4, <1>5, Steps, ClientAlone DEF Abandon, vars, slotVars

-----------------------------------------------------------------------------
(* What leaves the queue *)

\* Rows leave the queue and nothing enters it; the messages of the rows stay.
RowsLeave ==
    \A r \in Rows :
        /\ \/ fate'[r] = fate[r]
           \/ r \in Queue /\ fate'[r] \notin {"queued", "unused"}
        /\ entry'[r].msg = entry[r].msg

\* Settling rows and taking controls puts nothing into the queue.
LEMMA Leaving ==
  ASSUME TypeOK
  PROVE  /\ \A R, f : f \notin {"queued", "unused"} /\ fate' = Settled(R, f) /\ entry' = entry
               => RowsLeave
         /\ \A C, f : f # "queued" /\ ctl' = Taken(C, f) => Controls' \subseteq Controls
         /\ UNCHANGED <<fate, entry>> => RowsLeave
         /\ UNCHANGED ctl => Controls' = Controls
  BY DEF TypeOK, RowsLeave, Settled, Taken, Controls, Queue

\* Where rows only leave, the queue shrinks.
LEMMA QueueShrinks == RowsLeave => Queue' \subseteq Queue
  BY DEF RowsLeave, Queue

\* Saving a message marks its row, no more.
LEMMA PersistLeaves ==
  ASSUME TypeOK, NEW t \in Tasks, Persist(t), UNCHANGED fate PROVE RowsLeave
  <1>1. \A r \in Rows : entry[r] \in Entry
    BY DEF TypeOK
  <1>. QED
    BY <1>1 DEF Persist, RowsLeave, Entry

\* A move adds no work.
LEMMA MoveLeaves ==
  ASSUME TypeOK, NEW t \in Tasks, Move(t)
  PROVE  RowsLeave /\ Controls' \subseteq Controls
  <1>. DEFINE Goal == RowsLeave /\ Controls' \subseteq Controls
  <1>. USE Leaving DEF storeVars
  <1>1. ASSUME WorkerMove(t) PROVE Goal
    <2>1. CASE WaitUntilIdle(t) \/ ReadControl(t) \/ ClaimFails(t) \/ PeekPrompt(t)
      BY <2>1 DEF WaitUntilIdle, ReadControl, ClaimFails, PeekPrompt
    <2>2. CASE PromptFailed(t) \/ QueueStoreFails(t) \/ EndCompaction(t)
      BY <2>2 DEF PromptFailed, QueueStoreFails, EndCompaction
    <2>3. CASE ClaimCompaction(t) \/ RemoveControl(t)
      BY <2>3 DEF ClaimCompaction, RemoveControl
    <2>. QED
      BY <1>1, <2>1, <2>2, <2>3 DEF WorkerMove
  <1>2. ASSUME CallerMove(t) PROVE Goal
    BY <1>2 DEF CallerMove, CallerGone, DirectPrompt
  <1>3. ASSUME AppendMove(t) PROVE Goal
    <2>1. CASE EnterAdmission(t) \/ StartRun(t) \/ GuardRun(t) \/ SaveUnacknowledged(t)
      BY <2>1 DEF EnterAdmission, StartRun, GuardRun, SaveUnacknowledged
    <2>2. CASE SavePrompt(t)
      BY <2>2, PersistLeaves DEF SavePrompt, Acknowledge
    <2>3. CASE OwnExecution(t) \/ AppendFails(t)
      BY <2>3 DEF OwnExecution, AppendFails, Acknowledge
    <2>4. CASE Handoff(t) \/ HandoffFails(t)
      BY <2>4 DEF Handoff, HandoffFails
    <2>. QED
      BY <1>3, <2>1, <2>2, <2>3, <2>4 DEF AppendMove
  <1>4. ASSUME TurnMove(t) PROVE Goal
    <2>1. CASE BeginTurn(t) \/ DrainBoundary(t)
      BY <2>1 DEF BeginTurn, DrainBoundary, ClaimInRun
    <2>2. CASE FirstStep(t) \/ DrainPrompt(t) \/ FollowUp(t) \/ EndTurn(t)
      BY <2>2 DEF FirstStep, DrainPrompt, FollowUp, EndTurn
    <2>3. CASE FinishRun(t) \/ CloseRun(t) \/ TurnFails(t)
      BY <2>3 DEF FinishRun, CloseRun, TurnFails
    <2>. QED
      BY <1>4, <2>1, <2>2, <2>3 DEF TurnMove
  <1>. QED
    BY <1>1, <1>2, <1>3, <1>4 DEF Move

\* The row that a client submits.
Submitted ==
    \E r \in Rows, m \in Msgs, d \in Deliveries :
        /\ IsNextRow(r) /\ ~\E s \in Queue : entry[s].msg = m
        /\ fate' = [fate EXCEPT ![r] = "queued"]
        /\ entry' = [entry EXCEPT ![r] = [msg |-> m, mode |-> d, saved |-> FALSE]]

\* What clients add to the queue has a wake to come or is left to a later one;
\* whatever else they do takes from it.
LEMMA ClientQueue ==
  ASSUME TypeOK, ClientMove
  PROVE  /\ (RowsLeave /\ UNCHANGED entry) \/ Submitted
         /\ \/ RowsLeave /\ Controls' \subseteq Controls
            \/ admitting' \/ parked'
         /\ admitting => admitting'
         /\ parked => parked'
  <1>. DEFINE Goal == /\ (RowsLeave /\ UNCHANGED entry) \/ Submitted
                      /\ \/ RowsLeave /\ Controls' \subseteq Controls
                         \/ admitting' \/ parked'
                      /\ admitting => admitting'
                      /\ parked => parked'
  <1>. USE Leaving DEF lockVars, asideVars
  <1>1. ASSUME NEW m \in Msgs, NEW d \in Deliveries, Admit(m, d) PROVE Goal
    BY <1>1 DEF Admit, Submitted
  <1>2. ASSUME NEW m \in Msgs, NEW d \in Deliveries, AdmitUnacknowledged(m, d) PROVE Goal
    BY <1>2 DEF AdmitUnacknowledged, Submitted
  <1>3. CASE AdmitCompaction \/ AdmitCompactionUnacknowledged
    BY <1>3 DEF AdmitCompaction, AdmitCompactionUnacknowledged
  <1>4. CASE Clear \/ ClearAll
    BY <1>4 DEF Clear, ClearAll
  <1>5. CASE Pop
    BY <1>5 DEF Pop
  <1>6. CASE Stop \/ StopSubagent
    BY <1>6 DEF Stop, StopSubagent, Abort
  <1>. QED
    BY <1>1, <1>2, <1>3, <1>4, <1>5, <1>6 DEF ClientMove

-----------------------------------------------------------------------------
(* No wake is lost *)

\* A worker peeks after it has seen no control and idles after it has seen no row.
LEMMA LookMove ==
  ASSUME TypeOK, TaskShape, NEW t \in Workers, Move(t)
  PROVE  /\ At(t, "peek")' => Controls' = {}
         /\ At(t, "idle")' => At(t, "peek") /\ Queue' = {} /\ Controls' = Controls
  <1>. t \in Tasks /\ t \notin Callers
    BY TaskAssumption DEF Tasks
  <1>. DEFINE Goal == /\ At(t, "peek")' => Controls' = {}
                      /\ At(t, "idle")' => At(t, "peek") /\ Queue' = {} /\ Controls' = Controls
  <1>. USE Outcomes DEF At
  <1>1. ASSUME WorkerMove(t) PROVE Goal
    <2>1. CASE WaitUntilIdle(t) \/ ClaimFails(t)
      BY <2>1, GoRecord DEF WaitUntilIdle, ClaimFails
    <2>2. CASE RemoveControl(t) \/ PromptFailed(t) \/ QueueStoreFails(t)
      BY <2>2, GoRecord, PutRecord DEF RemoveControl, PromptFailed, QueueStoreFails
    <2>3. CASE ReadControl(t)
      BY <2>3, ReadControlRecord DEF ReadControl, storeVars, Controls
    <2>4. CASE ClaimCompaction(t) \/ EndCompaction(t)
      BY <2>4, ClaimRecord, EndCompactionRecord
    <2>5. CASE PeekPrompt(t)
      BY <2>5, PeekRecord DEF PeekPrompt, storeVars, Controls, Queue
    <2>. QED
      BY <1>1, <2>1, <2>2, <2>3, <2>4, <2>5 DEF WorkerMove
  <1>2. ASSUME AppendMove(t) PROVE Goal
    <2>1. CASE EnterAdmission(t)
      BY <2>1, EnterRecord
    <2>2. CASE SavePrompt(t) \/ OwnExecution(t)
      BY <2>2, SaveRecord, GoRecord, PutRecord DEF OwnExecution
    <2>3. CASE SaveUnacknowledged(t) \/ AppendFails(t)
      BY <2>3, PutRecord DEF SaveUnacknowledged, AppendFails
    <2>4. CASE StartRun(t) \/ GuardRun(t)
      BY <2>4, StartRecord, GuardRecord
    <2>5. CASE Handoff(t) \/ HandoffFails(t)
      BY <2>5, PutRecord DEF Handoff, HandoffFails
    <2>. QED
      BY <1>2, <2>1, <2>2, <2>3, <2>4, <2>5 DEF AppendMove
  <1>3. ASSUME TurnMove(t) PROVE Goal
    <2>1. CASE BeginTurn(t) \/ DrainBoundary(t) \/ EndTurn(t) \/ FinishRun(t)
      BY <2>1, GoRecord DEF BeginTurn, DrainBoundary, EndTurn, FinishRun
    <2>2. CASE FirstStep(t) \/ FollowUp(t) \/ DrainPrompt(t)
      BY <2>2, ProviderRecord, DrainRecord
    <2>3. CASE CloseRun(t) \/ TurnFails(t)
      BY <2>3, PutRecord DEF CloseRun, TurnFails
    <2>. QED
      BY <1>3, <2>1, <2>2, <2>3 DEF TurnMove
  <1>. QED
    BY <1>1, <1>2, <1>3 DEF Move

\* Between a look at the queue and the end of the cycle, every admission shows.
LEMMA LookKept ==
  ASSUME TypeOK, TaskShape, WorkerOwned, LookedAndMissed, [Next]_vars
  PROVE  LookedAndMissed'
  <1>. Workers \subseteq Tasks
    BY DEF Tasks
  <1>1. CASE ClientMove
    <2>1. /\ \/ Queue' \subseteq Queue /\ Controls' \subseteq Controls
             \/ admitting' \/ parked'
          /\ admitting => admitting'
          /\ parked => parked'
      BY <1>1, ClientQueue, QueueShrinks
    <2>2. UNCHANGED <<wake, task>>
      BY <1>1, ClientAlone
    <2>. QED
      BY <2>1, <2>2 DEF LookedAndMissed, At
  <1>2. ASSUME NEW t \in Tasks, Move(t) PROVE LookedAndMissed'
    <2>1. Queue' \subseteq Queue /\ Controls' \subseteq Controls
      BY <1>2, MoveLeaves, QueueShrinks
    <2>2. UNCHANGED <<wake, admitting, parked>> /\ \A u \in Tasks : u # t => task'[u] = task[u]
      BY <1>2, OwnerMove, MoveAlone
    <2>3. t \in Workers => /\ At(t, "peek")' => Controls' = {}
                           /\ At(t, "idle")' => At(t, "peek") /\ Queue' = {} /\ Controls' = Controls
      BY <1>2, LookMove
    <2>. QED
      BY <2>1, <2>2, <2>3 DEF LookedAndMissed, At
  <1>3. CASE AdmitWake
    BY <1>3, WakeRecord DEF LookedAndMissed, WorkerOwned, At, Waiting, Off
  <1>4. ASSUME NEW w \in Workers, CycleMove(w) PROVE LookedAndMissed'
    BY <1>4, CycleRecord DEF LookedAndMissed, WorkerOwned, At, Waiting, Off
  <1>5. CASE Restart
    BY <1>5, RestartRecord DEF LookedAndMissed, At, Waiting, Off
  <1>6. ASSUME NEW i \in Runs, Abandon(i) PROVE LookedAndMissed'
    BY <1>6 DEF LookedAndMissed, Abandon, asideVars, At, Queue, Controls
  <1>7. CASE UNCHANGED vars
    BY <1>7 DEF LookedAndMissed, vars, storeVars, slotVars, lockVars, asideVars, At, Queue, Controls
  <1>. QED
    BY <1>1, <1>2, <1>3, <1>4, <1>5, <1>6, <1>7, Steps

\* Work in the queue keeps an owner, a wake under way or a later wake.
LEMMA WakeKept ==
  ASSUME TypeOK, TaskShape, WorkerOwned, LookedAndMissed, NoLostWakeup, [Next]_vars
  PROVE  NoLostWakeup'
  <1>1. CASE ClientMove
    <2>1. /\ \/ Queue' \subseteq Queue /\ Controls' \subseteq Controls
             \/ admitting' \/ parked'
          /\ admitting => admitting'
          /\ parked => parked'
      BY <1>1, ClientQueue, QueueShrinks
    <2>2. UNCHANGED worker
      BY <1>1, ClientAlone
    <2>. QED
      BY <2>1, <2>2 DEF NoLostWakeup
  <1>2. ASSUME NEW t \in Tasks, Move(t) PROVE NoLostWakeup'
    <2>1. Queue' \subseteq Queue /\ Controls' \subseteq Controls
      BY <1>2, MoveLeaves, QueueShrinks
    <2>2. UNCHANGED <<worker, admitting, parked>>
      BY <1>2, OwnerMove
    <2>. QED
      BY <2>1, <2>2 DEF NoLostWakeup
  <1>3. CASE AdmitWake
    BY <1>3, WakeRecord DEF NoLostWakeup
  <1>4. ASSUME NEW w \in Workers, CycleMove(w) PROVE NoLostWakeup'
    <2>1. UNCHANGED <<fate, ctl>> /\ worker' = wake
      BY <1>4, CycleRecord
    <2>2. CASE FinishCycle(w)
      BY <2>1, <2>2 DEF FinishCycle, NoLostWakeup, LookedAndMissed, lockVars, asideVars, Queue, Controls
    <2>3. CASE Park(w)
      BY <1>4, <2>1, <2>3, CycleRecord DEF Park, NoLostWakeup
    <2>. QED
      BY <1>4, <2>2, <2>3 DEF CycleMove
  <1>5. CASE Restart
    BY <1>5, RestartRecord DEF NoLostWakeup, Queue, Controls
  <1>6. ASSUME NEW i \in Runs, Abandon(i) PROVE NoLostWakeup'
    BY <1>6 DEF NoLostWakeup, Abandon, asideVars, Queue, Controls
  <1>7. CASE UNCHANGED vars
    BY <1>7 DEF NoLostWakeup, vars, storeVars, slotVars, lockVars, asideVars, Queue, Controls
  <1>. QED
    BY <1>1, <1>2, <1>3, <1>4, <1>5, <1>6, <1>7, Steps

-----------------------------------------------------------------------------
(* The run slot *)

\* A move of t leaves the slot to its owner, claims an empty one, gives its own
\* back or leaves it to a drop guard.
SlotStays(t) ==
    /\ UNCHANGED <<run, reapers>> /\ ~At(t, "closing")'
    /\ Executing(t)' => Executing(t) /\ task'[t].run = task[t].run
    /\ Executing(t) => Executing(t)' \/ leaked'
SlotClaimed(t) ==
    /\ run = 0 /\ run' \in Runs /\ FreshRun(run') /\ ~At(t, "closing")'
    /\ \/ UNCHANGED reapers /\ Executing(t)' /\ task'[t].run = run'
       \/ reapers' = reapers \cup {run'} /\ ~Executing(t)'
SlotVacated(t) ==
    /\ Executing(t) /\ run' = (IF run = task[t].run THEN 0 ELSE run) /\ UNCHANGED reapers
    /\ ~Executing(t)' /\ (At(t, "closing")' => task'[t].run # 0)
SlotReaped(t) ==
    /\ task[t].run # 0 /\ UNCHANGED run /\ reapers' = reapers \cup {task[t].run}
    /\ ~Executing(t)' /\ ~At(t, "closing")'

\* What a move does to the slot is one of the four.
LEMMA SlotMove ==
  ASSUME TypeOK, TaskShape, NEW t \in Tasks, Move(t)
  PROVE  SlotStays(t) \/ SlotClaimed(t) \/ SlotVacated(t) \/ SlotReaped(t)
  <1>. Shaped(t) /\ 0 \notin Runs
    BY DEF TaskShape, Shaped, Runs
  <1>. DEFINE Goal == SlotStays(t) \/ SlotClaimed(t) \/ SlotVacated(t) \/ SlotReaped(t)
  <1>. USE Outcomes DEF At, Executing, Keeps, slotVars, lockVars, asideVars
  <1>1. ASSUME t \in Workers, WorkerMove(t) PROVE Goal
    <2>1. CASE WaitUntilIdle(t) \/ RemoveControl(t)
      BY <1>1, <2>1, GoRecord, PutRecord DEF WaitUntilIdle, RemoveControl, SlotStays,
         Shaped, RunPoints
    <2>2. CASE PromptFailed(t) \/ QueueStoreFails(t)
      BY <1>1, <2>2, GoRecord, PutRecord DEF PromptFailed, QueueStoreFails, SlotStays,
         Shaped, RunPoints
    <2>3. CASE ReadControl(t)
      BY <1>1, <2>3, ReadControlRecord DEF ReadControl, SlotStays, Shaped, RunPoints
    <2>4. CASE PeekPrompt(t)
      BY <1>1, <2>4, PeekRecord DEF PeekPrompt, SlotStays, Shaped, RunPoints
    <2>5. CASE ClaimCompaction(t)
      <3>1. task[t].run = 0 /\ UNCHANGED reapers
        BY <2>5, ClaimRecord DEF ClaimCompaction, Shaped, RunPoints
      <3>2. CASE task'[t] = Waiting /\ UNCHANGED run
        BY <3>1, <3>2 DEF SlotStays
      <3>3. CASE run = 0 /\ run' \in Runs /\ FreshRun(run') /\ At(t, "compacting")'
                   /\ task'[t].run = run'
        BY <3>1, <3>3 DEF SlotClaimed
      <3>. QED
        BY <2>5, <3>2, <3>3, ClaimRecord
    <2>6. CASE ClaimFails(t)
      BY <1>1, <2>6, GoRecord DEF ClaimFails, Claimed, SlotClaimed, Shaped, RunPoints
    <2>7. CASE EndCompaction(t)
      BY <1>1, <2>7, EndCompactionRecord DEF EndCompaction, Vacated, SlotVacated, Shaped
    <2>. QED
      BY <1>1, <2>1, <2>2, <2>3, <2>4, <2>5, <2>6, <2>7 DEF WorkerMove
  <1>2. ASSUME t \in Callers, CallerMove(t) PROVE Goal
    <2>1. CASE CallerGone(t)
      <3>1. task'[t] = Off /\ UNCHANGED run
        BY <2>1, PutRecord DEF CallerGone
      <3>2. CASE task[t].run # 0 /\ ~At(t, "busy")
        <4>1. reapers' = reapers \cup {task[t].run}
          BY <2>1, <3>2 DEF CallerGone
        <4>. QED
          BY <3>1, <3>2, <4>1 DEF SlotReaped
      <3>3. CASE task[t].run = 0 \/ At(t, "busy")
        <4>1. UNCHANGED reapers /\ (At(t, "busy") => leaked')
          BY <2>1, <3>3 DEF CallerGone
        <4>. QED
          BY <3>1, <3>3, <4>1 DEF SlotStays
      <3>. QED
        BY <3>2, <3>3
    <2>2. ASSUME NEW m \in Msgs, DirectPrompt(t, m) PROVE Goal
      BY <2>2, CallRecord DEF DirectPrompt, SlotStays, Shaped, RunPoints
    <2>. QED
      BY <1>2, <2>1, <2>2 DEF CallerMove
  <1>3. ASSUME AppendMove(t) PROVE Goal
    <2>1. CASE EnterAdmission(t)
      <3>1. UNCHANGED <<run, reapers>>
        BY <2>1 DEF EnterAdmission
      <3>. QED
        BY <2>1, <3>1, EnterRecord DEF SlotStays, Shaped, RunPoints
    <2>2. CASE SavePrompt(t)
      <3>1. UNCHANGED <<run, reapers>>
        BY <2>2 DEF SavePrompt
      <3>. QED
        BY <2>2, <3>1, SaveRecord DEF SlotStays
    <2>3. CASE SaveUnacknowledged(t) \/ AppendFails(t)
      BY <2>3, PutRecord DEF SaveUnacknowledged, AppendFails, SlotStays
    <2>4. CASE OwnExecution(t)
      BY <2>4, GoRecord, PutRecord DEF OwnExecution, SlotStays
    <2>5. CASE StartRun(t)
      <3>1. UNCHANGED reapers
        BY <2>5 DEF StartRun
      <3>. QED
        BY <2>5, <3>1, StartRecord DEF SlotStays, SlotClaimed, Shaped, RunPoints, AppendPoints
    <2>6. CASE Handoff(t) \/ HandoffFails(t)
      BY <2>6, PutRecord DEF Handoff, HandoffFails, SlotStays, SlotReaped, Shaped
    <2>7. CASE GuardRun(t)
      BY <2>7, GuardRecord DEF GuardRun, SlotStays
    <2>. QED
      BY <1>3, <2>1, <2>2, <2>3, <2>4, <2>5, <2>6, <2>7 DEF AppendMove
  <1>4. ASSUME TurnMove(t) PROVE Goal
    <2>1. CASE BeginTurn(t) \/ DrainBoundary(t) \/ EndTurn(t)
      BY <2>1, GoRecord DEF BeginTurn, DrainBoundary, EndTurn, SlotStays
    <2>2. CASE FirstStep(t) \/ FollowUp(t)
      BY <2>2, ProviderRecord DEF FirstStep, FollowUp, SlotStays
    <2>3. CASE DrainPrompt(t)
      BY <2>3, DrainRecord DEF DrainPrompt, SlotStays
    <2>4. CASE FinishRun(t)
      BY <2>4, GoRecord DEF FinishRun, Vacated, SlotVacated, Shaped, RunPoints
    <2>5. CASE CloseRun(t)
      BY <2>5, PutRecord DEF CloseRun, SlotStays
    <2>6. CASE TurnFails(t)
      BY <2>6, PutRecord DEF TurnFails, SlotReaped, Shaped, RunPoints
    <2>. QED
      BY <1>4, <2>1, <2>2, <2>3, <2>4, <2>5, <2>6 DEF TurnMove
  <1>. QED
    BY <1>1, <1>2, <1>3, <1>4 DEF Move

\* No move mends a slot that is nobody's.
LEMMA LeakStays ==
  ASSUME NEW t \in Tasks, Move(t) PROVE leaked => leaked'
  <1>. USE DEF asideVars, historyVars
  <1>1. ASSUME WorkerMove(t) PROVE leaked' = leaked
    BY <1>1 DEF WorkerMove, WaitUntilIdle, ReadControl, ClaimCompaction, ClaimFails, EndCompaction,
       RemoveControl, PeekPrompt, PromptFailed, QueueStoreFails
  <1>2. ASSUME CallerMove(t) PROVE leaked => leaked'
    BY <1>2 DEF CallerMove, CallerGone, DirectPrompt
  <1>3. ASSUME AppendMove(t) PROVE leaked' = leaked
    BY <1>3 DEF AppendMove, EnterAdmission, SavePrompt, SaveUnacknowledged, OwnExecution, AppendFails,
       StartRun, GuardRun, Handoff, HandoffFails
  <1>4. ASSUME TurnMove(t) PROVE leaked' = leaked
    BY <1>4 DEF TurnMove, BeginTurn, FirstStep, DrainBoundary, DrainPrompt, FollowUp, EndTurn,
       FinishRun, CloseRun, TurnFails
  <1>. QED
    BY <1>1, <1>2, <1>3, <1>4 DEF Move

\* Waiting and gone tasks own no run.
LEMMA IdleOwnsNothing ==
  ASSUME NEW t \in Tasks, task'[t] \in {Waiting, Off} PROVE ~Executing(t)' /\ ~At(t, "closing")'
  BY DEF Executing, At, Waiting, Off

\* Whoever executes keeps the slot, and nobody else gets it.
LEMMA SlotKept ==
  ASSUME TypeOK, TaskShape, SlotHeld, [Next]_vars PROVE SlotHeld'
  <1>. Workers \subseteq Tasks /\ 0 \notin Runs /\ \A t \in Tasks : At(t, "closing") => task[t].run # 0
    BY DEF Tasks, Runs, TaskShape, RunPoints, At
  <1>1. CASE UNCHANGED <<task, run, reapers>>
    BY <1>1 DEF SlotHeld, Executing, At
  <1>2. ASSUME NEW t \in Tasks, Move(t) PROVE SlotHeld'
    <2>. \A u \in Tasks : u # t => task'[u] = task[u]
      BY <1>2, MoveAlone
    <2>. USE DEF SlotHeld, Executing, At
    <2>1. CASE SlotStays(t)
      BY <2>1 DEF SlotStays
    <2>2. CASE SlotClaimed(t)
      BY <2>2 DEF SlotClaimed, FreshRun, Referred
    <2>3. CASE SlotVacated(t)
      BY <2>3, TaskFields DEF SlotVacated
    <2>4. CASE SlotReaped(t)
      BY <2>4 DEF SlotReaped
    <2>. QED
      BY <1>2, <2>1, <2>2, <2>3, <2>4, SlotMove
  <1>3. CASE AdmitWake
    BY <1>3, WakeRecord, IdleOwnsNothing DEF SlotHeld, Executing, At
  <1>4. ASSUME NEW w \in Workers, CycleMove(w) PROVE SlotHeld'
    BY <1>4, CycleRecord, IdleOwnsNothing DEF SlotHeld, Executing, At
  <1>5. CASE Restart
    BY <1>5, RestartRecord, IdleOwnsNothing DEF SlotHeld
  <1>6. ASSUME NEW i \in Runs, Abandon(i) PROVE SlotHeld'
    BY <1>6 DEF Abandon, Vacated, SlotHeld, Executing, At
  <1>. QED
    BY <1>1, <1>2, <1>3, <1>4, <1>5, <1>6, Steps, ClientAlone DEF vars, slotVars, lockVars

\* A run that executes a queued prompt stays on record: only its own teardown
\* takes it off.
LEMMA RecordMove ==
  ASSUME TypeOK, TaskShape, RecordHeld, NEW t \in Tasks, Move(t)
  PROVE  /\ t \in Workers /\ Executing(t)' /\ task'[t].pc \notin {"busy", "handoff"}
            => task'[t].run \in recorded'
         /\ recorded \subseteq recorded' \/ (Executing(t) /\ recorded' = recorded \ {task[t].run})
  <1>. /\ Shaped(t) /\ 0 \notin Runs /\ (t \in Callers => t \notin Workers)
       /\ t \in Workers /\ Executing(t) /\ task[t].pc \notin {"busy", "handoff"} =>
             task[t].run \in recorded
    BY TaskAssumption DEF TaskShape, Shaped, Runs, RecordHeld
  <1>. DEFINE Owned == t \in Workers /\ Executing(t)' /\ task'[t].pc \notin {"busy", "handoff"}
                          => task'[t].run \in recorded'
              Lasts == \/ recorded \subseteq recorded'
                       \/ Executing(t) /\ recorded' = recorded \ {task[t].run}
              Goal == Owned /\ Lasts
  <1>. USE Outcomes DEF At, Executing, Keeps, storeVars
  <1>1. ASSUME t \in Workers, WorkerMove(t) PROVE Goal
    <2>1. CASE WaitUntilIdle(t) \/ ClaimFails(t)
      BY <1>1, <2>1, GoRecord DEF WaitUntilIdle, ClaimFails, Shaped, RunPoints
    <2>2. CASE RemoveControl(t) \/ PromptFailed(t) \/ QueueStoreFails(t)
      BY <1>1, <2>2, GoRecord, PutRecord
      DEF RemoveControl, PromptFailed, QueueStoreFails, Shaped, RunPoints
    <2>3. CASE ReadControl(t)
      BY <1>1, <2>3, ReadControlRecord DEF ReadControl, Shaped, RunPoints
    <2>4. CASE PeekPrompt(t)
      BY <1>1, <2>4, PeekRecord DEF PeekPrompt, Shaped, RunPoints
    <2>5. CASE ClaimCompaction(t)
      BY <1>1, <2>5, ClaimRecord
    <2>6. CASE EndCompaction(t)
      BY <1>1, <2>6, EndCompactionRecord DEF EndCompaction, Durably, Shaped
    <2>. QED
      BY <1>1, <2>1, <2>2, <2>3, <2>4, <2>5, <2>6 DEF WorkerMove
  <1>2. ASSUME t \in Callers, CallerMove(t) PROVE Goal
    BY <1>2 DEF CallerMove, CallerGone, DirectPrompt
  <1>3. ASSUME AppendMove(t) PROVE Goal
    <2>1. CASE EnterAdmission(t)
      <3>1. UNCHANGED recorded
        BY <2>1 DEF EnterAdmission
      <3>. QED
        BY <2>1, <3>1, EnterRecord
    <2>2. CASE SavePrompt(t)
      <3>1. UNCHANGED recorded
        BY <2>2 DEF SavePrompt
      <3>. QED
        BY <2>2, <3>1, SaveRecord
    <2>3. CASE SaveUnacknowledged(t) \/ AppendFails(t)
      BY <2>3, PutRecord DEF SaveUnacknowledged, AppendFails
    <2>4. CASE OwnExecution(t)
      BY <2>4, GoRecord, PutRecord DEF OwnExecution
    <2>5. CASE StartRun(t)
      BY <2>5, StartRecord DEF Shaped, AppendPoints
    <2>6. CASE Handoff(t)
      BY <2>6, PutRecord DEF Handoff
    <2>7. CASE HandoffFails(t)
      BY <2>7, PutRecord DEF HandoffFails
    <2>8. CASE GuardRun(t)
      <3>1. UNCHANGED recorded
        BY <2>8 DEF GuardRun
      <3>. QED
        BY <2>8, <3>1, GuardRecord DEF Shaped, AppendPoints
    <2>. QED
      BY <1>3, <2>1, <2>2, <2>3, <2>4, <2>5, <2>6, <2>7, <2>8 DEF AppendMove
  <1>4. ASSUME TurnMove(t) PROVE Goal
    <2>1. CASE BeginTurn(t) \/ DrainBoundary(t) \/ EndTurn(t)
      BY <2>1, GoRecord DEF BeginTurn, DrainBoundary, EndTurn
    <2>2. CASE FirstStep(t) \/ FollowUp(t)
      BY <2>2, ProviderRecord DEF FirstStep, FollowUp
    <2>3. CASE DrainPrompt(t)
      BY <2>3, DrainRecord DEF DrainPrompt
    <2>4. CASE FinishRun(t)
      BY <2>4, GoRecord DEF FinishRun, Durably, Shaped, RunPoints
    <2>5. CASE CloseRun(t)
      BY <2>5, PutRecord DEF CloseRun
    <2>6. CASE TurnFails(t)
      BY <2>6, PutRecord DEF TurnFails
    <2>. QED
      BY <1>4, <2>1, <2>2, <2>3, <2>4, <2>5, <2>6 DEF TurnMove
  <1>. QED
    BY <1>1, <1>2, <1>3, <1>4 DEF Move

\* While a queued prompt executes, its run is on record.
LEMMA RecordKept ==
  ASSUME TypeOK, TaskShape, SlotHeld, RecordHeld, [Next]_vars PROVE RecordHeld'
  <1>. Workers \subseteq Tasks
    BY DEF Tasks
  <1>. USE DEF RecordHeld, Executing, At
  <1>1. CASE UNCHANGED <<task, recorded>>
    BY <1>1
  <1>2. ASSUME NEW t \in Tasks, Move(t) PROVE RecordHeld'
    <2>1. SUFFICES ASSUME NEW w \in Workers, Executing(w)', task'[w].pc \notin {"busy", "handoff"}
                   PROVE  task'[w].run \in recorded'
      OBVIOUS
    <2>2. CASE w = t
      BY <1>2, <2>1, <2>2, RecordMove
    <2>3. CASE w # t
      <3>1. task'[w] = task[w]
        BY <1>2, <2>3, MoveAlone
      <3>2. Executing(w) /\ task[w].run \in recorded /\ ~Executing(t)
        BY <2>1, <2>3, <3>1 DEF SlotHeld
      <3>. QED
        BY <1>2, <3>1, <3>2, RecordMove
    <2>. QED
      BY <2>2, <2>3
  <1>3. CASE AdmitWake
    BY <1>3, WakeRecord, IdleOwnsNothing
  <1>4. ASSUME NEW w \in Workers, CycleMove(w) PROVE RecordHeld'
    BY <1>4, CycleRecord, IdleOwnsNothing
  <1>5. CASE Restart
    BY <1>5, RestartRecord, IdleOwnsNothing
  <1>6. ASSUME NEW i \in Runs, Abandon(i) PROVE RecordHeld'
    BY <1>6 DEF Abandon, Durably, SlotHeld
  <1>. QED
    BY <1>1, <1>2, <1>3, <1>4, <1>5, <1>6, Steps, ClientAlone DEF vars, storeVars

-----------------------------------------------------------------------------
(* The store *)

\* What a move does to rows, messages and turns.
StoreSame == UNCHANGED <<fate, entry, messages, turns>>
StoreSaves(t) ==
    /\ At(t, "save") /\ At(t, "own")' /\ Keeps(t) /\ task[t].msg \notin messages
    /\ Persist(t) /\ UNCHANGED <<fate, turns>>
StoreSavesUnmarked(t) ==
    /\ At(t, "save") /\ task'[t].pc \notin AppendPoints
    /\ task[t].msg \notin messages /\ task[t].row \notin Queue
    /\ messages' = messages \cup {task[t].msg} /\ UNCHANGED <<fate, entry, turns>>
StoreMerges(t) ==
    /\ At(t, "own") \/ (At(t, "save") /\ task[t].msg \in messages)
    /\ task'[t].pc \notin AppendPoints
    /\ Acknowledge(t) /\ UNCHANGED <<entry, messages, turns>>
StoreHands(t) ==
    /\ At(t, "handoff") /\ At(t, "turn")' /\ task[t].row \in Queue
    /\ fate' = Settled({task[t].row}, "handed") /\ Begin(task[t].msg)
    /\ UNCHANGED <<entry, messages>>
StoreLoses(t) ==
    /\ At(t, "handoff") /\ task'[t].pc \notin AppendPoints
    /\ fate' = Settled({task[t].row}, "lost") /\ UNCHANGED <<entry, messages, turns>>
StorePrompts(t) ==
    /\ At(t, "busy") /\ At(t, "turn")' /\ task[t].row = 0
    /\ Begin(task[t].msg) /\ UNCHANGED <<fate, entry, messages>>

\* What a move does to the store is one of these.
LEMMA StoreMove ==
  ASSUME TypeOK, TaskShape, NEW t \in Tasks, Move(t)
  PROVE  \/ StoreSame \/ StoreSaves(t) \/ StoreSavesUnmarked(t) \/ StoreMerges(t)
         \/ StoreHands(t) \/ StoreLoses(t) \/ StorePrompts(t)
  <1>. DEFINE Goal == \/ StoreSame \/ StoreSaves(t) \/ StoreSavesUnmarked(t) \/ StoreMerges(t)
                      \/ StoreHands(t) \/ StoreLoses(t) \/ StorePrompts(t)
  <1>. USE DEF storeVars, asideVars, historyVars, StoreSame
  <1>1. ASSUME WorkerMove(t) PROVE Goal
    <2>1. CASE WaitUntilIdle(t) \/ ReadControl(t) \/ ClaimCompaction(t) \/ ClaimFails(t)
      BY <2>1 DEF WaitUntilIdle, ReadControl, ClaimCompaction, ClaimFails
    <2>2. CASE EndCompaction(t) \/ RemoveControl(t) \/ PeekPrompt(t)
      BY <2>2 DEF EndCompaction, RemoveControl, PeekPrompt
    <2>3. CASE PromptFailed(t) \/ QueueStoreFails(t)
      BY <2>3 DEF PromptFailed, QueueStoreFails
    <2>. QED
      BY <1>1, <2>1, <2>2, <2>3 DEF WorkerMove
  <1>2. ASSUME CallerMove(t) PROVE Goal
    BY <1>2 DEF CallerMove, CallerGone, DirectPrompt
  <1>3. ASSUME AppendMove(t) PROVE Goal
    <2>. USE Outcomes DEF At
    <2>1. CASE EnterAdmission(t)
      BY <2>1 DEF EnterAdmission
    <2>2. CASE SavePrompt(t)
      <3>1. UNCHANGED turns
        BY <2>2 DEF SavePrompt
      <3>2. Succeeded(t).pc \notin AppendPoints
        BY DEF AppendPoints
      <3>. QED
        BY <2>2, <3>1, <3>2, SaveRecord DEF StoreSaves, StoreMerges
    <2>3. CASE SaveUnacknowledged(t)
      BY <2>3, PutRecord DEF SaveUnacknowledged, StoreSavesUnmarked, AppendPoints
    <2>4. CASE OwnExecution(t)
      BY <2>4, PutRecord DEF OwnExecution, StoreMerges, AppendPoints
    <2>5. CASE AppendFails(t)
      BY <2>5, PutRecord DEF AppendFails, Acknowledging, StoreMerges, AppendPoints
    <2>6. CASE StartRun(t)
      BY <2>6 DEF StartRun
    <2>7. CASE Handoff(t)
      BY <2>7, PutRecord DEF Handoff, StoreHands
    <2>8. CASE HandoffFails(t)
      BY <2>8, PutRecord DEF HandoffFails, StoreLoses, AppendPoints
    <2>9. CASE GuardRun(t)
      BY <2>9, GuardRecord DEF GuardRun, StorePrompts
    <2>. QED
      BY <1>3, <2>1, <2>2, <2>3, <2>4, <2>5, <2>6, <2>7, <2>8, <2>9 DEF AppendMove
  <1>4. ASSUME TurnMove(t) PROVE Goal
    <2>1. CASE BeginTurn(t) \/ DrainBoundary(t) \/ EndTurn(t) \/ FinishRun(t)
      BY <2>1 DEF BeginTurn, DrainBoundary, EndTurn, FinishRun
    <2>2. CASE FirstStep(t) \/ FollowUp(t) \/ DrainPrompt(t)
      BY <2>2 DEF FirstStep, FollowUp, DrainPrompt
    <2>3. CASE CloseRun(t) \/ TurnFails(t)
      BY <2>3 DEF CloseRun, TurnFails
    <2>. QED
      BY <1>4, <2>1, <2>2, <2>3 DEF TurnMove
  <1>. QED
    BY <1>1, <1>2, <1>3, <1>4 DEF Move

\* How an append goes on: what it is about stays, and past the save it is about a
\* message that is kept.
EntersAppend(t) ==
    /\ UNCHANGED <<fate, entry>>
    /\ \/ task'[t].row = 0 /\ task'[t].msg \in Msgs
       \/ /\ task'[t].row \in Queue /\ task'[t].msg = entry[task'[t].row].msg
          /\ task'[t].run = 0 => IsHead(task'[t].row, Queue)
ReachesSave(t) ==
    /\ At(t, "enter")
    /\ task'[t].row = task[t].row /\ task'[t].msg = task[t].msg /\ task'[t].run = task[t].run
    /\ task'[t].saved => task[t].row \in Queue /\ entry[task[t].row].saved
PassesSave(t) ==
    /\ task'[t].row = task[t].row /\ task'[t].msg = task[t].msg
    /\ task[t].pc \in {"own", "start", "busy"} \/ StoreSaves(t)
          \/ (At(t, "save") /\ task[t].saved /\ UNCHANGED entry)
    /\ ~At(t, "busy")' => task'[t].run = task[t].run
    /\ At(t, "busy")' => At(t, "start")
    /\ At(t, "handoff")' => At(t, "busy")

\* The points of an append are reached one after the other.
LEMMA AppendPath ==
  ASSUME TypeOK, TaskShape, NEW t \in Tasks, Move(t)
  PROVE  /\ At(t, "enter")' => EntersAppend(t)
         /\ At(t, "save")' => ReachesSave(t)
         /\ task'[t].pc \in {"own", "start", "busy", "handoff"} => PassesSave(t)
  <1>. DEFINE Goal == /\ At(t, "enter")' => EntersAppend(t)
                      /\ At(t, "save")' => ReachesSave(t)
                      /\ task'[t].pc \in {"own", "start", "busy", "handoff"} => PassesSave(t)
  <1>. Queue \subseteq Rows
    BY DEF Queue
  <1>. USE Outcomes DEF At
  <1>1. ASSUME t \in Workers, WorkerMove(t) PROVE Goal
    <2>1. CASE WaitUntilIdle(t) \/ ClaimFails(t)
      BY <1>1, <2>1, GoRecord DEF WaitUntilIdle, ClaimFails
    <2>2. CASE RemoveControl(t) \/ PromptFailed(t) \/ QueueStoreFails(t)
      BY <1>1, <2>2, GoRecord, PutRecord DEF RemoveControl, PromptFailed, QueueStoreFails
    <2>3. CASE ReadControl(t) \/ ClaimCompaction(t) \/ EndCompaction(t)
      BY <1>1, <2>3, ReadControlRecord, ClaimRecord, EndCompactionRecord
    <2>4. CASE PeekPrompt(t)
      BY <1>1, <2>4, PeekRecord DEF PeekPrompt, storeVars, EntersAppend, IsHead
    <2>. QED
      BY <1>1, <2>1, <2>2, <2>3, <2>4 DEF WorkerMove
  <1>2. ASSUME t \in Callers, CallerMove(t) PROVE Goal
    <2>1. CASE CallerGone(t)
      BY <2>1, PutRecord DEF CallerGone
    <2>2. ASSUME NEW m \in Msgs, DirectPrompt(t, m) PROVE Goal
      BY <2>2, CallRecord DEF DirectPrompt, storeVars, EntersAppend
    <2>. QED
      BY <1>2, <2>1, <2>2 DEF CallerMove
  <1>3. ASSUME AppendMove(t) PROVE Goal
    <2>1. CASE EnterAdmission(t)
      BY <2>1, EnterRecord DEF ReachesSave
    <2>2. CASE SavePrompt(t)
      <3>1. UNCHANGED turns
        BY <2>2 DEF SavePrompt, asideVars, historyVars
      <3>. QED
        BY <2>2, <3>1, SaveRecord DEF PassesSave, StoreSaves, Keeps
    <2>3. CASE SaveUnacknowledged(t) \/ AppendFails(t)
      BY <2>3, PutRecord DEF SaveUnacknowledged, AppendFails
    <2>4. CASE OwnExecution(t)
      BY <2>4, GoRecord, PutRecord DEF OwnExecution, PassesSave, Keeps
    <2>5. CASE StartRun(t)
      BY <2>5, StartRecord DEF PassesSave
    <2>7. CASE GuardRun(t)
      BY <2>7, GuardRecord DEF PassesSave, Keeps
    <2>6. CASE Handoff(t) \/ HandoffFails(t)
      BY <2>6, PutRecord DEF Handoff, HandoffFails
    <2>. QED
      BY <1>3, <2>1, <2>2, <2>3, <2>4, <2>5, <2>6, <2>7 DEF AppendMove
  <1>4. ASSUME TurnMove(t) PROVE Goal
    <2>1. CASE BeginTurn(t) \/ DrainBoundary(t) \/ EndTurn(t) \/ FinishRun(t)
      BY <2>1, GoRecord DEF BeginTurn, DrainBoundary, EndTurn, FinishRun
    <2>2. CASE FirstStep(t) \/ FollowUp(t)
      BY <2>2, ProviderRecord
    <2>3. CASE DrainPrompt(t)
      <3>1. task[t].run # 0
        BY <2>3, DrainRecord DEF TaskShape, RunPoints
      <3>. QED
        BY <2>3, <3>1, DrainRecord DEF DrainPrompt, storeVars, EntersAppend
    <2>4. CASE CloseRun(t) \/ TurnFails(t)
      BY <2>4, PutRecord DEF CloseRun, TurnFails
    <2>. QED
      BY <1>4, <2>1, <2>2, <2>3, <2>4 DEF TurnMove
  <1>. QED
    BY <1>1, <1>2, <1>3, <1>4 DEF Move

\* Everything else that happens leaves the store alone, or is a client's.
LEMMA StoreSteps ==
  ASSUME TypeOK, [Next]_vars
  PROVE  \/ /\ (RowsLeave /\ UNCHANGED entry) \/ Submitted
            /\ UNCHANGED <<messages, turns, task>>
         \/ \E t \in Tasks : Move(t)
         \/ StoreSame /\ \A t \in Tasks : task'[t] \in {task[t], Waiting, Off}
  <1>. DEFINE Goal == \/ /\ (RowsLeave /\ UNCHANGED entry) \/ Submitted
                         /\ UNCHANGED <<messages, turns, task>>
                      \/ \E t \in Tasks : Move(t)
                      \/ StoreSame /\ \A t \in Tasks : task'[t] \in {task[t], Waiting, Off}
  <1>1. CASE ClientMove
    BY <1>1, ClientAlone, ClientQueue
  <1>2. CASE AdmitWake
    BY <1>2, WakeRecord DEF StoreSame
  <1>3. ASSUME NEW w \in Workers, CycleMove(w) PROVE Goal
    BY <1>3, CycleRecord DEF StoreSame
  <1>4. CASE Restart
    BY <1>4, RestartRecord DEF StoreSame
  <1>5. ASSUME NEW i \in Runs, Abandon(i) PROVE Goal
    BY <1>5 DEF Abandon, StoreSame, asideVars, historyVars
  <1>6. CASE UNCHANGED vars
    BY <1>6 DEF vars, StoreSame, storeVars, asideVars, historyVars
  <1>. QED
    BY <1>1, <1>2, <1>3, <1>4, <1>5, <1>6, Steps

\* Rows stay in order, and no message is queued twice.
LEMMA RowsKept ==
  ASSUME TypeOK, RowsInOrder, [Next]_vars PROVE RowsInOrder'
  <1>1. CASE RowsLeave
    BY <1>1, QueueShrinks DEF RowsInOrder, RowsLeave, Queue
  <1>2. CASE Submitted
    <2>1. PICK r \in Rows, m \in Msgs, d \in Deliveries :
            /\ IsNextRow(r) /\ ~\E s \in Queue : entry[s].msg = m
            /\ fate' = [fate EXCEPT ![r] = "queued"]
            /\ entry' = [entry EXCEPT ![r] = [msg |-> m, mode |-> d, saved |-> FALSE]]
      BY <1>2 DEF Submitted
    <2>2. /\ fate'[r] = "queued" /\ entry'[r].msg = m
          /\ \A s \in Rows : s # r => fate'[s] = fate[s] /\ entry'[s] = entry[s]
      BY <2>1 DEF TypeOK
    <2>3. \A s, u \in Rows : s < u /\ fate'[u] # "unused" => fate'[s] # "unused"
      BY <2>1, <2>2 DEF RowsInOrder, IsNextRow, Rows
    <2>4. \A s \in Rows : fate'[s] # "unused" => entry'[s].msg \in Msgs
      BY <2>2 DEF RowsInOrder
    <2>5. \A s, u \in Queue' : entry'[s].msg = entry'[u].msg => s = u
      BY <2>1, <2>2 DEF RowsInOrder, Queue
    <2>. QED
      BY <2>3, <2>4, <2>5 DEF RowsInOrder
  <1>3. ASSUME NEW t \in Tasks, Move(t) PROVE RowsLeave
    BY <1>3, MoveLeaves
  <1>4. CASE StoreSame
    BY <1>4 DEF StoreSame, RowsInOrder, Queue
  <1>. QED
    BY <1>1, <1>2, <1>3, <1>4, StoreSteps

\* Beginning a turn counts for its message alone.
LEMMA Beginning ==
  ASSUME TypeOK, NEW m \in Msgs, Begin(m)
  PROVE  /\ \A n \in Msgs : n # m => turns'[n] = turns[n]
         /\ turns[m] = 0 => turns'[m] = 1
  BY DEF TypeOK, Begin

\* Turns are begun for messages that are kept.
LEMMA TurnsStay ==
  ASSUME TypeOK, TaskShape, TurnsKept, AppendFollowsRow, AppendIsFresh, [Next]_vars
  PROVE  TurnsKept'
  <1>1. CASE UNCHANGED <<messages, turns>>
    BY <1>1 DEF TurnsKept
  <1>2. ASSUME NEW t \in Tasks, Move(t) PROVE TurnsKept'
    <2>. USE DEF TurnsKept
    <2>1. CASE StoreSame \/ StoreMerges(t) \/ StoreLoses(t)
      BY <2>1 DEF StoreSame, StoreMerges, StoreLoses
    <2>2. CASE StoreSaves(t) \/ StoreSavesUnmarked(t)
      BY <2>2 DEF StoreSaves, StoreSavesUnmarked, Persist
    <2>3. CASE StoreHands(t) \/ StorePrompts(t)
      <3>1. task[t].msg \in Msgs /\ task[t].msg \in messages
        BY <2>3 DEF StoreHands, StorePrompts, AppendFollowsRow, AppendIsFresh, AppendPoints, At
      <3>. QED
        BY <2>3, <3>1, Beginning DEF StoreHands, StorePrompts
    <2>. QED
      BY <1>2, <2>1, <2>2, <2>3, StoreMove
  <1>. QED
    BY <1>1, <1>2, StoreSteps DEF StoreSame

\* A marker keeps vouching for its message.
LEMMA MarkerKept ==
  ASSUME TypeOK, TaskShape, RowsInOrder, TurnsKept, AppendFollowsRow, AppendIsFresh,
         MarkerMeansUnstarted, [Next]_vars
  PROVE  MarkerMeansUnstarted'
  <1>. USE DEF MarkerMeansUnstarted
  <1>1. CASE StoreSame
    BY <1>1 DEF StoreSame, Queue
  <1>2. CASE UNCHANGED <<messages, turns>> /\ ((RowsLeave /\ UNCHANGED entry) \/ Submitted)
    <2>1. CASE RowsLeave /\ UNCHANGED entry
      BY <1>2, <2>1, QueueShrinks
    <2>2. CASE Submitted
      BY <1>2, <2>2 DEF Submitted, Queue, TypeOK
    <2>. QED
      BY <1>2, <2>1, <2>2
  <1>3. ASSUME NEW t \in Tasks, Move(t) PROVE MarkerMeansUnstarted'
    <2>. /\ Queue' \subseteq Queue /\ Queue \subseteq Rows /\ 0 \notin Rows
         /\ \A r \in Rows : entry'[r].msg = entry[r].msg
      BY <1>3, MoveLeaves, QueueShrinks DEF RowsLeave, Queue, Rows
    <2>1. CASE StoreMerges(t) \/ StoreLoses(t) \/ StoreSavesUnmarked(t)
      BY <2>1 DEF StoreMerges, StoreLoses, StoreSavesUnmarked
    <2>2. CASE StoreSaves(t)
      <3>1. SUFFICES ASSUME NEW r \in Queue, entry'[r].saved
                     PROVE  entry[r].msg \in messages' /\ turns[entry[r].msg] = 0
        BY <2>2 DEF StoreSaves
      <3>2. CASE entry[r].saved
        BY <2>2, <3>2 DEF StoreSaves, Persist
      <3>3. CASE ~entry[r].saved
        <4>1. r = task[t].row /\ task[t].msg \in messages' /\ task[t].msg \notin messages
          BY <2>2, <3>1, <3>3 DEF StoreSaves, Persist
        <4>2. entry[r].msg = task[t].msg /\ task[t].msg \in Msgs
          BY <2>2, <4>1 DEF StoreSaves, AppendFollowsRow, AppendPoints, At
        <4>3. turns[task[t].msg] = 0
          BY <4>1, <4>2 DEF TurnsKept
        <4>. QED
          BY <4>1, <4>2, <4>3
      <3>. QED
        BY <3>2, <3>3
    <2>3. CASE StoreHands(t) \/ StorePrompts(t)
      <3>1. /\ task[t].msg \in Msgs
            /\ \A r \in Queue : entry[r].saved /\ entry[r].msg = task[t].msg => r = task[t].row
        BY <2>3 DEF StoreHands, StorePrompts, AppendFollowsRow, AppendIsFresh, AppendPoints, At
      <3>2. task[t].row \notin Queue'
        BY <2>3 DEF StoreHands, StorePrompts, Settled, Queue
      <3>3. UNCHANGED <<entry, messages>> /\ \A n \in Msgs : n # task[t].msg => turns'[n] = turns[n]
        BY <2>3, <3>1, Beginning DEF StoreHands, StorePrompts
      <3>4. \A r \in Queue : entry[r].msg \in Msgs
        BY DEF RowsInOrder, Queue
      <3>. QED
        BY <3>1, <3>2, <3>3, <3>4
    <2>. QED
      BY <1>1, <1>3, <2>1, <2>2, <2>3, StoreMove
  <1>. QED
    BY <1>1, <1>2, <1>3, StoreSteps

-----------------------------------------------------------------------------
(* An append follows its row *)

\* An append of t is about its row, the head of the queue if it will hand off.
Follows(t) ==
    task[t].pc \in AppendPoints =>
        /\ task[t].msg \in Msgs
        /\ task[t].row # 0 =>
              /\ fate[task[t].row] # "unused"
              /\ entry[task[t].row].msg = task[t].msg
        /\ task[t].row \in Queue /\ (task[t].run = 0 \/ task[t].pc \in {"busy", "handoff"}) =>
              IsHead(task[t].row, Queue)

\* A row that stays in a queue that shrinks stays its head.
LEMMA FollowsOn ==
  ASSUME TypeOK, NEW t \in Tasks, Follows(t), RowsLeave, task'[t].pc \in AppendPoints,
         task[t].pc \in AppendPoints, task'[t].row = task[t].row, task'[t].msg = task[t].msg,
         task'[t].run = 0 \/ task'[t].pc \in {"busy", "handoff"}
            => task[t].run = 0 \/ task[t].pc \in {"busy", "handoff"}
  PROVE  Follows(t)'
  <1>1. Queue' \subseteq Queue
    BY QueueShrinks
  <1>2. task[t].row # 0 => task[t].row \in Rows
    BY DEF TypeOK, Task
  <1>3. task[t].row # 0 =>
           fate'[task[t].row] # "unused" /\ entry'[task[t].row].msg = task[t].msg
    BY <1>2 DEF Follows, RowsLeave
  <1>4. task[t].row \in Queue' /\ (task'[t].run = 0 \/ task'[t].pc \in {"busy", "handoff"})
           => IsHead(task[t].row, Queue')
    BY <1>1 DEF Follows, IsHead
  <1>. QED
    BY <1>3, <1>4 DEF Follows

\* A row that a client submits comes last.
LEMMA FollowsSubmitted ==
  ASSUME TypeOK, RowsInOrder, NEW t \in Tasks, Follows(t), Submitted, UNCHANGED task
  PROVE  Follows(t)'
  <1>1. PICK r \in Rows, m \in Msgs, d \in Deliveries :
          /\ IsNextRow(r) /\ ~\E s \in Queue : entry[s].msg = m
          /\ fate' = [fate EXCEPT ![r] = "queued"]
          /\ entry' = [entry EXCEPT ![r] = [msg |-> m, mode |-> d, saved |-> FALSE]]
    BY DEF Submitted
  <1>2. /\ Queue' = Queue \cup {r} /\ fate[r] = "unused"
        /\ \A s \in Rows : s # r => fate'[s] = fate[s] /\ entry'[s] = entry[s]
    BY <1>1 DEF TypeOK, Queue, IsNextRow
  <1>3. task[t].row # 0 => task[t].row \in Rows
    BY DEF TypeOK, Task
  <1>4. ASSUME task[t].row # 0, fate[task[t].row] # "unused"
        PROVE  task[t].row # r /\ task[t].row < r
    <2>1. task[t].row # r /\ ~(r < task[t].row)
      BY <1>2, <1>3, <1>4 DEF RowsInOrder
    <2>. QED
      BY <1>3, <1>4, <2>1 DEF Rows
  <1>5. Queue \subseteq Rows /\ 0 \notin Rows
    BY DEF Queue, Rows
  <1>6. SUFFICES ASSUME task[t].pc \in AppendPoints PROVE Follows(t)'
    BY DEF Follows
  <1>7. ASSUME task[t].row \in Queue', task[t].run = 0 \/ task[t].pc \in {"busy", "handoff"}
        PROVE  IsHead(task[t].row, Queue')
    <2>1. task[t].row # 0
      BY <1>2, <1>5, <1>7
    <2>2. task[t].row \in Queue /\ task[t].row < r
      BY <1>2, <1>4, <1>6, <1>7, <2>1 DEF Follows
    <2>3. IsHead(task[t].row, Queue)
      BY <1>6, <1>7, <2>2 DEF Follows
    <2>. QED
      <3>1. task[t].row <= r
        BY <1>3, <2>1, <2>2, Bounds DEF Rows
      <3>. QED
        BY <1>2, <2>2, <2>3, <3>1 DEF IsHead
  <1>8. task[t].row # 0 =>
          fate'[task[t].row] # "unused" /\ entry'[task[t].row].msg = task[t].msg
    BY <1>2, <1>3, <1>4, <1>6 DEF Follows
  <1>. QED
    BY <1>6, <1>7, <1>8 DEF Follows, At

\* A move keeps the append of its task with its row.
LEMMA FollowsMove ==
  ASSUME TypeOK, TaskShape, RowsInOrder, NEW t \in Tasks, Follows(t), Move(t)
  PROVE  Follows(t)'
  <1>. Queue \subseteq Rows /\ 0 \notin Rows /\ RowsLeave
    BY MoveLeaves DEF Queue, Rows
  <1>1. CASE At(t, "enter")'
    <2>1. EntersAppend(t)
      BY <1>1, AppendPath
    <2>2. task'[t].row \in Queue => entry[task'[t].row].msg \in Msgs
      BY DEF RowsInOrder, Queue
    <2>3. Queue' = Queue /\ \A r \in Queue : fate[r] # "unused"
      BY <2>1 DEF EntersAppend, Queue
    <2>. QED
      BY <1>1, <2>1, <2>2, <2>3 DEF EntersAppend, Follows, At
  <1>2. CASE At(t, "save")'
    BY <1>2, AppendPath, FollowsOn DEF ReachesSave, At, AppendPoints
  <1>3. CASE task'[t].pc \in {"own", "start", "busy", "handoff"}
    <2>1. PassesSave(t)
      BY <1>3, AppendPath
    <2>2. task[t].pc \in AppendPoints /\ task'[t].pc \in AppendPoints
      BY <1>3, <2>1 DEF PassesSave, StoreSaves, At, AppendPoints
    <2>3. At(t, "start") => task[t].run = 0
      BY DEF TaskShape, At, RunPoints
    <2>. QED
      BY <1>3, <2>1, <2>2, <2>3, FollowsOn DEF PassesSave, At
  <1>. QED
    BY <1>1, <1>2, <1>3 DEF Follows, At, AppendPoints

\* Every append keeps following its row.
LEMMA FollowsKept ==
  ASSUME TypeOK, TaskShape, RowsInOrder, AppendFollowsRow, [Next]_vars PROVE AppendFollowsRow'
  <1>. \A t \in Tasks : Follows(t)
    BY DEF AppendFollowsRow, Follows
  <1>1. SUFFICES ASSUME NEW t \in Tasks PROVE Follows(t)'
    BY DEF AppendFollowsRow, Follows
  <1>2. ASSUME RowsLeave, UNCHANGED task PROVE Follows(t)'
    BY <1>2, FollowsOn DEF Follows, At
  <1>3. ASSUME Submitted, UNCHANGED task PROVE Follows(t)'
    BY <1>3, FollowsSubmitted
  <1>4. ASSUME NEW u \in Tasks, Move(u) PROVE Follows(t)'
    <2>1. CASE u = t
      BY <1>4, <2>1, FollowsMove
    <2>2. CASE u # t
      <3>1. RowsLeave /\ task'[t] = task[t]
        BY <1>4, <2>2, MoveLeaves, MoveAlone
      <3>. QED
        BY <3>1, FollowsOn DEF Follows, At
    <2>. QED
      BY <2>1, <2>2
  <1>5. ASSUME StoreSame, task'[t] \in {task[t], Waiting, Off} PROVE Follows(t)'
    BY <1>5 DEF StoreSame, Follows, At, Queue, Waiting, Off, AppendPoints
  <1>. QED
    BY <1>2, <1>3, <1>4, <1>5, StoreSteps

-----------------------------------------------------------------------------
(* Past the save, the message has had no turn *)

\* What t is about to start is kept and unstarted, and no other row resumes it.
Fresh(t) ==
    task[t].pc \in {"own", "start", "busy", "handoff"} \/ (At(t, "save") /\ task[t].saved) =>
        /\ task[t].msg \in messages /\ turns[task[t].msg] = 0
        /\ \A r \in Queue : entry[r].saved /\ entry[r].msg = task[t].msg => r = task[t].row

\* Outside the prompt lock a move leaves the store alone.
LEMMA UnlockedAlone ==
  ASSUME TypeOK, TaskShape, NEW t \in Tasks, Move(t), task[t].pc \notin LockedPoints
  PROVE  StoreSame
  BY StoreMove DEF StoreSaves, StoreSavesUnmarked, StoreMerges, StoreHands, StoreLoses, StorePrompts,
     At, LockedPoints, AppendPoints

\* The task's own move: it resumes its own row, or keeps a message that is new.
LEMMA FreshMove ==
  ASSUME TypeOK, TaskShape, PromptLockHeld, RowsInOrder, TurnsKept, MarkerMeansUnstarted,
         AppendFollowsRow, NEW t \in Tasks, Fresh(t), Move(t)
  PROVE  Fresh(t)'
  <1>. /\ Queue' \subseteq Queue /\ Queue \subseteq Rows
       /\ \A r \in Rows : entry'[r].msg = entry[r].msg
    BY MoveLeaves, QueueShrinks DEF Queue, RowsLeave
  <1>1. CASE At(t, "save")'
    <2>1. ReachesSave(t)
      BY <1>1, AppendPath
    <2>2. StoreSame
      BY <2>1, UnlockedAlone DEF ReachesSave, At, LockedPoints, AppendPoints
    <2>3. SUFFICES ASSUME task'[t].saved PROVE Fresh(t)'
      BY <1>1 DEF Fresh, At
    <2>4. task[t].row \in Queue /\ entry[task[t].row].saved
      BY <2>1, <2>3 DEF ReachesSave
    <2>5. entry[task[t].row].msg = task[t].msg
      <3>1. task[t].row # 0
        BY <2>4 DEF Queue, Rows
      <3>. QED
        BY <2>1, <3>1 DEF ReachesSave, AppendFollowsRow, AppendPoints, At
    <2>6. task[t].msg \in messages /\ turns[task[t].msg] = 0
      BY <2>4, <2>5 DEF MarkerMeansUnstarted
    <2>7. \A r \in Queue : entry[r].msg = task[t].msg => r = task[t].row
      BY <2>4, <2>5 DEF RowsInOrder
    <2>. QED
      BY <2>1, <2>2, <2>6, <2>7 DEF Fresh, ReachesSave, StoreSame
  <1>2. CASE task'[t].pc \in {"own", "start", "busy", "handoff"}
    <2>1. PassesSave(t)
      BY <1>2, AppendPath
    <2>2. CASE StoreSaves(t)
      <3>1. /\ task[t].msg \in Msgs /\ task[t].msg \notin messages
            /\ messages' = messages \cup {task[t].msg} /\ UNCHANGED <<fate, turns>>
        BY <2>2 DEF StoreSaves, Persist, AppendFollowsRow, AppendPoints, At
      <3>2. turns[task[t].msg] = 0
        BY <3>1 DEF TurnsKept
      <3>3. ASSUME NEW r \in Queue, entry'[r].saved, entry'[r].msg = task[t].msg
            PROVE  r = task[t].row
        <4>1. entry[r].msg = task[t].msg
          BY <3>3
        <4>2. ~entry[r].saved
          BY <3>1, <4>1 DEF MarkerMeansUnstarted
        <4>. QED
          BY <2>2, <3>3, <4>2 DEF StoreSaves, Persist
      <3>. QED
        BY <2>1, <3>1, <3>2, <3>3 DEF Fresh, PassesSave
    <2>3. CASE ~StoreSaves(t)
      <3>1. \/ task[t].pc \in {"own", "start", "busy", "handoff"}
            \/ At(t, "save") /\ task[t].saved
        BY <2>1, <2>3 DEF PassesSave
      <3>2. StoreSame
        BY <1>2, <2>3, StoreMove
        DEF StoreSavesUnmarked, StoreMerges, StoreHands, StoreLoses, StorePrompts, At, AppendPoints
      <3>. QED
        BY <2>1, <3>1, <3>2 DEF Fresh, PassesSave, StoreSame
    <2>. QED
      BY <2>2, <2>3
  <1>. QED
    BY <1>1, <1>2 DEF Fresh, At

\* No step spoils an append that is past the save.
LEMMA FreshKept ==
  ASSUME TypeOK, TaskShape, PromptLockHeld, RowsInOrder, TurnsKept, MarkerMeansUnstarted,
         AppendFollowsRow, AppendIsFresh, [Next]_vars
  PROVE  AppendIsFresh'
  <1>. \A t \in Tasks : Fresh(t)
    BY DEF AppendIsFresh, Fresh
  <1>1. SUFFICES ASSUME NEW t \in Tasks PROVE Fresh(t)'
    BY DEF AppendIsFresh, Fresh
  <1>2. ASSUME RowsLeave, UNCHANGED <<entry, messages, turns, task>> PROVE Fresh(t)'
    BY <1>2, QueueShrinks DEF Fresh, At
  <1>3. ASSUME Submitted, UNCHANGED <<messages, turns, task>> PROVE Fresh(t)'
    BY <1>3 DEF Submitted, Fresh, At, Queue, TypeOK
  <1>4. ASSUME NEW u \in Tasks, Move(u) PROVE Fresh(t)'
    <2>1. CASE u = t
      BY <1>4, <2>1, FreshMove
    <2>2. CASE u # t
      <3>1. task'[t] = task[t]
        BY <1>4, <2>2, MoveAlone
      <3>2. SUFFICES ASSUME task[t].pc \in LockedPoints PROVE Fresh(t)'
        BY <3>1 DEF Fresh, At, LockedPoints, AppendPoints
      <3>3. task[u].pc \notin LockedPoints
        BY <2>2, <3>2 DEF PromptLockHeld
      <3>4. StoreSame
        BY <1>4, <3>3, UnlockedAlone
      <3>. QED
        BY <3>1, <3>4 DEF Fresh, At, StoreSame, Queue
    <2>. QED
      BY <2>1, <2>2
  <1>5. ASSUME StoreSame, task'[t] \in {task[t], Waiting, Off} PROVE Fresh(t)'
    BY <1>5 DEF StoreSame, Fresh, At, Queue, Waiting, Off
  <1>. QED
    BY <1>2, <1>3, <1>4, <1>5, StoreSteps

-----------------------------------------------------------------------------
(* The invariant and what follows from it *)

\* The inductive invariant holds initially.
LEMMA InvInit == Init => QueueInv
  <1>. SUFFICES ASSUME Init PROVE QueueInv
    OBVIOUS
  <1>1. TypeOK
    BY TypeInit
  <1>2. /\ Queue = {} /\ Controls = {} /\ ~worker /\ guard = NoTask
        /\ \A t \in Tasks : task[t] = Off
        /\ \A m \in Msgs : turns[m] = 0
        /\ \A r \in Rows : fate[r] = "unused"
    BY DEF Init, Queue, Controls
  <1>3. TaskShape /\ AppendFollowsRow /\ AppendIsFresh
    BY <1>2 DEF TaskShape, AppendFollowsRow, AppendIsFresh, Off, RunPoints, WorkerPoints,
       AppendPoints, At
  <1>4. PromptLockHeld
    BY <1>2, TaskAssumption DEF PromptLockHeld, Off, LockedPoints, AppendPoints
  <1>5. WorkerOwned /\ LookedAndMissed /\ RecordHeld
    BY <1>2 DEF WorkerOwned, LookedAndMissed, RecordHeld, Executing, Off, At, Tasks
  <1>6. SlotHeld
    BY <1>2 DEF SlotHeld, Executing, Off, At
  <1>7. NoLostWakeup /\ RowsInOrder /\ TurnsKept /\ MarkerMeansUnstarted
    BY <1>2 DEF NoLostWakeup, RowsInOrder, TurnsKept, MarkerMeansUnstarted
  <1>. QED
    BY <1>1, <1>3, <1>4, <1>5, <1>6, <1>7 DEF QueueInv

\* Every step keeps the inductive invariant.
LEMMA InvNext == QueueInv /\ [Next]_vars => QueueInv'
  <1>. SUFFICES ASSUME QueueInv, [Next]_vars PROVE QueueInv'
    OBVIOUS
  <1>. USE DEF QueueInv
  <1>1. TypeOK' /\ TaskShape' /\ PromptLockHeld'
    BY TypeNext, ShapeKept, LockKept
  <1>2. WorkerOwned' /\ NoLostWakeup' /\ LookedAndMissed'
    BY OwnerKept, WakeKept, LookKept
  <1>3. SlotHeld' /\ RecordHeld'
    BY SlotKept, RecordKept
  <1>4. RowsInOrder' /\ TurnsKept' /\ MarkerMeansUnstarted'
    BY RowsKept, TurnsStay, MarkerKept
  <1>5. AppendFollowsRow' /\ AppendIsFresh'
    BY FollowsKept, FreshKept
  <1>. QED
    BY <1>1, <1>2, <1>3, <1>4, <1>5

\* Every part of the inductive invariant holds in every reachable state.
THEOREM QueueInvariant == Spec => []QueueInv
  BY InvInit, InvNext, PTL DEF Spec

\* Every variable of the queue keeps its type.
THEOREM QueueTypes == Spec => []TypeOK
  <1>1. QueueInv => TypeOK
    BY DEF QueueInv
  <1>. QED
    BY <1>1, QueueInvariant, PTL

\* The queue has one owner exactly while the coordinator says that it has one.
THEOREM OneOwner == Spec => []OneWorker
  <1>1. QueueInv => OneWorker
    <2>. SUFFICES ASSUME WorkerOwned PROVE OneWorker
      BY DEF QueueInv
    <2>. DEFINE W == {w \in Workers : ~At(w, "off")}
    <2>1. CASE W = {}
      BY <2>1, FS_EmptySet DEF OneWorker, WorkerOwned
    <2>2. CASE W # {}
      <3>1. PICK w \in W : W = {w}
        BY <2>2 DEF WorkerOwned
      <3>2. Cardinality(W) = 1
        BY <3>1, FS_Singleton
      <3>. QED
        BY <3>2 DEF OneWorker, WorkerOwned
    <2>. QED
      BY <2>1, <2>2
  <1>. QED
    BY <1>1, QueueInvariant, PTL

\* Queued work always has a worker, a wake under way or an error to show for it.
THEOREM WakesAreKept == Spec => []NoLostWakeup
  <1>1. QueueInv => NoLostWakeup
    BY DEF QueueInv
  <1>. QED
    BY <1>1, QueueInvariant, PTL

\* No two tasks execute at once, whoever crashes, aborts or goes away.
THEOREM OneExecution == Spec => []RunExclusive
  <1>1. QueueInv => RunExclusive
    BY DEF QueueInv, SlotHeld, RunExclusive
  <1>. QED
    BY <1>1, QueueInvariant, PTL

\* A queued prompt that executes is on record, so a restart finds its run.
THEOREM RunsOnRecord == Spec => []RunRecorded
  <1>1. QueueInv => RunRecorded
    BY DEF QueueInv, TaskShape, RecordHeld, RunRecorded, Executing, At, RunPoints, Tasks
  <1>. QED
    BY <1>1, QueueInvariant, PTL

\* Only a caller that goes away between its claim and the guard leaves the slot
\* to nobody: any other claim has a task or a drop guard that will give it back.
THEOREM SlotHasAnOwner == Spec => []SlotOwned
  <1>. 0 \notin Runs
    BY DEF Runs
  <1>. USE DEF SlotOwned
  <1>1. Init => SlotOwned
    BY DEF Init
  <1>2. QueueInv /\ SlotOwned /\ [Next]_vars => SlotOwned'
    <2>. SUFFICES ASSUME QueueInv, SlotOwned, [Next]_vars PROVE SlotOwned'
      OBVIOUS
    <2>. TypeOK /\ TaskShape /\ SlotHeld /\ Workers \subseteq Tasks
      BY DEF QueueInv, Tasks
    <2>1. CASE UNCHANGED <<run, reapers, task, leaked>>
      BY <2>1 DEF Executing, At
    <2>2. ASSUME NEW t \in Tasks, Move(t) PROVE SlotOwned'
      <3>. \A u \in Tasks : u # t => (Executing(u)' <=> Executing(u))
        BY <2>2, MoveAlone DEF Executing, At
      <3>. Executing(t) => run = task[t].run
        BY DEF SlotHeld
      <3>1. leaked => leaked'
        BY <2>2, LeakStays
      <3>2. CASE SlotStays(t)
        BY <3>1, <3>2 DEF SlotStays
      <3>3. CASE SlotClaimed(t)
        BY <3>3 DEF SlotClaimed
      <3>4. CASE SlotVacated(t)
        BY <3>4 DEF SlotVacated
      <3>5. CASE SlotReaped(t)
        BY <3>1, <3>5 DEF SlotReaped, SlotHeld
      <3>. QED
        BY <2>2, <3>2, <3>3, <3>4, <3>5, SlotMove
    <2>3. ASSUME NEW w \in Workers, task[w].run = 0, UNCHANGED <<run, reapers, leaked>>,
                 \A u \in Tasks : u # w => task'[u] = task[u]
          PROVE  SlotOwned'
      BY <2>3 DEF Executing, At
    <2>4. CASE AdmitWake
      BY <2>1, <2>3, <2>4, WakeRecord DEF TaskShape, At, RunPoints
    <2>5. ASSUME NEW w \in Workers, CycleMove(w) PROVE SlotOwned'
      BY <2>3, <2>5, CycleRecord DEF TaskShape, RunPoints
    <2>6. CASE Restart
      BY <2>6, RestartRecord
    <2>7. ASSUME NEW i \in Runs, Abandon(i) PROVE SlotOwned'
      BY <2>7 DEF Abandon, Vacated, Executing, At, asideVars, historyVars
    <2>. QED
      BY <2>1, <2>2, <2>4, <2>5, <2>6, <2>7, Steps, ClientAlone
      DEF vars, slotVars, lockVars, asideVars, historyVars
  <1>. QED
    BY <1>1, <1>2, QueueInvariant, PTL DEF Spec

\* A marked row vouches for a message that is kept and has had no turn.
THEOREM MarkersAreHonest == Spec => []MarkerMeansUnstarted
  <1>1. QueueInv => MarkerMeansUnstarted
    BY DEF QueueInv
  <1>. QED
    BY <1>1, QueueInvariant, PTL

\* No retry, duplicate or restart gives a message a second turn.
THEOREM TurnsAreUnique == Spec => []ExecutedOnce
  <1>1. Init => ExecutedOnce
    BY DEF Init, ExecutedOnce
  <1>2. QueueInv /\ ExecutedOnce /\ [Next]_vars => ExecutedOnce'
    <2>. SUFFICES ASSUME QueueInv, ExecutedOnce, [Next]_vars PROVE ExecutedOnce'
      OBVIOUS
    <2>. USE DEF ExecutedOnce
    <2>1. CASE UNCHANGED turns
      BY <2>1
    <2>2. ASSUME NEW t \in Tasks, Begin(task[t].msg), At(t, "busy") \/ At(t, "handoff")
          PROVE  ExecutedOnce'
      <3>1. task[t].msg \in Msgs /\ turns[task[t].msg] = 0
        BY <2>2 DEF QueueInv, AppendFollowsRow, AppendIsFresh, AppendPoints, At
      <3>. QED
        BY <2>2, <3>1, Beginning DEF QueueInv
    <2>3. ASSUME NEW t \in Tasks, Move(t) PROVE ExecutedOnce'
      BY <2>1, <2>2, <2>3, StoreMove
      DEF QueueInv, StoreSame, StoreSaves, StoreSavesUnmarked, StoreMerges, StoreHands, StoreLoses,
          StorePrompts
    <2>. QED
      BY <2>1, <2>3, StoreSteps DEF QueueInv, StoreSame
  <1>. QED
    BY <1>1, <1>2, QueueInvariant, PTL DEF Spec

\* A worker starts a turn only by retiring a row that is still queued.
THEOREM RowsAreRetired == Spec => HandoffRetiresRow
  <1>. DEFINE Retires == \A w \in Workers : At(w, "handoff") /\ task'[w].pc = "turn" =>
                            fate[task[w].row] = "queued" /\ fate'[task[w].row] = "handed"
  <1>1. QueueInv /\ [Next]_vars => Retires
    <2>. SUFFICES ASSUME QueueInv, [Next]_vars, NEW w \in Workers, At(w, "handoff"),
                         task'[w].pc = "turn"
                  PROVE  fate[task[w].row] = "queued" /\ fate'[task[w].row] = "handed"
      OBVIOUS
    <2>. TypeOK /\ TaskShape /\ w \in Tasks
      BY DEF QueueInv, Tasks
    <2>1. Move(w)
      <3>1. task'[w] \notin {task[w], Waiting, Off}
        BY DEF At, Waiting, Off
      <3>. QED
        BY <3>1, StoreSteps, MoveAlone
    <2>2. Handoff(w)
      BY <2>1, PutRecord, Outcomes, TaskAssumption
      DEF Move, WorkerMove, AppendMove, TurnMove, At, WaitUntilIdle, ReadControl, ClaimCompaction,
          ClaimFails, EndCompaction, RemoveControl, PeekPrompt, PromptFailed, QueueStoreFails,
          EnterAdmission, SavePrompt, SaveUnacknowledged, OwnExecution, AppendFails, StartRun,
          GuardRun, HandoffFails, BeginTurn, FirstStep, DrainBoundary, DrainPrompt, FollowUp, EndTurn,
          FinishRun, CloseRun, TurnFails
    <2>3. task[w].row \in Queue /\ fate' = Settled({task[w].row}, "handed")
      BY <2>2, PutRecord, Outcomes DEF Handoff
    <2>. QED
      BY <2>3 DEF Settled, Queue
  <1>. QED
    BY <1>1, QueueInvariant, PTL DEF Spec, HandoffRetiresRow

\* A compaction starts only with a control that is pending at that moment.
THEOREM CompactionsAreAuthorized == Spec => CompactionIsAuthorized
  <1>. DEFINE Asked == \A w \in Workers : ~At(w, "compacting") /\ task'[w].pc = "compacting" =>
                          \E c \in Controls : ctl'[c] = "run"
  <1>1. QueueInv /\ [Next]_vars => Asked
    <2>. SUFFICES ASSUME QueueInv, [Next]_vars, NEW w \in Workers, ~At(w, "compacting"),
                         task'[w].pc = "compacting"
                  PROVE  \E c \in Controls : ctl'[c] = "run"
      OBVIOUS
    <2>. TypeOK /\ TaskShape /\ w \in Tasks
      BY DEF QueueInv, Tasks
    <2>1. Move(w)
      <3>1. task'[w] \notin {task[w], Waiting, Off}
        BY DEF At, Waiting, Off
      <3>. QED
        BY <3>1, StoreSteps, MoveAlone
    <2>2. ~AppendMove(w) /\ ~TurnMove(w)
      <3>. USE Outcomes DEF At
      <3>1. ~EnterAdmission(w) /\ ~SavePrompt(w) /\ ~StartRun(w) /\ ~GuardRun(w)
        BY EnterRecord, SaveRecord, StartRecord, GuardRecord
      <3>2. ~OwnExecution(w) /\ ~SaveUnacknowledged(w) /\ ~AppendFails(w)
        BY GoRecord, PutRecord DEF OwnExecution, SaveUnacknowledged, AppendFails
      <3>3. ~Handoff(w) /\ ~HandoffFails(w)
        BY PutRecord DEF Handoff, HandoffFails
      <3>4. ~BeginTurn(w) /\ ~DrainBoundary(w) /\ ~EndTurn(w) /\ ~FinishRun(w)
        BY GoRecord DEF BeginTurn, DrainBoundary, EndTurn, FinishRun
      <3>5. ~FirstStep(w) /\ ~FollowUp(w) /\ ~DrainPrompt(w)
        BY ProviderRecord, DrainRecord
      <3>6. ~CloseRun(w) /\ ~TurnFails(w)
        BY PutRecord DEF CloseRun, TurnFails
      <3>. QED
        BY <3>1, <3>2, <3>3, <3>4, <3>5, <3>6 DEF AppendMove, TurnMove
    <2>3. WorkerMove(w)
      BY <2>1, <2>2, TaskAssumption DEF Move
    <2>4. ClaimCompaction(w)
      <3>. USE Outcomes DEF At
      <3>1. ~WaitUntilIdle(w) /\ ~ClaimFails(w) /\ ~RemoveControl(w)
        BY GoRecord, PutRecord DEF WaitUntilIdle, ClaimFails, RemoveControl
      <3>2. ~PromptFailed(w) /\ ~QueueStoreFails(w)
        BY GoRecord, PutRecord DEF PromptFailed, QueueStoreFails
      <3>3. ~ReadControl(w) /\ ~EndCompaction(w) /\ ~PeekPrompt(w)
        BY ReadControlRecord, EndCompactionRecord, PeekRecord
      <3>. QED
        BY <2>3, <3>1, <3>2, <3>3 DEF WorkerMove
    <2>5. Controls # {} /\ ctl' = Taken(Controls, "run")
      BY <2>4, ClaimRecord, Outcomes DEF At
    <2>. QED
      BY <2>5 DEF Taken, Controls
  <1>. QED
    BY <1>1, QueueInvariant, PTL DEF Spec, CompactionIsAuthorized

-----------------------------------------------------------------------------
(* The queue keeps the ledger *)

\* A client adds a row or cancels some.
LEMMA ClientSettles ==
  ASSUME TypeOK, ClientMove
  PROVE  Submitted \/ (UNCHANGED entry /\ \E R \in SUBSET Queue : fate' = Settled(R, "cleared"))
  <1>. DEFINE Cancels == UNCHANGED entry /\ \E R \in SUBSET Queue : fate' = Settled(R, "cleared")
  <1>1. ASSUME UNCHANGED <<fate, entry>> PROVE Cancels
    <2>1. fate = Settled({}, "cleared")
      BY DEF Settled, TypeOK
    <2>. QED
      BY <1>1, <2>1
  <1>2. ASSUME NEW m \in Msgs, NEW d \in Deliveries, Admit(m, d) \/ AdmitUnacknowledged(m, d)
        PROVE  Submitted \/ Cancels
    BY <1>1, <1>2 DEF Admit, AdmitUnacknowledged, Submitted
  <1>3. ASSUME AdmitCompaction \/ AdmitCompactionUnacknowledged \/ Stop \/ StopSubagent
        PROVE  Cancels
    BY <1>1, <1>3 DEF AdmitCompaction, AdmitCompactionUnacknowledged, Stop, StopSubagent
  <1>4. ASSUME Clear PROVE Cancels
    BY <1>4 DEF Clear, Visible
  <1>5. ASSUME ClearAll PROVE Cancels
    BY <1>5 DEF ClearAll
  <1>6. ASSUME Pop PROVE Cancels
    BY <1>1, <1>6 DEF Pop, IsHead, Visible
  <1>. QED
    BY <1>2, <1>3, <1>4, <1>5, <1>6 DEF ClientMove

\* The ledger's rows and pending submissions are the queue's.
LEMMA LedgerNames ==
  /\ Ledger!Submissions = Rows /\ Ledger!Pending = Queue
  /\ \A r \in Rows : ContentOf[r] = entry[r].msg
  BY DEF Ledger!Submissions, Ledger!Pending, Rows, Queue, ContentOf

\* Rows that leave the queue leave the ledger.
LEMMA LedgerLeaves ==
  ASSUME NEW R \in SUBSET Queue, NEW f, fate' = Settled(R, f) PROVE Ledger!Leave(R, f)
  BY LedgerNames DEF Ledger!Leave, Settled

\* Every move is a step of the ledger, or none.
LEMMA LedgerMove ==
  ASSUME QueueInv, NEW t \in Tasks, Move(t)
  PROVE  [Ledger!LedgerNext]_(Ledger!ledgerVars)
  <1>. DEFINE r == task[t].row
              m == task[t].msg
              Goal == [Ledger!LedgerNext]_(Ledger!ledgerVars)
  <1>. /\ TypeOK /\ TaskShape /\ Queue \subseteq Rows /\ 0 \notin Rows
       /\ fate = [s \in Rows |-> fate[s]] /\ RowsLeave
    BY MoveLeaves DEF QueueInv, Queue, Rows, TypeOK
  <1>1. ContentOf' = ContentOf
    BY DEF RowsLeave, ContentOf
  <1>2. ASSUME task[t].pc \in AppendPoints
        PROVE  m \in Msgs /\ (r \in Queue => ContentOf[r] = m)
    BY <1>2, LedgerNames DEF QueueInv, AppendFollowsRow
  <1>3. ASSUME task[t].pc \in {"own", "start", "busy", "handoff"}
        PROVE  m \in Msgs /\ m \in messages /\ turns[m] = 0 /\ (r \in Queue => ContentOf[r] = m)
    BY <1>2, <1>3 DEF QueueInv, AppendIsFresh, At, AppendPoints
  <1>4. ASSUME r \notin Queue, NEW f, fate' = Settled({r}, f), UNCHANGED <<messages, turns>>
        PROVE  Goal
    <2>1. fate' = fate
      BY <1>4 DEF Settled
    <2>. QED
      BY <1>1, <1>4, <2>1 DEF Ledger!ledgerVars
  <1>5. CASE StoreSame
    BY <1>1, <1>5 DEF StoreSame, Ledger!ledgerVars
  <1>6. CASE StoreSaves(t) \/ StoreSavesUnmarked(t)
    <2>1. m \in Msgs
      BY <1>2, <1>6 DEF StoreSaves, StoreSavesUnmarked, At, AppendPoints
    <2>2. Ledger!Keep(m)
      BY <1>1, <1>6 DEF StoreSaves, StoreSavesUnmarked, Persist, Ledger!Keep
    <2>. QED
      BY <2>1, <2>2 DEF Ledger!LedgerNext
  <1>7. CASE StoreMerges(t)
    <2>1. CASE r \in Queue
      <3>1. ContentOf[r] \in messages
        BY <1>2, <1>3, <1>7, <2>1 DEF StoreMerges, At, AppendPoints
      <3>2. Ledger!Leave({r}, "merged")
        BY <1>7, <2>1, LedgerLeaves DEF StoreMerges, Acknowledge
      <3>3. Ledger!Merge(r)
        BY <1>1, <1>7, <2>1, <3>1, <3>2, LedgerNames DEF StoreMerges, Ledger!Merge
      <3>. QED
        BY <2>1, <3>3, LedgerNames DEF Ledger!LedgerNext
    <2>2. CASE r \notin Queue
      BY <1>4, <1>7, <2>2 DEF StoreMerges, Acknowledge
    <2>. QED
      BY <2>1, <2>2
  <1>8. CASE StoreLoses(t)
    <2>1. CASE r \in Queue
      <3>1. ContentOf[r] \in messages
        BY <1>3, <1>8, <2>1 DEF StoreLoses, At
      <3>2. Ledger!Leave({r}, "lost")
        BY <1>8, <2>1, LedgerLeaves DEF StoreLoses
      <3>3. Ledger!Lose(r)
        BY <1>1, <1>8, <2>1, <3>1, <3>2, LedgerNames DEF StoreLoses, Ledger!Lose
      <3>. QED
        BY <2>1, <3>3, LedgerNames DEF Ledger!LedgerNext
    <2>2. CASE r \notin Queue
      BY <1>4, <1>8, <2>2 DEF StoreLoses
    <2>. QED
      BY <2>1, <2>2
  <1>9. ASSUME StoreHands(t) \/ StorePrompts(t) PROVE Ledger!StartTurn(m)
    <2>1. m \in Msgs /\ m \in messages /\ turns[m] = 0 /\ Begin(m)
      BY <1>3, <1>9 DEF StoreHands, StorePrompts, At
    <2>2. turns' = [turns EXCEPT ![m] = 1]
      BY <2>1 DEF Begin, TypeOK
    <2>. QED
      BY <2>1, <2>2 DEF Ledger!StartTurn
  <1>10. CASE StoreHands(t)
    <2>1. r \in Queue /\ ContentOf[r] = m
      BY <1>3, <1>10 DEF StoreHands, At
    <2>2. \A s \in Queue : r <= s
      BY <1>10, <2>1 DEF StoreHands, QueueInv, AppendFollowsRow, AppendPoints, At, IsHead
    <2>3. Ledger!Leave({r}, "handed")
      BY <1>10, <2>1, LedgerLeaves DEF StoreHands
    <2>4. Ledger!Hand(r)
      BY <1>1, <1>9, <1>10, <2>1, <2>2, <2>3, LedgerNames DEF StoreHands, Ledger!Hand
    <2>. QED
      BY <2>1, <2>4, LedgerNames DEF Ledger!LedgerNext
  <1>11. CASE StorePrompts(t)
    <2>1. Ledger!Prompt(m) /\ m \in Msgs
      BY <1>1, <1>3, <1>9, <1>11 DEF StorePrompts, Ledger!Prompt, At
    <2>. QED
      BY <2>1 DEF Ledger!LedgerNext
  <1>. QED
    BY <1>5, <1>6, <1>7, <1>8, <1>10, <1>11, StoreMove

\* What clients do is a step of the ledger.
LEMMA LedgerClient ==
  ASSUME TypeOK, ClientMove PROVE [Ledger!LedgerNext]_(Ledger!ledgerVars)
  <1>. UNCHANGED <<messages, turns>>
    BY ClientAlone
  <1>1. CASE Submitted
    <2>1. PICK r \in Rows, m \in Msgs, d \in Deliveries :
            /\ IsNextRow(r) /\ ~\E s \in Queue : entry[s].msg = m
            /\ fate' = [fate EXCEPT ![r] = "queued"]
            /\ entry' = [entry EXCEPT ![r] = [msg |-> m, mode |-> d, saved |-> FALSE]]
      BY <1>1 DEF Submitted
    <2>2. ContentOf' = [ContentOf EXCEPT ![r] = m]
      BY <2>1 DEF ContentOf, TypeOK
    <2>3. m \notin {ContentOf[s] : s \in Queue}
      BY <2>1, LedgerNames DEF Queue
    <2>4. Ledger!Submit(r, m)
      BY <2>1, <2>2, <2>3, LedgerNames DEF Ledger!Submit, IsNextRow
    <2>. QED
      BY <2>4, LedgerNames DEF Ledger!LedgerNext
  <1>2. CASE UNCHANGED entry /\ \E R \in SUBSET Queue : fate' = Settled(R, "cleared")
    <2>1. PICK R \in SUBSET Queue : fate' = Settled(R, "cleared")
      BY <1>2
    <2>2. Ledger!Leave(R, "cleared") /\ ContentOf' = ContentOf
      BY <1>2, <2>1, LedgerLeaves DEF ContentOf
    <2>3. Ledger!Cancel(R) /\ R \in SUBSET Rows
      BY <2>1, <2>2, LedgerNames DEF Ledger!Cancel, Queue
    <2>. QED
      BY <2>3, LedgerNames DEF Ledger!LedgerNext
  <1>. QED
    BY <1>1, <1>2, ClientSettles

\* Rows are settled once and handed off in order, from the transcript, whatever
\* clients, workers, callers, failures and restarts do.
THEOREM LedgerIsKept == Spec => LedgerImplemented
  <1>1. Init => Ledger!LedgerInit
    BY LedgerNames DEF Init, Ledger!LedgerInit
  <1>2. QueueInv /\ [Next]_vars => [Ledger!LedgerNext]_(Ledger!ledgerVars)
    <2>. SUFFICES ASSUME QueueInv, [Next]_vars PROVE [Ledger!LedgerNext]_(Ledger!ledgerVars)
      OBVIOUS
    <2>. TypeOK
      BY DEF QueueInv
    <2>1. ASSUME StoreSame PROVE UNCHANGED Ledger!ledgerVars
      BY <2>1 DEF StoreSame, Ledger!ledgerVars, ContentOf
    <2>2. CASE AdmitWake \/ Restart \/ \E w \in Workers : CycleMove(w)
      BY <2>1, <2>2, WakeRecord, RestartRecord, CycleRecord DEF StoreSame
    <2>3. CASE \E i \in Runs : Abandon(i)
      BY <2>1, <2>3 DEF Abandon, StoreSame, asideVars, historyVars
    <2>4. CASE UNCHANGED vars
      BY <2>1, <2>4 DEF vars, StoreSame, storeVars, asideVars, historyVars
    <2>. QED
      BY <2>2, <2>3, <2>4, Steps, LedgerMove, LedgerClient
  <1>. QED
    BY <1>1, <1>2, QueueInvariant, PTL DEF Spec, LedgerImplemented, Ledger!LedgerSpec

=============================================================================
