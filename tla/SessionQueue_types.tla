------------------------- MODULE SessionQueue_types -------------------------
(***************************************************************************)
(* The promises of the prompt queue, for every number of messages, rows,   *)
(* controls, runs, workers, callers and faults.                            *)
(***************************************************************************)
EXTENDS SessionQueue, FiniteSetTheorems, TLAPS

(* Building blocks *)

\* The bounds are numbers.
LEMMA Bounds ==
  /\ MaxRow \in Nat /\ MaxCtl \in Nat /\ MaxRun \in Nat /\ MaxStep \in Nat
  /\ MaxCall \in Nat /\ MaxFault \in Nat
  /\ 0 \in 0 .. MaxStep
  BY BoundAssumption

\* The blank records have their types.
LEMMA Blanks ==
  /\ NoEntry \in Entry /\ Off \in Task /\ Waiting \in Task
  /\ \A i \in Runs : InTurn(i) \in Task
  <1>1. NoEntry \in Entry
    BY DEF NoEntry, Entry, Modes
  <1>2. Off \in Task
    BY Bounds DEF Off, Task
  <1>3. Waiting \in Task
    BY <1>2 DEF Waiting, Task, WorkerPoints
  <1>4. \A i \in Runs : InTurn(i) \in Task
    BY <1>2 DEF InTurn, Task, RunPoints
  <1>. QED
    BY <1>1, <1>2, <1>3, <1>4

\* Putting a task record somewhere keeps the tasks well typed and the others alone.
LEMMA PutTask ==
  ASSUME task \in [Tasks -> Task], NEW t \in Tasks, NEW r \in Task, Put(t, r)
  PROVE  /\ task' \in [Tasks -> Task] /\ task'[t] = r
         /\ \A u \in Tasks : u # t => task'[u] = task[u]
  BY DEF Put

\* Going to another point changes nothing else.
LEMMA GoTask ==
  ASSUME task \in [Tasks -> Task], NEW t \in Tasks,
         NEW pc \in {"off"} \cup WorkerPoints \cup AppendPoints \cup RunPoints, Go(t, pc)
  PROVE  /\ task' \in [Tasks -> Task]
         /\ task'[t] = [task[t] EXCEPT !.pc = pc]
         /\ task'[t].pc = pc /\ task'[t].run = task[t].run /\ task'[t].row = task[t].row
         /\ task'[t].msg = task[t].msg /\ task'[t].reply = task[t].reply
         /\ task'[t].saved = task[t].saved
         /\ \A u \in Tasks : u # t => task'[u] = task[u]
  <1>1. [task[t] EXCEPT !.pc = pc] \in Task
    BY DEF Task
  <1>. QED
    BY <1>1, PutTask DEF Go, Task

\* Every outcome of an append is a task.
LEMMA OutcomeTypes ==
  ASSUME task \in [Tasks -> Task], NEW t \in Tasks
  PROVE  /\ Succeeded(t) \in Task /\ Erred(t) \in Task
         /\ Conflicted(t) \in Task /\ Unwound(t) \in Task
  <1>1. /\ task[t] \in Task /\ Off \in Task /\ Waiting \in Task
        /\ task[t].row \in {0} \cup Rows
    BY Blanks DEF Task
  <1>2. [task[t] EXCEPT !.pc = "drain", !.drained = TRUE, !.row = 0, !.msg = NoMsg,
                        !.saved = FALSE] \in Task
    BY <1>1, ZenonT(60) DEF Task, RunPoints
  <1>3. [task[t] EXCEPT !.pc = "decide", !.row = 0, !.msg = NoMsg, !.saved = FALSE] \in Task
    BY <1>1, ZenonT(60) DEF Task, RunPoints
  <1>4. [Waiting EXCEPT !.pc = "failed", !.row = task[t].row] \in Task
    BY <1>1, ZenonT(60) DEF Task, WorkerPoints
  <1>. QED
    BY <1>1, <1>2, <1>3, <1>4 DEF Succeeded, Erred, Conflicted, Unwound

-----------------------------------------------------------------------------
(* Type correctness *)

\* Settling rows and taking controls gives them fates.
LEMMA FateTypes ==
  ASSUME TypeOK
  PROVE  /\ \A R, f : f \in RowFates => Settled(R, f) \in [Rows -> RowFates]
         /\ \A D, f : f \in CtlFates => Taken(D, f) \in [Ctls -> CtlFates]
  BY DEF TypeOK, Settled, Taken

\* A new row is an entry.
LEMMA RowType ==
  ASSUME NEW m \in Msgs, NEW d \in Deliveries
  PROVE  [msg |-> m, mode |-> d, saved |-> FALSE] \in Entry
  BY ModeAssumption DEF Entry

\* A call that begins is a task.
LEMMA CallType ==
  ASSUME NEW m \in Msgs, NEW r \in {0} \cup Rows
  PROVE  /\ [Off EXCEPT !.pc = "enter", !.row = r, !.msg = m, !.reply = m \notin NoReply]
              \in Task
         /\ [Off EXCEPT !.pc = "enter", !.msg = m, !.reply = m \notin NoReply] \in Task
  <1>. DEFINE b == m \notin NoReply
  <1>1. b \in BOOLEAN
    OBVIOUS
  <1>. HIDE DEF b
  <1>2. "enter" \in {"off"} \cup WorkerPoints \cup AppendPoints \cup RunPoints
    BY DEF AppendPoints
  <1>3. [Off EXCEPT !.pc = "enter", !.msg = m, !.reply = b] \in Task
    BY <1>1, <1>2, Blanks, ZenonT(60) DEF Task
  <1>4. [Off EXCEPT !.pc = "enter", !.row = r, !.msg = m, !.reply = b] \in Task
    BY <1>1, <1>2, Blanks, ZenonT(60) DEF Task
  <1>. QED
    BY <1>3, <1>4 DEF b

\* What clients do keeps the types.
LEMMA ClientTypes ==
  ASSUME TypeOK, Client PROVE TypeOK'
  <1>1. ASSUME NEW m \in Msgs, NEW d \in Deliveries, Admit(m, d) PROVE TypeOK'
    BY <1>1, Bounds, RowType DEF TypeOK, Admit, RowFates, slotVars, asideVars, stopVars, countVars, historyVars
  <1>2. ASSUME NEW m \in Msgs, NEW d \in Deliveries, AdmitUnacknowledged(m, d) PROVE TypeOK'
    BY <1>2, Bounds, RowType DEF TypeOK, AdmitUnacknowledged, Fault, RowFates, slotVars, lockVars, stopVars, historyVars
  <1>3. ASSUME AdmitCompaction PROVE TypeOK'
    BY <1>3, Bounds DEF TypeOK, AdmitCompaction, CtlFates, slotVars, asideVars, stopVars, countVars, historyVars
  <1>4. ASSUME AdmitWake PROVE TypeOK'
    BY <1>4, Bounds, Blanks DEF TypeOK, AdmitWake, Wake, Put, storeVars, stopVars, countVars, historyVars
  <1>5. ASSUME Clear PROVE TypeOK'
    BY <1>5, Bounds, FateTypes DEF TypeOK, Clear, RowFates, CtlFates, slotVars, lockVars, asideVars, stopVars, countVars, historyVars
  <1>6. ASSUME Pop PROVE TypeOK'
    BY <1>6, Bounds, FateTypes DEF TypeOK, Pop, RowFates, CtlFates, slotVars, lockVars, asideVars, stopVars, countVars, historyVars
  <1>7. ASSUME Stop PROVE TypeOK'
    BY <1>7, Bounds, FateTypes DEF TypeOK, Stop, Abort, CtlFates, lockVars, asideVars, stopVars, countVars, historyVars
  <1>8. ASSUME StopSubagent PROVE TypeOK'
    BY <1>8, Bounds, FateTypes DEF TypeOK, StopSubagent, Abort, Queue, CtlFates, lockVars, countVars, historyVars
  <1>9. ASSUME ClearAll PROVE TypeOK'
    BY <1>9, Bounds, FateTypes DEF TypeOK, ClearAll, RowFates, CtlFates, slotVars, lockVars, countVars, historyVars
  <1>10. ASSUME NEW c \in Callers, CallerGone(c) PROVE TypeOK'
    BY <1>10, Bounds, Blanks DEF TypeOK, CallerGone, Put, Release, Task, Tasks, storeVars, slotVars, asideVars, stopVars, countVars, historyVars
  <1>11. ASSUME NEW c \in Callers, NEW m \in Msgs, DirectPrompt(c, m) PROVE TypeOK'
    <2>. DEFINE r == [Off EXCEPT !.pc = "enter", !.msg = m, !.reply = m \notin NoReply]
    <2>1. r \in Task /\ c \in Tasks
      BY CallType DEF Tasks
    <2>2. Put(c, r)
      BY <1>11 DEF DirectPrompt
    <2>. HIDE DEF r
    <2>3. task' \in [Tasks -> Task]
      BY <2>1, <2>2, PutTask DEF TypeOK
    <2>. QED
      BY <1>11, <2>3, Bounds
      DEF TypeOK, DirectPrompt, storeVars, slotVars, lockVars, stopVars, historyVars
  <1>12. ASSUME AdmitCompactionUnacknowledged PROVE TypeOK'
    BY <1>12, Bounds DEF TypeOK, AdmitCompactionUnacknowledged, Fault, CtlFates, slotVars, lockVars, stopVars, historyVars
  <1>. QED
    BY <1>1, <1>2, <1>3, <1>4, <1>5, <1>6, <1>7, <1>8, <1>9, <1>10, <1>11, <1>12 DEF Client

\* The changes that steps make to a task leave a task.
LEMMA TaskChanges ==
  ASSUME task \in [Tasks -> Task], NEW t \in Tasks
  PROVE  /\ \A c \in Ctls : [task[t] EXCEPT !.pc = "claim", !.ctl = c] \in Task
         /\ \A i \in Runs : [task[t] EXCEPT !.pc = "compacting", !.run = i] \in Task
         /\ \A i \in Runs : [task[t] EXCEPT !.pc = "busy", !.run = i] \in Task
         /\ [task[t] EXCEPT !.pc = "cleanup", !.run = 0] \in Task
         /\ [task[t] EXCEPT !.pc = "drain", !.drained = FALSE] \in Task
         /\ task[t].step < MaxStep =>
               [task[t] EXCEPT !.pc = "drain", !.step = task[t].step + 1] \in Task
         /\ \A b \in BOOLEAN : [task[t] EXCEPT !.pc = "save", !.saved = b] \in Task
         /\ \A r \in Rows, m \in Msgs \cup {NoMsg} :
               [task[t] EXCEPT !.pc = "enter", !.row = r, !.msg = m, !.reply = FALSE] \in Task
  <1>. task[t] \in Task
    OBVIOUS
  <1>1. \A c \in Ctls : [task[t] EXCEPT !.pc = "claim", !.ctl = c] \in Task
    BY Bounds DEF Task, WorkerPoints
  <1>2. \A i \in Runs : [task[t] EXCEPT !.pc = "compacting", !.run = i] \in Task
    BY Bounds DEF Task, WorkerPoints
  <1>3. \A i \in Runs : [task[t] EXCEPT !.pc = "busy", !.run = i] \in Task
    BY Bounds DEF Task, AppendPoints
  <1>4. [task[t] EXCEPT !.pc = "cleanup", !.run = 0] \in Task
    BY Bounds DEF Task, WorkerPoints
  <1>5. [task[t] EXCEPT !.pc = "drain", !.drained = FALSE] \in Task
    BY Bounds DEF Task, RunPoints
  <1>6. ASSUME task[t].step < MaxStep
        PROVE  [task[t] EXCEPT !.pc = "drain", !.step = task[t].step + 1] \in Task
    <2>1. task[t].step + 1 \in 0 .. MaxStep
      BY <1>6, Bounds DEF Task
    <2>. QED
      BY <2>1 DEF Task, RunPoints
  <1>7. \A b \in BOOLEAN : [task[t] EXCEPT !.pc = "save", !.saved = b] \in Task
    BY Bounds DEF Task, AppendPoints
  <1>8. \A r \in Rows, m \in Msgs \cup {NoMsg} :
             [task[t] EXCEPT !.pc = "enter", !.row = r, !.msg = m, !.reply = FALSE] \in Task
    BY Bounds DEF Task, AppendPoints
  <1>. QED
    BY <1>1, <1>2, <1>3, <1>4, <1>5, <1>6, <1>7, <1>8

\* The row the worker looks at makes a task.
LEMMA PeekType ==
  ASSUME TypeOK, NEW w \in Workers, PeekPrompt(w) PROVE task' \in [Tasks -> Task]
  <1>. w \in Tasks
    BY DEF Tasks
  <1>1. CASE Queue = {}
    BY <1>1, GoTask DEF TypeOK, PeekPrompt, WorkerPoints
  <1>2. CASE Queue # {}
    <2>1. PICK r \in Queue :
            Put(w, [Off EXCEPT !.pc = "enter", !.row = r, !.msg = entry[r].msg,
                               !.reply = entry[r].msg \notin NoReply])
      BY <1>2 DEF PeekPrompt, IsHead
    <2>. DEFINE b == entry[r].msg \notin NoReply
                q == [Off EXCEPT !.pc = "enter", !.row = r, !.msg = entry[r].msg, !.reply = b]
    <2>2. b \in BOOLEAN
      OBVIOUS
    <2>3. r \in Rows /\ entry[r].msg \in Msgs \cup {NoMsg}
      BY <2>1 DEF Queue, TypeOK, Entry
    <2>4. Put(w, q)
      BY <2>1
    <2>. HIDE DEF b
    <2>5. q \in Task
      BY <2>2, <2>3, Blanks DEF Task, AppendPoints
    <2>. HIDE DEF q
    <2>. QED
      BY <2>4, <2>5, PutTask DEF TypeOK
  <1>. QED
    BY <1>1, <1>2

\* What the queue worker does keeps the types.
LEMMA WorkerTypes ==
  ASSUME TypeOK, NEW w \in Workers, WorkerStep(w) \/ ClaimCompaction(w) PROVE TypeOK'
  <1>1. ASSUME WaitUntilIdle(w) PROVE TypeOK'
    <2>1. task' \in [Tasks -> Task]
      BY <1>1, GoTask DEF TypeOK, WaitUntilIdle, Tasks, WorkerPoints
    <2>. QED
      BY <1>1, <2>1, Bounds DEF TypeOK, WaitUntilIdle, storeVars, slotVars, lockVars, asideVars, stopVars, countVars, historyVars
  <1>2. ASSUME ReadControl(w) PROVE TypeOK'
    <2>1. task' \in [Tasks -> Task]
      BY <1>2, GoTask, PutTask, TaskChanges DEF TypeOK, ReadControl, Tasks, WorkerPoints, Controls
    <2>. QED
      BY <1>2, <2>1, Bounds DEF TypeOK, ReadControl, storeVars, slotVars, lockVars, asideVars, stopVars, countVars, historyVars
  <1>3. ASSUME ClaimCompaction(w) PROVE TypeOK'
    <2>1. task' \in [Tasks -> Task]
      BY <1>3, PutTask, Blanks, TaskChanges DEF TypeOK, ClaimCompaction, Tasks
    <2>. QED
      BY <1>3, <2>1, Bounds, FateTypes DEF TypeOK, ClaimCompaction, Claimed, CtlFates, lockVars, asideVars, stopVars, countVars, historyVars
  <1>4. ASSUME EndCompaction(w) PROVE TypeOK'
    <2>1. task' \in [Tasks -> Task]
      BY <1>4, PutTask, Blanks, TaskChanges DEF TypeOK, EndCompaction, Tasks
    <2>. QED
      BY <1>4, <2>1, Bounds DEF TypeOK, EndCompaction, Durably, Vacated, lockVars, asideVars, stopVars, countVars, historyVars
  <1>5. ASSUME RemoveControl(w) PROVE TypeOK'
    <2>1. task' \in [Tasks -> Task]
      BY <1>5, PutTask, Blanks DEF TypeOK, RemoveControl, Tasks
    <2>. QED
      BY <1>5, <2>1, Bounds, FateTypes DEF TypeOK, RemoveControl, CtlFates, slotVars, lockVars, asideVars, stopVars, countVars, historyVars
  <1>6. ASSUME PeekPrompt(w) PROVE TypeOK'
    <2>1. task' \in [Tasks -> Task]
      BY <1>6, PeekType DEF TypeOK, PeekPrompt
    <2>. QED
      BY <1>6, <2>1, Bounds DEF TypeOK, PeekPrompt, storeVars, slotVars, lockVars, asideVars, stopVars, countVars, historyVars
  <1>7. ASSUME FinishCycle(w) PROVE TypeOK'
    <2>1. task' \in [Tasks -> Task]
      BY <1>7, PutTask, Blanks DEF TypeOK, FinishCycle, Tasks
    <2>. QED
      BY <1>7, <2>1, Bounds DEF TypeOK, FinishCycle, storeVars, lockVars, asideVars, stopVars, countVars, historyVars
  <1>8. ASSUME Park(w) PROVE TypeOK'
    <2>1. task' \in [Tasks -> Task]
      BY <1>8, PutTask, Blanks DEF TypeOK, Park, Tasks
    <2>. QED
      BY <1>8, <2>1, Bounds DEF TypeOK, Park, storeVars, lockVars, stopVars, countVars, historyVars
  <1>9. ASSUME PromptFailed(w) PROVE TypeOK'
    <2>1. task' \in [Tasks -> Task]
      BY <1>9, GoTask, PutTask, Blanks DEF TypeOK, PromptFailed, Tasks, WorkerPoints
    <2>. QED
      BY <1>9, <2>1, Bounds DEF TypeOK, PromptFailed, storeVars, slotVars, lockVars, asideVars, stopVars, countVars, historyVars
  <1>. QED
    BY <1>1, <1>2, <1>3, <1>4, <1>5, <1>6, <1>7, <1>8, <1>9 DEF WorkerStep

\* The fields of a task; one that executes owns a run.
LEMMA TaskFields ==
  ASSUME TypeOK, TaskShape, NEW t \in Tasks
  PROVE  /\ task[t].row \in {0} \cup Rows /\ task[t].run \in {0} \cup Runs
         /\ task[t].msg \in Msgs \cup {NoMsg} /\ task[t].saved \in BOOLEAN
         /\ task[t].pc \in {"turn", "step", "drain", "steer", "decide", "finish", "closing",
                              "compacting", "busy", "handoff"} => task[t].run \in Runs
  BY DEF TypeOK, TaskShape, Task, RunPoints

\* An append is about a message.
LEMMA AppendMsg ==
  ASSUME AppendFollowsRow, NEW t \in Tasks,
         task[t].pc \in {"enter", "save", "own", "start", "busy", "handoff"}
  PROVE  task[t].msg \in Msgs
  BY DEF AppendFollowsRow, AppendPoints

\* Beginning a turn counts within the bound.
LEMMA BeginType ==
  ASSUME TypeOK, NEW m \in Msgs, Begin(m) PROVE turns' \in [Msgs -> 0 .. 2]
  <1>1. turns[m] \in 0 .. 2
    BY DEF TypeOK
  <1>2. (IF turns[m] < 2 THEN turns[m] + 1 ELSE turns[m]) \in 0 .. 2
    BY <1>1
  <1>. QED
    BY <1>2 DEF TypeOK, Begin

\* Saving a message keeps the transcript and the rows well typed.
LEMMA PersistType ==
  ASSUME TypeOK, NEW t \in Tasks, task[t].msg \in Msgs, Persist(t)
  PROVE  messages' \subseteq Msgs /\ entry' \in [Rows -> Entry]
  BY DEF TypeOK, Persist, Entry

\* Entering the admission leaves a task.
LEMMA EnterType ==
  ASSUME TypeOK, NEW t \in Tasks, EnterAdmission(t) PROVE task' \in [Tasks -> Task]
  <1>. DEFINE r == task[t].row
              b == r # 0 /\ entry[r].saved
              q == [task[t] EXCEPT !.pc = "save", !.saved = b]
  <1>1. b \in BOOLEAN
    OBVIOUS
  <1>2. Put(t, Erred(t)) \/ Put(t, Conflicted(t)) \/ Put(t, q)
    BY DEF EnterAdmission
  <1>. HIDE DEF b
  <1>3. q \in Task
    BY <1>1, TaskChanges DEF TypeOK
  <1>. HIDE DEF q
  <1>. QED
    BY <1>2, <1>3, PutTask, OutcomeTypes DEF TypeOK

\* Draining a row leaves a task.
LEMMA DrainType ==
  ASSUME TypeOK, NEW t \in Tasks, DrainPrompt(t) PROVE task' \in [Tasks -> Task]
  <1>1. CASE Go(t, "decide")
    BY <1>1, GoTask DEF TypeOK, RunPoints
  <1>2. CASE ~Go(t, "decide")
    <2>1. PICK r \in Rows :
            Put(t, [task[t] EXCEPT !.pc = "enter", !.row = r, !.msg = entry[r].msg,
                                   !.reply = FALSE])
      BY <1>2 DEF DrainPrompt
    <2>2. entry[r].msg \in Msgs \cup {NoMsg}
      BY DEF TypeOK, Entry
    <2>. QED
      BY <2>1, <2>2, PutTask, TaskChanges DEF TypeOK
  <1>. QED
    BY <1>1, <1>2

\* What an append does keeps the types.
LEMMA AppendTypes ==
  ASSUME TypeOK, TaskShape, AppendFollowsRow, NEW t \in Tasks,
         EnterAdmission(t) \/ StartRun(t) \/ AppendStep(t) PROVE TypeOK'
  <1>1. ASSUME EnterAdmission(t) PROVE TypeOK'
    <2>1. task' \in [Tasks -> Task]
      BY <1>1, EnterType DEF TypeOK, EnterAdmission
    <2>. QED
      BY <1>1, <2>1, Bounds DEF TypeOK, EnterAdmission, Release, storeVars, slotVars, asideVars, stopVars, countVars, historyVars
  <1>2. ASSUME SavePrompt(t) PROVE TypeOK'
    <2>1. task' \in [Tasks -> Task]
      BY <1>2, GoTask, PutTask, OutcomeTypes DEF TypeOK, SavePrompt, AppendPoints
    <2>2. task[t].msg \in Msgs
      <3>1. task[t].pc = "save"
        BY <1>2 DEF SavePrompt, At
      <3>. QED
        BY <3>1, AppendMsg
    <2>3. messages' \subseteq Msgs /\ entry' \in [Rows -> Entry]
      BY <1>2, <2>2, PersistType DEF TypeOK, SavePrompt
    <2>4. fate' \in [Rows -> RowFates] /\ guard' \in Tasks \cup {NoTask}
      BY <1>2, FateTypes DEF TypeOK, SavePrompt, Acknowledge, Release, RowFates
    <2>. QED
      BY <1>2, <2>1, <2>3, <2>4
      DEF TypeOK, SavePrompt, slotVars, asideVars, stopVars, countVars, historyVars
  <1>3. ASSUME OwnExecution(t) PROVE TypeOK'
    <2>1. task' \in [Tasks -> Task]
      BY <1>3, GoTask, PutTask, OutcomeTypes DEF TypeOK, OwnExecution, AppendPoints
    <2>. QED
      BY <1>3, <2>1, Bounds, FateTypes DEF TypeOK, OwnExecution, Acknowledge, Release, RowFates, slotVars, asideVars, stopVars, countVars, historyVars
  <1>4. ASSUME StartRun(t) PROVE TypeOK'
    <2>1. task' \in [Tasks -> Task]
      BY <1>4, PutTask, OutcomeTypes, TaskChanges DEF TypeOK, StartRun
    <2>2. /\ guard' \in Tasks \cup {NoTask} /\ run' \in {0} \cup Runs
          /\ cancel' \in BOOLEAN /\ recorded' \subseteq Runs
      BY <1>4 DEF TypeOK, StartRun, Release, Claimed
    <2>. QED
      BY <1>4, <2>1, <2>2 DEF TypeOK, StartRun, asideVars, stopVars, countVars, historyVars
  <1>5. ASSUME Handoff(t) PROVE TypeOK'
    <2>1. task[t].run \in Runs /\ task[t].msg \in Msgs
      <3>1. task[t].pc = "handoff"
        BY <1>5 DEF Handoff, At
      <3>. QED
        BY <3>1, TaskFields, AppendMsg
    <2>2. task' \in [Tasks -> Task]
      BY <1>5, <2>1, PutTask, OutcomeTypes, Blanks DEF TypeOK, Handoff
    <2>3. turns' \in [Msgs -> 0 .. 2]
      BY <1>5, <2>1, BeginType DEF TypeOK, Handoff
    <2>4. fate' \in [Rows -> RowFates] /\ guard' \in Tasks \cup {NoTask}
      BY <1>5, FateTypes DEF TypeOK, Handoff, Release, RowFates
    <2>5. recorded' \subseteq Runs /\ reapers' \subseteq Runs
      BY <1>5, <2>1 DEF TypeOK, Handoff
    <2>. QED
      BY <1>5, <2>2, <2>3, <2>4, <2>5 DEF TypeOK, Handoff, slotVars, stopVars, countVars
  <1>6. ASSUME GuardRun(t) PROVE TypeOK'
    <2>1. task[t].run \in Runs /\ task[t].msg \in Msgs
      <3>1. task[t].pc = "busy"
        BY <1>6 DEF GuardRun, At
      <3>. QED
        BY <3>1, TaskFields, AppendMsg
    <2>2. task' \in [Tasks -> Task]
      BY <1>6, <2>1, GoTask, PutTask, Blanks DEF TypeOK, GuardRun, AppendPoints
    <2>3. turns' \in [Msgs -> 0 .. 2]
      BY <1>6, <2>1, BeginType DEF TypeOK, GuardRun
    <2>4. guard' \in Tasks \cup {NoTask}
      BY <1>6 DEF TypeOK, GuardRun, Release
    <2>. QED
      BY <1>6, <2>2, <2>3, <2>4
      DEF TypeOK, GuardRun, storeVars, slotVars, stopVars, countVars
  <1>. QED
    BY <1>1, <1>2, <1>3, <1>4, <1>5, <1>6 DEF AppendStep

\* What a run does keeps the types.
LEMMA RunTypes ==
  ASSUME TypeOK, TaskShape, NEW t \in Tasks, BeginTurn(t) \/ DrainBoundary(t) \/ TurnStep(t) PROVE TypeOK'
  <1>1. ASSUME BeginTurn(t) PROVE TypeOK'
    <2>1. task' \in [Tasks -> Task]
      BY <1>1, GoTask DEF TypeOK, BeginTurn, RunPoints
    <2>. QED
      BY <1>1, <2>1, Bounds, FateTypes DEF TypeOK, BeginTurn, ClaimInRun, CtlFates, slotVars, lockVars, asideVars, stopVars, countVars, historyVars
  <1>2. ASSUME FirstStep(t) PROVE TypeOK'
    <2>1. task' \in [Tasks -> Task]
      BY <1>2, GoTask, PutTask, TaskChanges DEF TypeOK, FirstStep, RunPoints, ProviderStep
    <2>. QED
      BY <1>2, <2>1, Bounds DEF TypeOK, FirstStep, ProviderStep, Retained, Queue, storeVars, slotVars, lockVars, stopVars, countVars
  <1>3. ASSUME DrainBoundary(t) PROVE TypeOK'
    <2>1. task' \in [Tasks -> Task]
      BY <1>3, GoTask DEF TypeOK, DrainBoundary, RunPoints
    <2>. QED
      BY <1>3, <2>1, Bounds, FateTypes DEF TypeOK, DrainBoundary, ClaimInRun, CtlFates, slotVars, lockVars, asideVars, stopVars, countVars, historyVars
  <1>4. ASSUME DrainPrompt(t) PROVE TypeOK'
    <2>1. task' \in [Tasks -> Task]
      BY <1>4, DrainType DEF TypeOK, DrainPrompt
    <2>. QED
      BY <1>4, <2>1, Bounds DEF TypeOK, DrainPrompt, storeVars, slotVars, lockVars, asideVars, stopVars, countVars, historyVars
  <1>5. ASSUME FollowUp(t) PROVE TypeOK'
    <2>1. task' \in [Tasks -> Task]
      BY <1>5, PutTask, TaskChanges DEF TypeOK, FollowUp
    <2>. QED
      BY <1>5, <2>1, Bounds DEF TypeOK, FollowUp, Retained, Queue, storeVars, slotVars, lockVars, stopVars, countVars
  <1>6. ASSUME EndTurn(t) PROVE TypeOK'
    <2>1. task' \in [Tasks -> Task]
      BY <1>6, GoTask DEF TypeOK, EndTurn, RunPoints
    <2>. QED
      BY <1>6, <2>1, Bounds DEF TypeOK, EndTurn, storeVars, slotVars, lockVars, asideVars, stopVars, countVars, historyVars
  <1>7. ASSUME FinishRun(t) PROVE TypeOK'
    <2>1. task' \in [Tasks -> Task]
      BY <1>7, GoTask DEF TypeOK, FinishRun, RunPoints
    <2>. QED
      BY <1>7, <2>1, Bounds DEF TypeOK, FinishRun, Durably, Vacated, lockVars, asideVars, stopVars, countVars, historyVars
  <1>8. ASSUME CloseRun(t) PROVE TypeOK'
    <2>1. task' \in [Tasks -> Task]
      BY <1>8, PutTask, Blanks DEF TypeOK, CloseRun
    <2>. QED
      BY <1>8, <2>1, Bounds DEF TypeOK, CloseRun, storeVars, slotVars, lockVars, asideVars, stopVars, countVars, historyVars
  <1>. QED
    BY <1>1, <1>2, <1>3, <1>4, <1>5, <1>6, <1>7, <1>8 DEF TurnStep

\* Failures, restarts and drop guards keep the types.
LEMMA FailureTypes ==
  ASSUME TypeOK, TaskShape, AppendFollowsRow, Failure \/ \E i \in Runs : Abandon(i) PROVE TypeOK'
  <1>1. ASSUME NEW w \in Workers, ClaimFails(w) PROVE TypeOK'
    <2>1. task' \in [Tasks -> Task]
      BY <1>1, GoTask DEF TypeOK, ClaimFails, Tasks, WorkerPoints
    <2>2. run' \in Runs /\ cancel' = FALSE /\ reapers' \subseteq Runs
      BY <1>1 DEF TypeOK, ClaimFails, Claimed
    <2>3. faults' \in 0 .. MaxFault
      BY <1>1, Bounds DEF TypeOK, ClaimFails, Fault
    <2>. QED
      BY <1>1, <2>1, <2>2, <2>3 DEF TypeOK, ClaimFails, storeVars, stopVars, historyVars
  <1>2. ASSUME NEW w \in Workers, QueueStoreFails(w) PROVE TypeOK'
    <2>1. task' \in [Tasks -> Task]
      BY <1>2, GoTask DEF TypeOK, QueueStoreFails, Tasks, WorkerPoints
    <2>. QED
      BY <1>2, <2>1, Bounds DEF TypeOK, QueueStoreFails, Fault, storeVars, slotVars, lockVars, stopVars, historyVars
  <1>3. ASSUME NEW t \in Tasks, SaveUnacknowledged(t) PROVE TypeOK'
    <2>1. task' \in [Tasks -> Task]
      BY <1>3, PutTask, OutcomeTypes DEF TypeOK, SaveUnacknowledged
    <2>2. faults' \in 0 .. MaxFault
      BY <1>3, Bounds DEF TypeOK, SaveUnacknowledged, Fault
    <2>3. messages' \subseteq Msgs
      <3>1. task[t].pc = "save"
        BY <1>3 DEF SaveUnacknowledged, At
      <3>. QED
        BY <1>3, <3>1, AppendMsg DEF TypeOK, SaveUnacknowledged
    <2>. QED
      BY <1>3, <2>1, <2>2, <2>3 DEF TypeOK, SaveUnacknowledged, Release, slotVars, stopVars, historyVars
  <1>4. ASSUME NEW t \in Tasks, AppendFails(t) PROVE TypeOK'
    <2>1. task' \in [Tasks -> Task]
      BY <1>4, PutTask, OutcomeTypes DEF TypeOK, AppendFails
    <2>. QED
      BY <1>4, <2>1, Bounds, FateTypes DEF TypeOK, AppendFails, Fault, Release, Acknowledge, RowFates, slotVars, stopVars, historyVars
  <1>5. ASSUME NEW t \in Tasks, HandoffFails(t) PROVE TypeOK'
    <2>1. task' \in [Tasks -> Task]
      BY <1>5, PutTask, OutcomeTypes DEF TypeOK, HandoffFails
    <2>2. faults' \in 0 .. MaxFault
      BY <1>5, Bounds DEF TypeOK, HandoffFails, Fault
    <2>3. task[t].pc = "handoff"
      BY <1>5 DEF HandoffFails, At
    <2>4. task[t].run \in Runs
      BY <2>3, TaskFields
    <2>5. fate' \in [Rows -> RowFates] /\ recorded' \subseteq Runs /\ reapers' \subseteq Runs
      BY <1>5, <2>4, FateTypes DEF TypeOK, HandoffFails, RowFates
    <2>. QED
      BY <1>5, <2>1, <2>2, <2>5 DEF TypeOK, HandoffFails, Release, slotVars, stopVars, historyVars
  <1>6. ASSUME NEW t \in Tasks, TurnFails(t) PROVE TypeOK'
    <2>1. task' \in [Tasks -> Task]
      BY <1>6, PutTask, OutcomeTypes DEF TypeOK, TurnFails
    <2>2. faults' \in 0 .. MaxFault
      BY <1>6, Bounds DEF TypeOK, TurnFails, Fault
    <2>3. task[t].pc \in {"step", "decide"}
      BY <1>6 DEF TurnFails, At
    <2>4. task[t].run \in Runs
      BY <2>3, TaskFields
    <2>. QED
      BY <1>6, <2>1, <2>2, <2>4 DEF TypeOK, TurnFails, storeVars, slotVars, stopVars, historyVars
  <1>7. ASSUME Restart PROVE TypeOK'
    <2>1. worker' \in BOOLEAN
      BY <1>7 DEF Restart
    <2>2. task' \in [Tasks -> Task]
      BY <1>7, Blanks DEF Restart
    <2>3. faults' \in 0 .. MaxFault
      BY <1>7, Bounds DEF TypeOK, Restart, Fault
    <2>. QED
      BY <1>7, <2>1, <2>2, <2>3 DEF TypeOK, Restart, historyVars
  <1>8. ASSUME NEW i \in Runs, Abandon(i) PROVE TypeOK'
    <2>1. task' \in [Tasks -> Task]
      BY <1>8 DEF TypeOK, Abandon
    <2>. QED
      BY <1>8, <2>1, Bounds DEF TypeOK, Abandon, Durably, Vacated, asideVars, stopVars, countVars, historyVars
  <1>. QED
    BY <1>1, <1>2, <1>3, <1>4, <1>5, <1>6, <1>7, <1>8 DEF Failure

\* The initial state has its types.
LEMMA TypeInit == Init => TypeOK
  <1>. SUFFICES ASSUME Init PROVE TypeOK
    OBVIOUS
  <1>1. /\ fate \in [Rows -> RowFates] /\ entry \in [Rows -> Entry]
        /\ ctl \in [Ctls -> CtlFates] /\ task \in [Tasks -> Task]
        /\ turns \in [Msgs -> 0 .. 2]
        /\ calls \in 0 .. MaxCall /\ faults \in 0 .. MaxFault
    BY Blanks, Bounds DEF Init, RowFates, CtlFates
  <1>. QED
    BY <1>1, Bounds DEF Init, TypeOK

\* Every step keeps the types.
LEMMA TypeNext == TypeOK /\ TaskShape /\ AppendFollowsRow /\ [Next]_vars => TypeOK'
  <1>. SUFFICES ASSUME TypeOK, TaskShape, AppendFollowsRow, [Next]_vars PROVE TypeOK'
    OBVIOUS
  <1>1. CASE Client
    BY <1>1, ClientTypes
  <1>2. ASSUME NEW w \in Workers, WorkerStep(w) \/ ClaimCompaction(w) PROVE TypeOK'
    BY <1>2, WorkerTypes
  <1>3. ASSUME NEW t \in Tasks, TaskStep(t) PROVE TypeOK'
    BY <1>3, AppendTypes, RunTypes DEF TaskStep, LockStep
  <1>4. CASE Failure \/ \E i \in Runs : Abandon(i)
    BY <1>4, FailureTypes
  <1>5. CASE UNCHANGED vars
    BY <1>5 DEF TypeOK, vars, storeVars, slotVars, lockVars, asideVars, stopVars, countVars,
       historyVars
  <1>. QED
    BY <1>1, <1>2, <1>3, <1>4, <1>5 DEF Next

=============================================================================
