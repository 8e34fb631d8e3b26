---------------------- MODULE SubtaskCompletion_proofs ----------------------
(***************************************************************************)
(* What TLAPS proves about SubtaskCompletion, for any number of prompts,   *)
(* completions and failures: the state is well-typed, a notification that  *)
(* was answered is not run again, the outbox gives a completion up only    *)
(* for a reply, or for a run the user cancelled, and until something fails *)
(* nothing is stranded that somebody is not still to look after.           *)
(***************************************************************************)
EXTENDS SubtaskCompletion, SequenceTheorems, TLAPS

Made(o) == \A i \in Recs : o[i] # Unmade => i <= made
Distinct(s) == \A i, j \in 1 .. Len(s) : s[i] = s[j] => i = j

\* The child's row, and the copy of it that a prompt holds.
ChildOK ==
    /\ owed \in Gens \cup {NoGen} /\ outbox \in Outbox /\ made \in 0 .. MaxRec
    /\ loaded \in [owed : Gens \cup {NoGen}, outbox : Outbox]
    /\ Made(outbox) /\ Made(loaded.outbox)

\* The parent's store.
StoreOK ==
    /\ queue \in Seq(1 .. made) /\ Distinct(queue)
    /\ \A i \in saved : Queued(i)
    /\ saved \subseteq turns /\ replied \subseteq turns /\ turns \subseteq 1 .. made

ProcessOK ==
    /\ at \in [Publishers -> PromptPoints \cup PublishPoints]
    /\ pub \in [Publishers -> Gens \cup {NoGen}]
    /\ steered \subseteq Gens /\ deferred \subseteq Publishers
    /\ \A g, h \in Gens : at[g] = "run" /\ at[h] = "run" => g = h

\* The worker, and what the turn it has in hand says of the store.
Busy == {"save", "own", "run", "ack", "failed"}
WorkerOK ==
    /\ prun \in {"none", "worker", "user"} /\ wake \in BOOLEAN
    /\ worker \in [at : Busy \cup {"off", "wait"}, id : 0 .. made, failed : BOOLEAN]
    /\ worker.at \in Busy => worker.id \in 1 .. made
    /\ worker.at = "own" => prun = "none" /\ worker.id \in saved
    /\ prun = "worker" =>
          worker.at = "run" /\ worker.id \in turns \ (saved \cup answered)

LockOK ==
    /\ want \subseteq Reconcilers
    /\ rec \in [who : Reconcilers \cup {NoOne}, at : {"free", "read", "each"},
                pending : SUBSET Recs, active : BOOLEAN,
                turns : SUBSET Recs, replied : SUBSET Recs]
    /\ rec.pending \subseteq 1 .. made /\ rec.replied \subseteq replied

\* Nothing whose row is marked saved was answered: the row would be run again.
HistoryOK ==
    /\ answered \subseteq replied /\ cancelled \subseteq turns
    /\ saved \cap answered = {}
    /\ failed \in BOOLEAN /\ skipped \in BOOLEAN /\ events \in 0 .. MaxEvent

\* What the outbox, and a copy of it that may be written back, have given up.
Delivered(o) ==
    \A i \in Recs : o[i].gen # NoGen /\ ~o[i].pending => i \in replied \cup cancelled

AcknowledgedOK ==
    /\ Delivered(outbox) /\ Delivered(loaded.outbox)
    /\ \A i \in Recs : loaded.outbox[i].gen # NoGen => outbox[i].gen # NoGen
    /\ worker.at = "ack" =>
          worker.id \in replied \cup cancelled \/ outbox[worker.id].gen = NoGen

Inv == /\ ChildOK /\ StoreOK /\ ProcessOK /\ WorkerOK
       /\ LockOK /\ HistoryOK /\ AcknowledgedOK

-----------------------------------------------------------------------------
(* What each group of variables is changed by.                             *)

ChildVars == <<owed, outbox, made, loaded>>
LEMMA ChildFrame ==
    ASSUME Next
    PROVE  \/ UNCHANGED ChildVars
           \/ \E g \in Gens : \/ MarkOwed(g) \/ EnterPrompt(g)
                              \/ WriteBack(g) \/ PromptFails(g)
           \/ \E p \in Publishers : mark_subtask_completion_pending(p)
           \/ \E i \in Recs : Settle(i)
           \/ AcknowledgeTurn \/ Restart
<1> USE DEF ChildVars, childVars, promptVars
<1>1. CASE Child
  BY <1>1 DEF Child, Enqueue, EndPrompt, ReleaseWorker, AbortChild
<1>2. CASE Publication
  BY <1>2 DEF Publication, ReadOwed, SeeIdle, SeeIdleAgain, MarkFails
<1>3. CASE Reconciliation
  BY <1>3 DEF Reconciliation, Reconcile, SeeTranscript, ReconcileFails
<1>4. CASE Parent
  BY <1>4 DEF Parent, WorkerPeeks, SaveTurn, AdmissionFails, Handoff, Reply, DrainRow,
     EndTurn, TurnFails, AcknowledgementFails, FailedTurn, UserPrompts, UserTurnEnds,
     UserTurnFails
<1>5. QED
  BY <1>1, <1>2, <1>3, <1>4 DEF Next

StoreVars == <<queue, saved, turns, replied>>
LEMMA StoreFrame ==
    ASSUME Next
    PROVE  \/ UNCHANGED StoreVars
           \/ \E i \in Recs : Settle(i)
           \/ SaveTurn \/ Handoff \/ Reply \/ DrainRow
<1> USE DEF StoreVars, parentVars
<1>1. CASE Child
  BY <1>1 DEF Child, MarkOwed, Enqueue, EnterPrompt, WriteBack, PromptFails, EndPrompt,
     ReleaseWorker, AbortChild
<1>2. CASE Publication
  BY <1>2 DEF Publication, ReadOwed, SeeIdle, SeeIdleAgain, MarkFails,
     mark_subtask_completion_pending
<1>3. CASE Reconciliation
  BY <1>3 DEF Reconciliation, Reconcile, SeeTranscript, ReconcileFails
<1>4. CASE Parent
  BY <1>4 DEF Parent, WorkerPeeks, AdmissionFails, EndTurn, TurnFails, AcknowledgeTurn,
     AcknowledgementFails, FailedTurn, UserPrompts, UserTurnEnds, UserTurnFails
<1>5. CASE Restart
  BY <1>5 DEF Restart
<1>6. QED
  BY <1>1, <1>2, <1>3, <1>4, <1>5 DEF Next

WorkerVars == <<prun, worker, wake>>
LEMMA WorkerFrame ==
    ASSUME Next
    PROVE  \/ UNCHANGED WorkerVars
           \/ \E i \in Recs : Settle(i)
           \/ Restart
           \/ WorkerPeeks \/ SaveTurn \/ AdmissionFails \/ Handoff
           \/ EndTurn \/ TurnFails
           \/ AcknowledgeTurn \/ AcknowledgementFails \/ FailedTurn
           \/ UserPrompts \/ UserTurnEnds \/ UserTurnFails
<1> USE DEF WorkerVars, slotVars
<1>1. CASE Child
  BY <1>1 DEF Child, MarkOwed, Enqueue, EnterPrompt, WriteBack, PromptFails, EndPrompt,
     ReleaseWorker, AbortChild
<1>2. CASE Publication
  BY <1>2 DEF Publication, ReadOwed, SeeIdle, SeeIdleAgain, MarkFails,
     mark_subtask_completion_pending
<1>3. CASE Reconciliation
  BY <1>3 DEF Reconciliation, Reconcile, SeeTranscript, ReconcileFails
<1>4. CASE Parent
  BY <1>4 DEF Parent, Reply, DrainRow
<1>5. QED
  BY <1>1, <1>2, <1>3, <1>4 DEF Next

LEMMA HistoryFrame ==
    ASSUME Next
    PROVE  UNCHANGED <<answered, cancelled>> \/ EndTurn
<1> USE DEF historyVars
<1>1. CASE Child
  BY <1>1 DEF Child, MarkOwed, Enqueue, EnterPrompt, WriteBack, PromptFails, EndPrompt,
     ReleaseWorker, AbortChild
<1>2. CASE Publication
  BY <1>2 DEF Publication, ReadOwed, SeeIdle, SeeIdleAgain, MarkFails,
     mark_subtask_completion_pending
<1>3. CASE Reconciliation
  BY <1>3 DEF Reconciliation, Reconcile, SeeTranscript, ReconcileFails, Settle
<1>4. CASE Parent
  BY <1>4 DEF Parent, WorkerPeeks, SaveTurn, AdmissionFails, Handoff, Reply, DrainRow,
     TurnFails, AcknowledgeTurn, AcknowledgementFails, FailedTurn, UserPrompts,
     UserTurnEnds, UserTurnFails
<1>5. CASE Restart
  BY <1>5 DEF Restart
<1>6. QED
  BY <1>1, <1>2, <1>3, <1>4, <1>5 DEF Next

-----------------------------------------------------------------------------
(* The child's row.                                                        *)

LEMMA InitInv == Init => Inv
<1> SUFFICES ASSUME Init PROVE Inv
  OBVIOUS
<1> USE NameAssumption, BoundAssumption DEF Init, Asleep, Unlocked, NoRow, Unmade
<1>1. ChildOK
  BY DEF ChildOK, Outbox, Made
<1>2. StoreOK
  BY DEF StoreOK, Distinct
<1>3. ProcessOK
  BY DEF ProcessOK, Publishers, PromptPoints, PublishPoints
<1>4. WorkerOK
  <2>1. Asleep \in [at : Busy \cup {"off", "wait"}, id : 0 .. 0, failed : BOOLEAN]
    BY DEF Busy
  <2>2. wake \in BOOLEAN
    BY Zenon
  <2>3. worker = Asleep /\ prun = "none" /\ made = 0
    OBVIOUS
  <2>4. QED
    BY <2>1, <2>2, <2>3 DEF WorkerOK, Busy
<1>5. LockOK
  BY DEF LockOK
<1>6. HistoryOK
  <2>1. failed \in BOOLEAN /\ skipped \in BOOLEAN
    BY Zenon
  <2>2. events \in 0 .. MaxEvent
    OBVIOUS
  <2>3. QED
    BY <2>1, <2>2 DEF HistoryOK
<1>7. AcknowledgedOK
  BY DEF AcknowledgedOK, Delivered
<1>8. QED
  BY <1>1, <1>2, <1>3, <1>4, <1>5, <1>6, <1>7 DEF Inv

\* Only a worker's end, and a reconciliation that reads the outbox, change it.
LEMMA SkippedFrame ==
    ASSUME Next
    PROVE  \/ UNCHANGED skipped
           \/ skipped' = (skipped \/ worker.failed) /\ WorkerPeeks
           \/ skipped' = (skipped \/ ~wake) /\ AdmissionFails
           \/ skipped' = (skipped /\ worker.at # "off") /\ \E x \in Reconcilers : Reconcile(x)
           \/ skipped' = FALSE /\ Restart
<1> USE DEF historyVars
<1>1. CASE Child
  BY <1>1 DEF Child, MarkOwed, Enqueue, EnterPrompt, WriteBack, PromptFails, EndPrompt,
     ReleaseWorker, AbortChild
<1>2. CASE Publication
  BY <1>2 DEF Publication, ReadOwed, SeeIdle, SeeIdleAgain, MarkFails,
     mark_subtask_completion_pending
<1>3. CASE Reconciliation
  BY <1>3 DEF Reconciliation, Reconcile, SeeTranscript, ReconcileFails, Settle
<1>4. CASE Parent
  BY <1>4 DEF Parent, WorkerPeeks, SaveTurn, AdmissionFails, Handoff, Reply, DrainRow,
     EndTurn, TurnFails, AcknowledgeTurn, AcknowledgementFails, FailedTurn, UserPrompts,
     UserTurnEnds, UserTurnFails
<1>5. CASE Restart
  BY <1>5 DEF Restart
<1>6. QED
  BY <1>1, <1>2, <1>3, <1>4, <1>5 DEF Next

\* A prompt's step reads the child's row or writes back the one it read.
LEMMA PromptKeepsChild ==
    ASSUME ChildOK, NEW g \in Gens,
           MarkOwed(g) \/ EnterPrompt(g) \/ WriteBack(g) \/ PromptFails(g)
    PROVE  ChildOK'
<1> USE DEF ChildOK, Made
<1>1. NoRow \in [owed : Gens \cup {NoGen}, outbox : Outbox] /\ Made(NoRow.outbox)
  BY DEF NoRow, Outbox, Unmade
<1>2. CASE MarkOwed(g)
  BY <1>2 DEF MarkOwed
<1>3. CASE EnterPrompt(g)
  BY <1>3 DEF EnterPrompt, childVars
<1>4. CASE WriteBack(g)
  BY <1>1, <1>4 DEF WriteBack
<1>5. CASE PromptFails(g)
  BY <1>1, <1>5 DEF PromptFails, childVars
<1>6. QED
  BY <1>2, <1>3, <1>4, <1>5

Record == [gen : Gens \cup {NoGen}, pending : BOOLEAN]

LEMMA ClearedRecord ==
    ASSUME NEW c \in Record
    PROVE  /\ [c EXCEPT !.pending = FALSE] \in Record
           /\ [c EXCEPT !.pending = FALSE].gen = c.gen
           /\ c = Unmade => [c EXCEPT !.pending = FALSE] = Unmade
<1>1. [c EXCEPT !.pending = FALSE] \in Record
  BY DEF Record
<1>2. [c EXCEPT !.pending = FALSE].gen = c.gen
  BY DEF Record
<1>3. ASSUME c = Unmade PROVE [c EXCEPT !.pending = FALSE] = Unmade
  BY <1>3 DEF Record, Unmade
<1>4. QED
  BY <1>1, <1>2, <1>3

LEMMA AcknowledgedTyped ==
    ASSUME ChildOK, NEW i \in Recs
    PROVE  /\ Acknowledged(i) \in Outbox /\ Made(Acknowledged(i))
           /\ \A j \in Recs : /\ Acknowledged(i)[j].gen = outbox[j].gen
                              /\ j # i => Acknowledged(i)[j] = outbox[j]
<1> DEFINE r == [outbox[i] EXCEPT !.pending = FALSE]
<1>1. outbox[i] \in Record /\ outbox \in [Recs -> Record]
  BY DEF ChildOK, Outbox, Record
<1>2. Acknowledged(i) = [outbox EXCEPT ![i] = r]
  BY DEF Acknowledged
<1>3. /\ r \in Record /\ r.gen = outbox[i].gen
      /\ outbox[i] = Unmade => r = Unmade
  BY <1>1, ClearedRecord
<1> HIDE DEF r
<1>4. /\ Acknowledged(i) \in Outbox /\ Acknowledged(i)[i] = r
      /\ \A j \in Recs : j # i => Acknowledged(i)[j] = outbox[j]
  BY <1>1, <1>2, <1>3 DEF Outbox, Record
<1>5. \A j \in Recs : Acknowledged(i)[j] # Unmade => outbox[j] # Unmade
  BY <1>3, <1>4
<1>6. QED
  BY <1>3, <1>4, <1>5 DEF ChildOK, Made

LEMMA MarkKeepsChild ==
    ASSUME ChildOK, ProcessOK, NEW p \in Publishers, mark_subtask_completion_pending(p)
    PROVE  ChildOK' /\ made <= made'
<1>1. pub[p] \in Gens \cup {NoGen}
  BY DEF ProcessOK
<1>2. CASE made' = made /\ outbox' = outbox
  BY <1>2 DEF mark_subtask_completion_pending, ChildOK, Made, childVars
<1>3. CASE /\ made < MaxRec /\ made' = made + 1 /\ owed' = NoGen
           /\ outbox' = [outbox EXCEPT ![made + 1] = [gen |-> pub[p], pending |-> TRUE]]
  <2>1. made + 1 \in Recs /\ made' \in 0 .. MaxRec /\ made \in Nat
    BY <1>3, BoundAssumption DEF ChildOK, Recs
  <2>2. outbox' \in Outbox
    BY <1>1, <1>3, <2>1 DEF ChildOK, Outbox
  <2>3. UNCHANGED loaded
    BY DEF mark_subtask_completion_pending
  <2>4. \A i \in Recs : i <= made => i <= made'
    BY <1>3, <2>1 DEF Recs
  <2>5. Made(outbox)'
    BY <1>3, <2>1, <2>4 DEF ChildOK, Made, Outbox
  <2>6. Made(loaded.outbox)'
    BY <2>3, <2>4 DEF ChildOK, Made
  <2>7. QED
    BY <1>3, <2>1, <2>2, <2>3, <2>5, <2>6 DEF ChildOK
<1>4. QED
  BY <1>2, <1>3 DEF mark_subtask_completion_pending, childVars

LEMMA ChildKept ==
    ASSUME Inv, Next
    PROVE  ChildOK' /\ made \in Nat /\ made <= made'
<1>1. made \in Nat
  BY DEF Inv, ChildOK
<1>2. CASE UNCHANGED ChildVars
  BY <1>1, <1>2 DEF ChildVars, Inv, ChildOK, Made
<1>3. CASE \E g \in Gens : MarkOwed(g) \/ EnterPrompt(g) \/ WriteBack(g) \/ PromptFails(g)
  BY <1>1, <1>3, PromptKeepsChild
     DEF Inv, MarkOwed, EnterPrompt, WriteBack, PromptFails, childVars
<1>4. CASE \E p \in Publishers : mark_subtask_completion_pending(p)
  BY <1>1, <1>4, MarkKeepsChild DEF Inv
<1>5. CASE \E i \in Recs : Settle(i)
  BY <1>1, <1>5, AcknowledgedTyped DEF Inv, Settle, ChildOK, Made
<1>6. CASE AcknowledgeTurn
  <2>1. worker.id \in Recs
    BY <1>6, BoundAssumption DEF Inv, ChildOK, WorkerOK, Busy, AcknowledgeTurn, Recs
  <2>2. QED
    BY <1>1, <1>6, <2>1, AcknowledgedTyped DEF Inv, AcknowledgeTurn, ChildOK, Made, promptVars
<1>7. CASE Restart
  <2>1. NoRow \in [owed : Gens \cup {NoGen}, outbox : Outbox] /\ Made(NoRow.outbox)
    BY DEF NoRow, Outbox, Unmade, Made
  <2>2. QED
    BY <1>1, <1>7, <2>1 DEF Inv, ChildOK, Made, Restart, childVars
<1>8. QED
  BY <1>2, <1>3, <1>4, <1>5, <1>6, <1>7, ChildFrame

-----------------------------------------------------------------------------
(* The parent's store.                                                     *)

\* Deleting a row deletes that row, and nothing else.
LEMMA RetireDeletes ==
    ASSUME NEW S, queue \in Seq(S), Distinct(queue), NEW i, Queued(i), Retire(i)
    PROVE  /\ queue' \in Seq(S) /\ Distinct(queue')
           /\ \A j : j # i /\ Queued(j) => Queued(j)'
           /\ saved' = saved \ {i}
<1> DEFINE k == CHOOSE k_1 \in 1 .. Len(queue) : queue[k_1] = i
           before == SubSeq(queue, 1, k - 1)
           after == SubSeq(queue, k + 1, Len(queue))
<1>1. k \in 1 .. Len(queue) /\ queue[k] = i
  BY DEF Queued
<1>2. queue' = before \o after /\ saved' = saved \ {i}
  BY DEF Retire
<1>3. Len(queue) \in Nat
  OBVIOUS
<1> HIDE DEF k
<1>4. /\ before \in Seq(S) /\ Len(before) = k - 1
      /\ \A j \in 1 .. k - 1 : before[j] = queue[j]
  BY <1>1, <1>3
<1>5. /\ after \in Seq(S) /\ Len(after) = Len(queue) - k
      /\ \A j \in 1 .. Len(queue) - k : after[j] = queue[j + k]
  BY <1>1, <1>3
<1> HIDE DEF before, after
<1>6. queue' \in Seq(S) /\ Len(queue') = Len(queue) - 1
  <2>1. before \o after \in Seq(S) /\ Len(before \o after) = Len(before) + Len(after)
    BY <1>4, <1>5, ConcatProperties
  <2>2. Len(before) + Len(after) = Len(queue) - 1
    BY <1>1, <1>3, <1>4, <1>5
  <2>3. QED
    BY <1>2, <2>1, <2>2
<1>7. \A j \in 1 .. Len(queue) - 1 : queue'[j] = IF j < k THEN queue[j] ELSE queue[j + 1]
  <2>1. \A j \in 1 .. Len(queue) - 1 :
          queue'[j] = IF j <= k - 1 THEN before[j] ELSE after[j - (k - 1)]
    <3>1. \A j \in 1 .. Len(before) + Len(after) :
            (before \o after)[j] =
              IF j <= Len(before) THEN before[j] ELSE after[j - Len(before)]
      BY <1>4, <1>5, ConcatProperties
    <3>2. Len(before) + Len(after) = Len(queue) - 1 /\ Len(before) = k - 1
      BY <1>1, <1>3, <1>4, <1>5
    <3>3. QED
      BY <1>2, <3>1, <3>2
  <2>2. ASSUME NEW j \in 1 .. Len(queue) - 1, j >= k
        PROVE  after[j - (k - 1)] = queue[j + 1]
    <3>1. j - (k - 1) \in 1 .. Len(queue) - k /\ j - (k - 1) + k = j + 1
      BY <1>1, <1>3, <2>2
    <3>2. QED
      BY <1>5, <3>1
  <2>3. QED
    BY <1>1, <1>3, <1>4, <2>1, <2>2
<1>8. Distinct(queue')
  BY <1>1, <1>3, <1>6, <1>7 DEF Distinct
<1>9. ASSUME NEW j, j # i, Queued(j) PROVE Queued(j)'
  <2>1. PICK m \in 1 .. Len(queue) : queue[m] = j
    BY <1>9 DEF Queued
  <2>2. CASE m < k
    <3>1. m \in 1 .. Len(queue) - 1 /\ queue'[m] = j
      BY <1>1, <1>3, <1>7, <2>1, <2>2
    <3>2. QED
      BY <1>6, <3>1 DEF Queued
  <2>3. CASE m > k
    <3>1. m - 1 \in 1 .. Len(queue) - 1 /\ queue'[m - 1] = j
      BY <1>1, <1>3, <1>7, <2>1, <2>3
    <3>2. QED
      BY <1>6, <3>1 DEF Queued
  <2>4. m # k
    BY <1>1, <1>9, <2>1
  <2>5. QED
    BY <1>1, <2>1, <2>2, <2>3, <2>4
<1>10. QED
  BY <1>2, <1>6, <1>8, <1>9

\* Admitting a notification queues it once.
LEMMA AdmitAppends ==
    ASSUME NEW S, queue \in Seq(S), Distinct(queue), NEW i \in S, Admit(i)
    PROVE  /\ queue' \in Seq(S) /\ Distinct(queue')
           /\ \A j : Queued(j) => Queued(j)'
<1>1. CASE Queued(i)
  BY <1>1 DEF Admit, Queued, Distinct
<1>2. CASE ~Queued(i)
  <2>1. queue' = Append(queue, i)
    BY <1>2 DEF Admit
  <2>2. /\ Len(queue) \in Nat /\ queue' \in Seq(S) /\ Len(queue') = Len(queue) + 1
        /\ queue'[Len(queue) + 1] = i
        /\ \A j \in 1 .. Len(queue) : queue'[j] = queue[j]
    BY <2>1
  <2>3. \A j \in 1 .. Len(queue) : queue[j] # i
    BY <1>2 DEF Queued
  <2>4. QED
    BY <2>2, <2>3 DEF Distinct, Queued
<1>3. QED
  BY <1>1, <1>2

\* A run takes the first of the queue in.
LEMMA TailTakes ==
    ASSUME NEW S, queue \in Seq(S), Distinct(queue), queue # <<>>, queue' = Tail(queue)
    PROVE  /\ Head(queue) \in S /\ queue' \in Seq(S) /\ Distinct(queue')
           /\ \A j : j # Head(queue) /\ Queued(j) => Queued(j)'
<1>1. /\ Len(queue) \in Nat /\ Len(queue) > 0 /\ Head(queue) = queue[1] /\ Head(queue) \in S
      /\ queue' \in Seq(S) /\ Len(queue') = Len(queue) - 1
      /\ \A j \in 1 .. Len(queue') : queue'[j] = queue[j + 1]
  BY HeadTailProperties
<1>2. Distinct(queue')
  BY <1>1 DEF Distinct
<1>3. ASSUME NEW j, j # Head(queue), Queued(j) PROVE Queued(j)'
  <2>1. PICK m \in 1 .. Len(queue) : queue[m] = j
    BY <1>3 DEF Queued
  <2>2. m - 1 \in 1 .. Len(queue') /\ queue'[m - 1] = j
    BY <1>1, <1>3, <2>1
  <2>3. QED
    BY <2>2 DEF Queued
<1>4. QED
  BY <1>1, <1>2, <1>3

LEMMA StoreKept ==
    ASSUME Inv, Next, made <= made', made \in Nat, made' \in Nat
    PROVE  StoreOK' /\ replied \subseteq replied'
<1>1. /\ queue \in Seq(1 .. made) /\ Distinct(queue)
      /\ \A i \in saved : Queued(i)
      /\ saved \subseteq turns /\ replied \subseteq turns /\ turns \subseteq 1 .. made
  BY DEF Inv, StoreOK
<1>2. 1 .. made \subseteq 1 .. made'
  OBVIOUS
<1>3. ASSUME NEW s \in Seq(1 .. made) PROVE s \in Seq(1 .. made')
  BY <1>2, <1>3
<1>4. CASE UNCHANGED StoreVars
  BY <1>1, <1>2, <1>3, <1>4 DEF StoreVars, StoreOK, Distinct, Queued
<1>5. ASSUME NEW i \in Recs, Settle(i) PROVE StoreOK' /\ replied \subseteq replied'
  <2>1. UNCHANGED <<saved, turns, replied, made>>
    BY <1>5 DEF Settle
  <2>2. CASE queue' = queue
    BY <1>1, <2>1, <2>2 DEF StoreOK, Distinct, Queued
  <2>3. CASE Admit(i)
    <3>1. i \in 1 .. made
      BY <1>5 DEF Inv, LockOK, Settle
    <3>2. queue' \in Seq(1 .. made) /\ Distinct(queue') /\ \A j : Queued(j) => Queued(j)'
      BY <1>1, <2>3, <3>1, AdmitAppends
    <3>3. QED
      BY <1>1, <2>1, <3>2 DEF StoreOK, Distinct
  <2>4. QED
    BY <1>5, <2>2, <2>3 DEF Settle
<1>6. CASE SaveTurn
  <2>1. UNCHANGED <<replied, made>>
    BY <1>6 DEF SaveTurn, childVars
  <2>2. CASE UNCHANGED <<queue, saved, turns>>
    BY <1>1, <2>1, <2>2 DEF StoreOK, Distinct, Queued
  <2>3. CASE /\ Queued(worker.id) /\ queue' = queue
             /\ saved' = saved \cup {worker.id} /\ turns' = turns \cup {worker.id}
    <3>1. worker.id \in 1 .. made
      BY <1>6 DEF SaveTurn, Inv, WorkerOK, Busy
    <3>2. QED
      BY <1>1, <2>1, <2>3, <3>1 DEF StoreOK, Distinct, Queued
  <2>4. CASE Queued(worker.id) /\ Retire(worker.id) /\ turns' = turns
    <3>1. /\ queue' \in Seq(1 .. made) /\ Distinct(queue') /\ saved' = saved \ {worker.id}
          /\ \A j : j # worker.id /\ Queued(j) => Queued(j)'
      BY <1>1, <2>4, RetireDeletes
    <3>2. QED
      BY <1>1, <2>1, <2>4, <3>1 DEF StoreOK, Distinct
  <2>5. QED
    BY <1>6, <2>2, <2>3, <2>4 DEF SaveTurn
<1>7. CASE Handoff
  <2>1. Queued(worker.id)
    BY <1>1, <1>7 DEF Handoff, Inv, WorkerOK
  <2>2. UNCHANGED <<turns, replied, made>> /\ Retire(worker.id)
    BY <1>7 DEF Handoff, childVars
  <2>3. /\ queue' \in Seq(1 .. made) /\ Distinct(queue') /\ saved' = saved \ {worker.id}
        /\ \A j : j # worker.id /\ Queued(j) => Queued(j)'
    BY <1>1, <2>1, <2>2, RetireDeletes
  <2>4. QED
    BY <1>1, <2>2, <2>3 DEF StoreOK, Distinct
<1>8. CASE Reply
  BY <1>1, <1>8 DEF Reply, childVars, StoreOK, Distinct, Queued
<1>9. CASE DrainRow
  <2>1. /\ queue # <<>> /\ queue' = Tail(queue) /\ turns' = turns \cup {Head(queue)}
        /\ saved' = saved \ {Head(queue)} /\ UNCHANGED <<replied, made>>
    BY <1>9 DEF DrainRow, childVars
  <2>2. /\ Head(queue) \in 1 .. made /\ queue' \in Seq(1 .. made) /\ Distinct(queue')
        /\ \A j : j # Head(queue) /\ Queued(j) => Queued(j)'
    BY <1>1, <2>1, TailTakes
  <2>3. QED
    BY <1>1, <2>1, <2>2 DEF StoreOK, Distinct
<1>10. QED
  BY <1>4, <1>5, <1>6, <1>7, <1>8, <1>9, StoreFrame

-----------------------------------------------------------------------------
(* The child's prompts and the publishers.                                 *)

LEMMA PublishesTyped ==
    ASSUME ProcessOK, NEW p \in Publishers, Publishes(p) \/ Notifies(p)
    PROVE  /\ at' \in [Publishers -> PromptPoints \cup PublishPoints]
           /\ pub' \in [Publishers -> Gens \cup {NoGen}]
           /\ deferred' \subseteq Publishers
           /\ \A g \in Gens : at'[g] = "run" => at[g] = "run"
<1> USE DEF ProcessOK, PublishPoints
<1>1. CASE Publishes(p)
  <2> DEFINE again == p \in deferred \cap Gens /\ p \notin steered
  <2>1. /\ at' = [at EXCEPT ![p] = IF again THEN "check" ELSE "done"]
        /\ pub' = [pub EXCEPT ![p] = IF again THEN p ELSE NoGen]
        /\ deferred' = deferred \ {p}
    BY <1>1 DEF Publishes
  <2>2. (IF again THEN p ELSE NoGen) \in Gens \cup {NoGen}
    OBVIOUS
  <2>3. (IF again THEN "check" ELSE "done") \in {"check", "done"}
    OBVIOUS
  <2> HIDE DEF again
  <2>4. QED
    BY <2>1, <2>2, <2>3 DEF Publishers
<1>2. CASE Notifies(p)
  BY <1>2 DEF Notifies, Goes, Publishers
<1>3. QED
  BY <1>1, <1>2

LEMMA ProcessKept ==
    ASSUME Inv, Next
    PROVE  ProcessOK'
<1> USE DEF Goes, PromptPoints, PublishPoints, Publishers
<1>1. ProcessOK
  BY DEF Inv
<1>2. owed \in Gens \cup {NoGen}
  BY DEF Inv, ChildOK
<1>3. CASE Child
  <2>1. CASE ReleaseWorker
    BY <1>1, <2>1 DEF ProcessOK, ReleaseWorker
  <2>2. CASE AbortChild
    BY <1>1, <2>2 DEF ProcessOK, AbortChild
  <2>3. ASSUME NEW g \in Gens, MarkOwed(g) \/ Enqueue(g) PROVE ProcessOK'
    BY <1>1, <2>3 DEF ProcessOK, MarkOwed, Enqueue
  <2>4. ASSUME NEW g \in Gens, EnterPrompt(g) PROVE ProcessOK'
    BY <1>1, <2>4 DEF ProcessOK, EnterPrompt
  <2>5. ASSUME NEW g \in Gens, WriteBack(g) PROVE ProcessOK'
    BY <1>1, <2>5 DEF ProcessOK, WriteBack, Running
  <2>6. ASSUME NEW g \in Gens, PromptFails(g) \/ EndPrompt(g) PROVE ProcessOK'
    BY <1>1, <2>6 DEF ProcessOK, PromptFails, EndPrompt
  <2>7. QED
    BY <1>3, <2>1, <2>2, <2>3, <2>4, <2>5, <2>6 DEF Child
<1>4. CASE Publication
  <2>1. PICK p \in Publishers : \/ ReadOwed(p) \/ SeeIdle(p) \/ SeeIdleAgain(p)
                                \/ mark_subtask_completion_pending(p) \/ MarkFails(p)
    BY <1>4 DEF Publication
  <2>2. steered' = steered
    BY <2>1 DEF ReadOwed, SeeIdle, SeeIdleAgain, mark_subtask_completion_pending, MarkFails
  <2>3. CASE /\ Goes(p, "idle") /\ pub' = [pub EXCEPT ![p] = owed]
             /\ UNCHANGED deferred
    BY <1>1, <1>2, <2>2, <2>3 DEF ProcessOK
  <2>4. CASE Publishes(p) \/ Notifies(p)
    BY <1>1, <2>2, <2>4, PublishesTyped DEF ProcessOK
  <2>5. CASE UNCHANGED <<pub, deferred>> /\ (Goes(p, "check") \/ Goes(p, "mark"))
    BY <1>1, <2>2, <2>5 DEF ProcessOK
  <2>6. QED
    BY <2>1, <2>3, <2>4, <2>5
       DEF ReadOwed, SeeIdle, PassesOver, SeeIdleAgain, mark_subtask_completion_pending,
           MarkFails
<1>5. CASE Reconciliation
  <2>1. PICK x \in Reconcilers \cup {rec.who}, left \in SUBSET Recs :
            UNCHANGED <<at, pub, deferred>> \/ Leaves(x, left)
    BY <1>5 DEF Reconciliation, Reconcile, SeeTranscript, ReconcileFails, Settle,
       promptVars, Inv, LockOK
  <2>2. steered' = steered
    BY <1>5 DEF Reconciliation, Reconcile, SeeTranscript, ReconcileFails, Settle, promptVars
  <2>3. CASE UNCHANGED <<at, pub, deferred>>
    BY <1>1, <2>2, <2>3 DEF ProcessOK
  <2>4. CASE x \in Publishers /\ Publishes(x)
    BY <1>1, <2>2, <2>4, PublishesTyped DEF ProcessOK
  <2>5. QED
    BY <2>1, <2>3, <2>4 DEF Leaves
<1>6. CASE Parent
  <2>1. UNCHANGED promptVars
    BY <1>6 DEF Parent, WorkerPeeks, SaveTurn, AdmissionFails, Handoff, Reply, DrainRow,
       EndTurn, TurnFails, AcknowledgeTurn, AcknowledgementFails, FailedTurn, UserPrompts,
       UserTurnEnds, UserTurnFails
  <2>2. QED
    BY <1>1, <2>1 DEF ProcessOK, promptVars
<1>7. CASE Restart
  BY <1>1, <1>7 DEF ProcessOK, Restart
<1>8. QED
  BY <1>3, <1>4, <1>5, <1>6, <1>7 DEF Next

-----------------------------------------------------------------------------
(* The parent's worker.                                                    *)

WorkerRecords(n) == [at : Busy \cup {"off", "wait"}, id : 0 .. n, failed : BOOLEAN]

LEMMA AwakeTyped ==
    ASSUME NEW n \in Nat
    PROVE  /\ Asleep \in WorkerRecords(n) /\ Asleep.at = "off"
           /\ \A b \in BOOLEAN : Awake(b) \in WorkerRecords(n) /\ Awake(b).at = "wait"
           /\ Awake(TRUE) \in WorkerRecords(n) /\ Awake(TRUE).at = "wait"
           /\ Awake(FALSE) \in WorkerRecords(n) /\ Awake(FALSE).at = "wait"
  BY DEF Awake, Asleep, WorkerRecords, Busy

LEMMA WorkerMoves ==
    ASSUME NEW n \in Nat, worker \in WorkerRecords(n), NEW point \in Busy, Worker(point)
    PROVE  worker' \in WorkerRecords(n) /\ worker'.id = worker.id /\ worker'.at = point
<1>1. worker' = [worker EXCEPT !.at = point]
  BY DEF Worker
<1>2. worker' \in WorkerRecords(n)
  BY <1>1 DEF WorkerRecords
<1>3. worker'.id = worker.id
  BY <1>1 DEF WorkerRecords
<1>4. worker'.at = point
  BY <1>1 DEF WorkerRecords
<1>5. QED
  BY <1>2, <1>3, <1>4

\* A worker that has no notification in hand, whatever the run slot does.
LEMMA IdleWorkerOK ==
    ASSUME made' \in Nat, prun' \in {"none", "user"}, wake' \in BOOLEAN,
           worker' \in WorkerRecords(made'), worker'.at \in {"off", "wait"}
    PROVE  WorkerOK'
  BY DEF WorkerOK, WorkerRecords, Busy

LEMMA WakeKeepsWorker ==
    ASSUME WorkerOK, Wake, made' = made, made \in Nat,
           UNCHANGED <<prun, saved, turns, answered>>
    PROVE  WorkerOK'
<1>1. CASE worker.at = "off"
  <2>1. worker' = Awake(FALSE) /\ wake' = wake
    BY <1>1 DEF Wake
  <2>2. worker' \in WorkerRecords(made') /\ worker'.at = "wait"
    BY <2>1, AwakeTyped
  <2>3. prun' \in {"none", "user"} /\ wake' \in BOOLEAN
    BY <1>1, <2>1 DEF WorkerOK
  <2>4. QED
    BY <2>2, <2>3, IdleWorkerOK
<1>2. CASE worker.at # "off"
  <2>1. worker' = worker
    BY <1>2 DEF Wake
  <2>2. wake' \in BOOLEAN
    BY <1>2, Zenon DEF Wake
  <2>3. QED
    BY <2>1, <2>2 DEF WorkerOK
<1>3. QED
  BY <1>1, <1>2

\* A step of the others grows the transcript and, when the worker has saved its
\* turn, leaves the rows alone.
LEMMA OthersKeepWorker ==
    ASSUME Inv, Next, UNCHANGED WorkerVars, made \in Nat, made' \in Nat, made <= made',
           StoreOK'
    PROVE  WorkerOK'
<1>1. WorkerOK
  BY DEF Inv
<1>2. UNCHANGED <<prun, worker, wake>>
  BY DEF WorkerVars
<1>3. answered' = answered
  <2>1. ~EndTurn
    <3>1. EndTurn => prun = "worker" /\ prun' = "none"
      BY DEF EndTurn
    <3>2. QED
      BY <1>2, <3>1
  <2>2. QED
    BY <2>1, HistoryFrame
<1>4. turns \subseteq turns' /\ (prun # "none" => saved' \subseteq saved)
      /\ (prun = "none" /\ worker.at = "own" => saved \subseteq saved')
  <2>1. CASE UNCHANGED StoreVars
    BY <2>1 DEF StoreVars
  <2>2. CASE \E i \in Recs : Settle(i)
    BY <2>2 DEF Settle
  <2>3. CASE SaveTurn
    <3>1. worker.at = "save" /\ worker' = worker
      BY <1>2, <2>3 DEF SaveTurn
    <3>2. prun # "worker"
      BY <1>1, <3>1 DEF WorkerOK
    <3>3. UNCHANGED <<saved, turns>>
      <4>1. ~Worker("own") /\ ~Worker("ack")
        <5>1. Worker("own") => worker'.at = "own"
          BY <1>1 DEF Worker, WorkerOK
        <5>2. Worker("ack") => worker'.at = "ack"
          BY <1>1 DEF Worker, WorkerOK
        <5>3. QED
          BY <3>1, <5>1, <5>2
      <4>2. QED
        BY <2>3, <4>1 DEF SaveTurn
    <3>4. QED
      BY <3>3
  <2>4. CASE Handoff
    <3>1. worker.at = "own" /\ prun' = "worker"
      BY <2>4 DEF Handoff
    <3>2. QED
      BY <1>1, <1>2, <3>1 DEF WorkerOK
  <2>5. CASE Reply
    BY <1>1, <2>5 DEF Reply, WorkerOK
  <2>6. CASE DrainRow
    BY <1>1, <2>6 DEF DrainRow, WorkerOK
  <2>7. QED
    BY <2>1, <2>2, <2>3, <2>4, <2>5, <2>6, StoreFrame
<1>5. worker \in WorkerRecords(made')
  BY <1>1 DEF WorkerOK, WorkerRecords
<1>6. wake' \in BOOLEAN
  BY <1>1, <1>2 DEF WorkerOK
<1>7. QED
  BY <1>1, <1>2, <1>3, <1>4, <1>5, <1>6 DEF WorkerOK, WorkerRecords


LEMMA WorkerKept ==
    ASSUME Inv, Next, made <= made', made \in Nat, made' \in Nat, StoreOK'
    PROVE  WorkerOK'
<1>1. /\ prun \in {"none", "worker", "user"} /\ wake \in BOOLEAN
      /\ worker \in WorkerRecords(made) /\ worker.failed \in BOOLEAN
      /\ worker.at \in Busy => worker.id \in 1 .. made
      /\ worker.at = "own" => prun = "none" /\ worker.id \in saved
      /\ prun = "worker" =>
            worker.at = "run" /\ worker.id \in turns \ (saved \cup answered)
  BY DEF Inv, WorkerOK, WorkerRecords
<1>2. /\ saved \subseteq turns /\ answered \subseteq replied /\ replied \subseteq turns
      /\ queue \in Seq(1 .. made) /\ saved \cap answered = {} /\ Distinct(queue)
      /\ \A i \in saved : Queued(i)
  BY DEF Inv, StoreOK, HistoryOK
<1>3. CASE UNCHANGED WorkerVars
  BY <1>3, OthersKeepWorker
<1>4. ASSUME NEW i \in Recs, Settle(i) PROVE WorkerOK'
  <2>1. UNCHANGED <<made, prun, saved, turns, answered>>
    BY <1>4 DEF Settle, historyVars
  <2>2. CASE UNCHANGED <<worker, wake>>
    BY <1>3, <2>1, <2>2 DEF WorkerVars
  <2>3. CASE Wake
    BY <2>1, <2>3, WakeKeepsWorker DEF Inv
  <2>4. QED
    BY <1>4, <2>2, <2>3 DEF Settle, Admit
<1>5. CASE Restart
  <2>1. made' = made /\ prun' = "none" /\ wake' = FALSE
    BY <1>5 DEF Restart, childVars
  <2>2. worker' = Asleep \/ worker' = Awake(FALSE)
    BY <1>5 DEF Restart
  <2>3. worker' \in WorkerRecords(made') /\ worker'.at \in {"off", "wait"}
    BY <2>2, AwakeTyped
  <2>4. QED
    BY <2>1, <2>3, IdleWorkerOK
<1>6. CASE WorkerPeeks
  <2>1. UNCHANGED <<made, prun>> /\ prun = "none"
    BY <1>6 DEF WorkerPeeks, childVars
  <2>2. CASE queue # <<>> /\ wake' = wake
             /\ worker' = [worker EXCEPT !.at = "save", !.id = Head(queue)]
    <3>1. Head(queue) \in 1 .. made
      BY <1>2, <2>2, HeadTailProperties
    <3>2. [worker EXCEPT !.at = "save"] \in WorkerRecords(made)
      BY <1>1 DEF WorkerRecords, Busy
    <3>3. Head(queue) \in 0 .. made
      BY <3>1
    <3>4. worker' \in WorkerRecords(made)
      BY <2>2, <3>2, <3>3, Zenon DEF WorkerRecords
    <3>5. worker'.at = "save" /\ worker'.id = Head(queue)
      BY <1>1, <2>2, Zenon DEF WorkerRecords
    <3>6. QED
      BY <1>1, <2>1, <2>2, <3>1, <3>4, <3>5 DEF WorkerOK, WorkerRecords, Busy
  <2>3. CASE wake' = FALSE /\ worker' = worker /\ worker.at = "wait"
    BY <1>1, <2>1, <2>3, IdleWorkerOK
  <2>4. CASE wake' = wake /\ worker' = Asleep
    <3>1. worker' \in WorkerRecords(made') /\ worker'.at = "off"
      BY <2>4, AwakeTyped
    <3>2. QED
      BY <1>1, <2>1, <2>4, <3>1, IdleWorkerOK
  <2>5. QED
    BY <1>6, <2>2, <2>3, <2>4 DEF WorkerPeeks
<1>7. CASE SaveTurn
  <2>1. UNCHANGED <<made, prun, wake, answered>> /\ worker.at = "save" /\ prun # "worker"
    BY <1>1, <1>7 DEF SaveTurn, childVars, historyVars
  <2>2. CASE \E b \in BOOLEAN : worker' = Awake(b)
    <3>1. worker' \in WorkerRecords(made') /\ worker'.at = "wait"
      BY <2>2, AwakeTyped
    <3>2. QED
      BY <1>1, <2>1, <3>1, IdleWorkerOK
  <2>3. CASE prun = "none" /\ saved' = saved \cup {worker.id} /\ Worker("own")
    <3>1. /\ worker' \in WorkerRecords(made) /\ worker'.at = "own"
          /\ worker'.id = worker.id
      BY <1>1, <2>3, WorkerMoves DEF Busy
    <3>2. QED
      BY <1>1, <2>1, <2>3, <3>1 DEF WorkerOK, WorkerRecords, Busy
  <2>4. CASE Worker("ack")
    <3>1. /\ worker' \in WorkerRecords(made) /\ worker'.at = "ack"
          /\ worker'.id = worker.id
      BY <1>1, <2>4, WorkerMoves DEF Busy
    <3>2. QED
      BY <1>1, <2>1, <3>1 DEF WorkerOK, WorkerRecords, Busy
  <2>5. TRUE \in BOOLEAN
    OBVIOUS
  <2>6. QED
    BY <1>1, <1>7, <2>2, <2>3, <2>4, <2>5 DEF SaveTurn
<1>8. CASE AdmissionFails
  <2>1. /\ UNCHANGED <<made, prun>> /\ prun = "none" /\ wake' = FALSE
        /\ worker' = Asleep \/ worker' = Awake(TRUE)
    BY <1>1, <1>8 DEF AdmissionFails, childVars
  <2>2. worker' \in WorkerRecords(made') /\ worker'.at \in {"off", "wait"}
    BY <2>1, AwakeTyped
  <2>3. QED
    BY <2>1, <2>2, IdleWorkerOK
<1>9. CASE Handoff
  <2>1. /\ worker.at = "own" /\ prun' = "worker" /\ Worker("run") /\ Retire(worker.id)
        /\ UNCHANGED <<made, turns, wake, answered>>
    BY <1>9 DEF Handoff, childVars, historyVars
  <2>2. worker' \in WorkerRecords(made) /\ worker'.at = "run" /\ worker'.id = worker.id
    BY <1>1, <2>1, WorkerMoves DEF Busy
  <2>3. saved' = saved \ {worker.id}
    BY <2>1 DEF Retire
  <2>4. worker.id \in saved /\ worker.id \in turns /\ worker.id \notin answered
    BY <1>1, <1>2, <2>1
  <2>5. QED
    BY <1>1, <2>1, <2>2, <2>3, <2>4 DEF WorkerOK, WorkerRecords, Busy
<1>10. CASE EndTurn \/ TurnFails
  <2>1. UNCHANGED <<made, wake>> /\ prun' = "none" /\ prun = "worker"
    BY <1>10 DEF EndTurn, TurnFails, childVars
  <2>2. PICK point \in {"ack", "failed"} : Worker(point)
    BY <1>10 DEF EndTurn, TurnFails
  <2>3. worker' \in WorkerRecords(made) /\ worker'.at = point /\ worker'.id = worker.id
    BY <1>1, <2>2, WorkerMoves DEF Busy
  <2>4. QED
    BY <1>1, <2>1, <2>2, <2>3 DEF WorkerOK, WorkerRecords, Busy
<1>11. CASE AcknowledgeTurn \/ AcknowledgementFails \/ FailedTurn
  <2>1. /\ UNCHANGED <<made, prun, wake>> /\ prun # "worker"
        /\ worker' = Awake(TRUE) \/ worker' = Awake(worker.failed)
    BY <1>1, <1>11 DEF AcknowledgeTurn, AcknowledgementFails, FailedTurn, childVars
  <2>2. worker' \in WorkerRecords(made') /\ worker'.at = "wait"
    BY <1>1, <2>1, AwakeTyped
  <2>3. QED
    BY <1>1, <2>1, <2>2, IdleWorkerOK
<1>12. CASE UserPrompts \/ UserTurnEnds \/ UserTurnFails
  <2>1. /\ UNCHANGED <<made, wake, worker>> /\ prun # "worker" /\ prun' \in {"none", "user"}
        /\ prun' = "user" => worker.at # "own"
    BY <1>12 DEF UserPrompts, UserTurnEnds, UserTurnFails, childVars
  <2>2. UNCHANGED saved
    BY <1>12 DEF UserPrompts, UserTurnEnds, UserTurnFails, parentVars
  <2>3. QED
    BY <1>1, <2>1, <2>2 DEF WorkerOK, WorkerRecords, Busy
<1>13. QED
  BY <1>3, <1>4, <1>5, <1>6, <1>7, <1>8, <1>9, <1>10, <1>11, <1>12, WorkerFrame

-----------------------------------------------------------------------------
(* The reconciliations.                                                    *)

Reconciliations ==
    [who : Reconcilers \cup {NoOne}, at : {"free", "read", "each"},
     pending : SUBSET Recs, active : BOOLEAN,
     turns : SUBSET Recs, replied : SUBSET Recs]

LEMMA LeavesTyped ==
    ASSUME rec \in Reconciliations, NEW x, NEW left \in SUBSET rec.pending,
           Leaves(x, left)
    PROVE  /\ rec' \in Reconciliations
           /\ rec'.pending \subseteq rec.pending
           /\ rec'.replied \subseteq rec.replied
<1>1. CASE rec' = [rec EXCEPT !.pending = left]
  <2>1. left \in SUBSET Recs
    BY DEF Reconciliations
  <2>2. rec' \in Reconciliations
    BY <1>1, <2>1 DEF Reconciliations
  <2>3. rec'.pending = left /\ rec'.replied = rec.replied
    BY <1>1 DEF Reconciliations
  <2>4. QED
    BY <2>2, <2>3
<1>2. CASE rec' = Unlocked
  BY <1>2 DEF Unlocked, Reconciliations
<1>3. QED
  BY <1>1, <1>2 DEF Leaves

LEMMA PendingMade ==
    ASSUME ChildOK
    PROVE  Pending \subseteq 1 .. made
  BY BoundAssumption DEF ChildOK, Made, Pending, Unmade, Recs

LEMMA LockKept ==
    ASSUME Inv, Next, made <= made', made \in Nat, made' \in Nat,
           replied \subseteq replied'
    PROVE  LockOK'
<1>1. /\ want \subseteq Reconcilers /\ rec \in Reconciliations
      /\ rec.pending \subseteq 1 .. made /\ rec.replied \subseteq replied
  BY DEF Inv, LockOK, Reconciliations
<1>2. /\ rec' \in Reconciliations
      /\ rec'.pending \subseteq 1 .. made /\ rec'.replied \subseteq replied
      /\ want' \subseteq Reconcilers
      => LockOK'
  BY DEF LockOK, Reconciliations
<1>3. want' \subseteq Reconcilers
  <2> USE <1>1 DEF Reconcilers, Teardowns, Others
  <2>1. CASE Child
    BY <2>1 DEF Child, MarkOwed, Enqueue, EnterPrompt, WriteBack, PromptFails, EndPrompt,
       ReleaseWorker, AbortChild, lockVars
  <2>2. CASE Publication
    BY <2>2 DEF Publication, ReadOwed, SeeIdle, PassesOver, SeeIdleAgain, MarkFails, Notifies,
       mark_subtask_completion_pending, lockVars
  <2>3. CASE Reconciliation
    BY <2>3 DEF Reconciliation, Reconcile, SeeTranscript, ReconcileFails, Settle
  <2>4. CASE Parent
    BY <2>4 DEF Parent, WorkerPeeks, SaveTurn, AdmissionFails, Handoff, Reply, DrainRow,
       EndTurn, TurnFails, AcknowledgeTurn, AcknowledgementFails, FailedTurn, UserPrompts,
       UserTurnEnds, UserTurnFails, lockVars
  <2>5. CASE Restart
    BY <2>5 DEF Restart
  <2>6. QED
    BY <2>1, <2>2, <2>3, <2>4, <2>5 DEF Next
<1>4. CASE rec' = rec
  BY <1>1, <1>2, <1>3, <1>4
<1>5. CASE Restart
  <2>1. rec' = Unlocked
    BY <1>5 DEF Restart
  <2>2. QED
    BY <1>2, <1>3, <2>1 DEF Unlocked, Reconciliations
<1>6. CASE Reconciliation
  <2>1. ASSUME NEW x \in Reconcilers, Reconcile(x) PROVE LockOK'
    <3>1. CASE Leaves(x, {})
      BY <1>1, <1>2, <1>3, <3>1, LeavesTyped
    <3>2. CASE rec' = [Unlocked EXCEPT !.who = x, !.at = "read", !.pending = Pending,
                                       !.active = worker.at # "off"]
      <4>1. Pending \subseteq 1 .. made /\ Pending \in SUBSET Recs
        BY PendingMade DEF Inv, Pending
      <4>2. rec' = [who |-> x, at |-> "read", pending |-> Pending,
                    active |-> worker.at # "off", turns |-> {}, replied |-> {}]
        BY <3>2, Zenon DEF Unlocked
      <4>3. (worker.at # "off") \in BOOLEAN
        BY Zenon
      <4> DEFINE busy == worker.at # "off"
      <4>4. rec' = [who |-> x, at |-> "read", pending |-> Pending,
                    active |-> busy, turns |-> {}, replied |-> {}]
        BY <4>2, Zenon
      <4>5. busy \in BOOLEAN
        BY <4>3
      <4> HIDE DEF busy
      <4>6. rec' \in Reconciliations /\ rec'.pending = Pending /\ rec'.replied = {}
        BY <4>1, <4>4, <4>5 DEF Reconciliations
      <4>7. QED
        BY <1>2, <1>3, <4>1, <4>6
    <3>3. QED
      BY <2>1, <3>1, <3>2 DEF Reconcile
  <2>2. CASE SeeTranscript
    <3>1. replied \in SUBSET Recs /\ turns \in SUBSET Recs
      BY BoundAssumption DEF Inv, StoreOK, ChildOK, Recs
    <3>2. rec' = [rec EXCEPT !.at = "each", !.turns = turns, !.replied = replied]
      BY <2>2 DEF SeeTranscript
    <3>3. [rec EXCEPT !.at = "each"] \in Reconciliations
      BY <1>1 DEF Reconciliations
    <3>4. rec' \in Reconciliations
      BY <3>1, <3>2, <3>3, Zenon DEF Reconciliations
    <3>5. rec'.pending = rec.pending /\ rec'.replied = replied
      BY <1>1, <3>2, Zenon DEF Reconciliations
    <3>6. QED
      BY <1>1, <1>2, <1>3, <3>4, <3>5
  <2>3. CASE ReconcileFails
    BY <1>1, <1>2, <1>3, <2>3, LeavesTyped DEF ReconcileFails
  <2>4. ASSUME NEW i \in Recs, Settle(i) PROVE LockOK'
    BY <1>1, <1>2, <1>3, <2>4, LeavesTyped DEF Settle
  <2>5. QED
    BY <1>6, <2>1, <2>2, <2>3, <2>4 DEF Reconciliation
<1>7. CASE Child \/ Publication \/ Parent
  <2>1. rec' = rec
    <3>1. CASE Child
      BY <3>1 DEF Child, MarkOwed, Enqueue, EnterPrompt, WriteBack, PromptFails, EndPrompt,
         ReleaseWorker, AbortChild, lockVars
    <3>2. CASE Publication
      BY <3>2 DEF Publication, ReadOwed, SeeIdle, SeeIdleAgain, MarkFails,
         mark_subtask_completion_pending, lockVars
    <3>3. CASE Parent
      BY <3>3 DEF Parent, WorkerPeeks, SaveTurn, AdmissionFails, Handoff, Reply, DrainRow,
         EndTurn, TurnFails, AcknowledgeTurn, AcknowledgementFails, FailedTurn, UserPrompts,
         UserTurnEnds, UserTurnFails, lockVars
    <3>4. QED
      BY <1>7, <3>1, <3>2, <3>3
  <2>2. QED
    BY <1>4, <2>1
<1>8. QED
  BY <1>5, <1>6, <1>7 DEF Next

-----------------------------------------------------------------------------
(* What was answered, and what the outbox has given up.                    *)

LEMMA HistoryKept ==
    ASSUME Inv, Next, replied \subseteq replied', StoreOK'
    PROVE  HistoryOK' /\ cancelled \subseteq cancelled'
<1>1. /\ answered \subseteq replied /\ cancelled \subseteq turns
      /\ saved \cap answered = {} /\ replied \subseteq turns
      /\ failed \in BOOLEAN /\ skipped \in BOOLEAN /\ events \in 0 .. MaxEvent
  BY DEF Inv, HistoryOK, StoreOK
<1>2. turns \subseteq turns'
  <2>1. CASE UNCHANGED StoreVars
    BY <2>1 DEF StoreVars
  <2>2. CASE \E i \in Recs : Settle(i)
    BY <2>2 DEF Settle
  <2>3. QED
    BY <2>1, <2>2, StoreFrame DEF SaveTurn, Handoff, Reply, DrainRow
<1>3. events' \in 0 .. MaxEvent
  <2>1. events' = events \/ Event
    <3>1. CASE Child
      BY <3>1 DEF Child, MarkOwed, Enqueue, EnterPrompt, WriteBack, PromptFails, EndPrompt,
         ReleaseWorker, AbortChild, Fails
    <3>2. CASE Publication
      BY <3>2 DEF Publication, ReadOwed, SeeIdle, SeeIdleAgain, MarkFails, Fails,
         mark_subtask_completion_pending
    <3>3. CASE Reconciliation
      BY <3>3 DEF Reconciliation, Reconcile, SeeTranscript, ReconcileFails, Settle, Fails
    <3>4. CASE Parent
      BY <3>4 DEF Parent, WorkerPeeks, SaveTurn, AdmissionFails, Handoff, Reply, DrainRow,
         EndTurn, TurnFails, AcknowledgeTurn, AcknowledgementFails, FailedTurn,
         UserPrompts, UserTurnEnds, UserTurnFails, Fails
    <3>5. CASE Restart
      BY <3>5 DEF Restart
    <3>6. QED
      BY <3>1, <3>2, <3>3, <3>4, <3>5 DEF Next
  <2>2. QED
    BY <1>1, <2>1, BoundAssumption DEF Event
<1>4. failed' \in BOOLEAN
  <2>1. failed' = failed \/ failed' = TRUE \/ failed' = FALSE
    <3>1. CASE Child
      BY <3>1 DEF Child, MarkOwed, Enqueue, EnterPrompt, WriteBack, PromptFails, EndPrompt,
         ReleaseWorker, AbortChild, Fails
    <3>2. CASE Publication
      BY <3>2 DEF Publication, ReadOwed, SeeIdle, SeeIdleAgain, MarkFails, Fails,
         mark_subtask_completion_pending
    <3>3. CASE Reconciliation
      BY <3>3 DEF Reconciliation, Reconcile, SeeTranscript, ReconcileFails, Settle, Fails
    <3>4. CASE Parent
      BY <3>4 DEF Parent, WorkerPeeks, SaveTurn, AdmissionFails, Handoff, Reply, DrainRow,
         EndTurn, TurnFails, AcknowledgeTurn, AcknowledgementFails, FailedTurn,
         UserPrompts, UserTurnEnds, UserTurnFails, Fails
    <3>5. CASE Restart
      BY <3>5 DEF Restart
    <3>6. QED
      BY <3>1, <3>2, <3>3, <3>4, <3>5 DEF Next
  <2>2. QED
    BY <1>1, <2>1, Zenon
<1>8. skipped' \in BOOLEAN
  BY <1>1, SkippedFrame, Zenon
<1>5. CASE EndTurn
  <2>1. UNCHANGED <<saved, turns, replied>> /\ worker.id \in turns \ saved
    BY <1>5 DEF EndTurn, parentVars, Inv, WorkerOK
  <2>2. \/ /\ worker.id \in replied /\ answered' = answered \cup {worker.id}
           /\ cancelled' = cancelled
        \/ cancelled' = cancelled \cup {worker.id} /\ answered' = answered
    BY <1>5 DEF EndTurn
  <2>3. answered' \subseteq replied' /\ cancelled' \subseteq turns'
    BY <1>1, <2>1, <2>2
  <2>4. saved' \cap answered' = {} /\ cancelled \subseteq cancelled'
    BY <1>1, <2>1, <2>2
  <2>5. QED
    BY <1>3, <1>4, <1>8, <2>3, <2>4 DEF HistoryOK
<1>6. CASE UNCHANGED <<answered, cancelled>>
  <2>1. saved' \cap answered' = {}
    <3>1. saved' \subseteq saved \/ SaveTurn
      <4>1. CASE UNCHANGED StoreVars
        BY <4>1 DEF StoreVars
      <4>2. CASE \E i \in Recs : Settle(i)
        BY <4>2 DEF Settle
      <4>3. QED
        BY <4>1, <4>2, StoreFrame DEF Handoff, Reply, DrainRow, Retire
    <3>2. CASE SaveTurn
      BY <1>1, <1>6, <3>2 DEF SaveTurn, NeedsRecovery, Retire
    <3>3. QED
      BY <1>1, <1>6, <3>1, <3>2
  <2>2. QED
    BY <1>1, <1>2, <1>3, <1>4, <1>6, <1>8, <2>1 DEF HistoryOK
<1>7. QED
  BY <1>5, <1>6, HistoryFrame

\* The outbox loses to a stale write what the write does not carry, gains a
\* record that waits, or gives up what a reply or a cancelled run covers.
LEMMA OutboxSteps ==
    ASSUME Inv, Next
    PROVE  \/ UNCHANGED <<outbox, loaded>>
           \/ outbox' = loaded.outbox /\ loaded' = NoRow
           \/ outbox' = outbox /\ (loaded' = NoRow \/ loaded'.outbox = outbox)
           \/ /\ loaded' = loaded /\ made + 1 \in Recs
              /\ \E g \in Gens \cup {NoGen} :
                    outbox' = [outbox EXCEPT ![made + 1] = [gen |-> g, pending |-> TRUE]]
           \/ /\ loaded' = loaded
              /\ \E i \in Recs : /\ outbox' = Acknowledged(i)
                                 /\ i \in rec.replied \/ (worker.at = "ack" /\ i = worker.id)
<1>1. CASE UNCHANGED ChildVars
  BY <1>1 DEF ChildVars
<1>2. CASE \E g \in Gens : MarkOwed(g) \/ EnterPrompt(g) \/ WriteBack(g) \/ PromptFails(g)
  <2>1. PICK g \in Gens : MarkOwed(g) \/ EnterPrompt(g) \/ WriteBack(g) \/ PromptFails(g)
    BY <1>2
  <2>2. CASE MarkOwed(g) \/ WriteBack(g) \/ PromptFails(g)
    BY <2>2 DEF MarkOwed, WriteBack, PromptFails, childVars
  <2>3. CASE EnterPrompt(g)
    BY <2>3 DEF EnterPrompt, childVars
  <2>4. QED
    BY <2>1, <2>2, <2>3
<1>3. CASE \E p \in Publishers : mark_subtask_completion_pending(p)
  <2>1. PICK p \in Publishers : mark_subtask_completion_pending(p)
    BY <1>3
  <2>2. pub[p] \in Gens \cup {NoGen}
    BY DEF Inv, ProcessOK
  <2>3. made < MaxRec => made + 1 \in Recs
    BY BoundAssumption DEF Inv, ChildOK, Recs
  <2>4. QED
    BY <2>1, <2>2, <2>3 DEF mark_subtask_completion_pending, childVars
<1>4. CASE \E i \in Recs : Settle(i)
  <2>1. PICK i \in Recs : Settle(i)
    BY <1>4
  <2>2. UNCHANGED loaded
    BY <2>1 DEF Settle
  <2>3. outbox' = outbox \/ (outbox' = Acknowledged(i) /\ i \in rec.replied)
    BY <2>1 DEF Settle
  <2>4. QED
    BY <2>2, <2>3
<1>5. CASE AcknowledgeTurn
  <2>1. /\ worker.at = "ack" /\ outbox' = Acknowledged(worker.id) /\ loaded' = loaded
    BY <1>5 DEF AcknowledgeTurn, promptVars
  <2>2. worker.id \in Recs
    BY <2>1, BoundAssumption DEF Inv, ChildOK, WorkerOK, Busy, Recs
  <2>3. QED
    BY <2>1, <2>2
<1>6. CASE Restart
  BY <1>6 DEF Restart, childVars
<1>7. QED
  BY <1>1, <1>2, <1>3, <1>4, <1>5, <1>6, ChildFrame

\* A turn in hand to be acknowledged was so before, or its run has just ended,
\* or it was found in the transcript by the admission that has just ended.
LEMMA AcknowledgingSteps ==
    ASSUME Inv, Next, worker'.at = "ack"
    PROVE  \/ worker.at = "ack" /\ worker'.id = worker.id /\ worker.id \in 1 .. made
           \/ worker'.id \in replied' \cup cancelled'
           \/ /\ UNCHANGED <<outbox, loaded>> /\ worker'.id \in 1 .. made
              /\ worker'.id \in replied \/ ~outbox[worker'.id].pending
<1>1. worker \in WorkerRecords(made) /\ (worker.at \in Busy => worker.id \in 1 .. made)
  BY DEF Inv, WorkerOK, WorkerRecords
<1>2. made \in Nat
  BY DEF Inv, ChildOK
<1>3. CASE worker' = worker
  BY <1>1, <1>3 DEF Busy
<1>4. CASE \E b \in {TRUE, FALSE, worker.failed} : worker' = Awake(b)
  BY <1>4 DEF Awake
<1>5. CASE worker' = Asleep
  BY <1>5 DEF Asleep
<1>6. CASE SaveTurn
  <2>1. worker.at = "save" /\ UNCHANGED <<outbox, loaded>>
    BY <1>6 DEF SaveTurn, childVars, promptVars
  <2>2. CASE Worker("own")
    BY <1>1, <1>2, <2>2, WorkerMoves DEF Busy
  <2>3. CASE Worker("ack") /\ ~NeedsRecovery(worker.id)
    <3>1. worker'.id = worker.id /\ worker.id \in 1 .. made
      BY <1>1, <1>2, <2>1, <2>3, WorkerMoves DEF Busy
    <3>2. worker.id \in Recs
      BY <3>1, BoundAssumption DEF Inv, ChildOK, Recs
    <3>3. QED
      BY <2>1, <2>3, <3>1, <3>2 DEF NeedsRecovery, Pending
  <2>4. QED
    BY <1>4, <1>6, <2>2, <2>3 DEF SaveTurn
<1>7. CASE WorkerPeeks
  <2>1. worker' = [worker EXCEPT !.at = "save", !.id = Head(queue)] => worker'.at = "save"
    BY <1>1, Zenon DEF WorkerRecords
  <2>2. QED
    BY <1>3, <1>5, <1>7, <2>1 DEF WorkerPeeks
<1>8. CASE EndTurn
  <2>1. worker'.id = worker.id
    BY <1>1, <1>2, <1>8, WorkerMoves DEF EndTurn, Busy
  <2>2. QED
    BY <1>8, <2>1 DEF EndTurn, parentVars
<1>9. CASE Handoff \/ TurnFails
  BY <1>1, <1>2, <1>9, WorkerMoves DEF Handoff, TurnFails, Busy
<1>10. CASE \E i \in Recs : Settle(i)
  BY <1>3, <1>4, <1>10 DEF Settle, Admit, Wake
<1>11. QED
  BY <1>3, <1>4, <1>5, <1>6, <1>7, <1>8, <1>9, <1>10, WorkerFrame
     DEF WorkerVars, Restart, AdmissionFails, AcknowledgeTurn, AcknowledgementFails,
     FailedTurn, UserPrompts, UserTurnEnds, UserTurnFails

LEMMA AcknowledgedKept ==
    ASSUME Inv, Next, ChildOK', replied \subseteq replied', cancelled \subseteq cancelled'
    PROVE  AcknowledgedOK'
<1>1. /\ Delivered(outbox) /\ Delivered(loaded.outbox) /\ rec.replied \subseteq replied
      /\ \A i \in Recs : loaded.outbox[i].gen # NoGen => outbox[i].gen # NoGen
      /\ worker.at = "ack" =>
            worker.id \in replied \cup cancelled \/ outbox[worker.id].gen = NoGen
  BY DEF Inv, AcknowledgedOK, LockOK
<1>2. outbox \in Outbox /\ made \in 0 .. MaxRec /\ Made(outbox) /\ loaded.outbox \in Outbox
  BY DEF Inv, ChildOK
<1>3. \A i \in Recs : NoRow.outbox[i].gen = NoGen
  BY DEF NoRow, Unmade
<1> DEFINE Covered(o) == \A i \in Recs : o[i].gen # NoGen /\ ~o[i].pending
                                            => i \in replied' \cup cancelled'
<1>4. Covered(outbox) /\ Covered(loaded.outbox) /\ Covered(NoRow.outbox)
  BY <1>1, <1>3 DEF Delivered
<1> DEFINE Goal == /\ Covered(outbox') /\ Covered(loaded'.outbox)
                   /\ \A i \in Recs : loaded'.outbox[i].gen # NoGen
                                         => outbox'[i].gen # NoGen
<1> DEFINE Gone == worker.at = "ack" /\ outbox[worker.id].gen = NoGen
                      /\ worker.id \in 1 .. made => outbox'[worker.id].gen = NoGen
<1>5. Goal /\ Gone
  <2>1. \A i \in 1 .. made : i \in Recs
    BY <1>2, BoundAssumption DEF Recs
  <2>2. CASE UNCHANGED <<outbox, loaded>>
    BY <1>1, <1>4, <2>2
  <2>3. CASE outbox' = loaded.outbox /\ loaded' = NoRow
    BY <1>1, <1>3, <1>4, <2>1, <2>3
  <2>4. CASE outbox' = outbox /\ (loaded' = NoRow \/ loaded'.outbox = outbox)
    BY <1>1, <1>3, <1>4, <2>4
  <2>5. CASE /\ loaded' = loaded /\ made + 1 \in Recs
             /\ \E g \in Gens \cup {NoGen} :
                   outbox' = [outbox EXCEPT ![made + 1] = [gen |-> g, pending |-> TRUE]]
    <3>1. PICK g \in Gens \cup {NoGen} :
             outbox' = [outbox EXCEPT ![made + 1] = [gen |-> g, pending |-> TRUE]]
      BY <2>5
    <3>2. /\ outbox'[made + 1] = [gen |-> g, pending |-> TRUE]
          /\ \A i \in Recs : i # made + 1 => outbox'[i] = outbox[i]
      BY <1>2, <2>5, <3>1 DEF Outbox
    <3>3. loaded.outbox[made + 1].gen = NoGen
      <4>1. ~(made + 1 <= made)
        BY <1>2
      <4>2. loaded.outbox[made + 1] = Unmade
        BY <2>5, <4>1 DEF Inv, ChildOK, Made
      <4>3. QED
        BY <4>2 DEF Unmade
    <3>4. \A i \in 1 .. made : i # made + 1
      BY <1>2
    <3>5. QED
      BY <1>1, <1>4, <2>1, <2>5, <3>2, <3>3, <3>4
  <2>6. CASE /\ loaded' = loaded
             /\ \E i \in Recs : /\ outbox' = Acknowledged(i)
                                /\ i \in rec.replied \/ (worker.at = "ack" /\ i = worker.id)
    <3>1. PICK i \in Recs : /\ outbox' = Acknowledged(i)
                            /\ i \in rec.replied \/ (worker.at = "ack" /\ i = worker.id)
      BY <2>6
    <3>2. \A j \in Recs : outbox'[j].gen = outbox[j].gen /\ (j # i => outbox'[j] = outbox[j])
      BY <3>1, AcknowledgedTyped DEF Inv
    <3>3. i \in replied' \cup cancelled' \/ outbox[i].gen = NoGen
      BY <1>1, <3>1
    <3>4. QED
      BY <1>1, <1>4, <2>1, <2>6, <3>2, <3>3
  <2>7. QED
    BY <2>2, <2>3, <2>4, <2>5, <2>6, OutboxSteps
<1>6. ASSUME worker'.at = "ack"
      PROVE  worker'.id \in replied' \cup cancelled' \/ outbox'[worker'.id].gen = NoGen
  <2>1. CASE worker.at = "ack" /\ worker'.id = worker.id /\ worker.id \in 1 .. made
    BY <1>1, <1>5, <2>1
  <2>2. CASE /\ UNCHANGED <<outbox, loaded>> /\ worker'.id \in 1 .. made
             /\ worker'.id \in replied \/ ~outbox[worker'.id].pending
    <3>1. worker'.id \in Recs
      BY <1>2, <2>2, BoundAssumption DEF Recs
    <3>2. QED
      BY <1>4, <2>2, <3>1
  <2>3. QED
    BY <1>6, <2>1, <2>2, AcknowledgingSteps
<1>7. QED
  BY <1>5, <1>6 DEF AcknowledgedOK, Delivered

-----------------------------------------------------------------------------
(* The theorems.                                                           *)

LEMMA InvKept == Inv /\ [Next]_vars => Inv'
<1>1. ASSUME Inv, Next PROVE Inv'
  <2>1. ChildOK' /\ made \in Nat /\ made <= made'
    BY <1>1, ChildKept
  <2>2. made' \in Nat
    BY <2>1 DEF ChildOK
  <2>3. StoreOK' /\ replied \subseteq replied'
    BY <1>1, <2>1, <2>2, StoreKept
  <2>4. ProcessOK'
    BY <1>1, ProcessKept
  <2>5. WorkerOK'
    BY <1>1, <2>1, <2>2, <2>3, WorkerKept
  <2>6. LockOK'
    BY <1>1, <2>1, <2>2, <2>3, LockKept
  <2>7. HistoryOK' /\ cancelled \subseteq cancelled'
    BY <1>1, <2>3, HistoryKept
  <2>8. AcknowledgedOK'
    BY <1>1, <2>1, <2>3, <2>7, AcknowledgedKept
  <2>9. QED
    BY <2>1, <2>3, <2>4, <2>5, <2>6, <2>7, <2>8 DEF Inv
<1>2. ASSUME Inv, UNCHANGED vars PROVE Inv'
  BY <1>2 DEF Inv, ChildOK, StoreOK, ProcessOK, WorkerOK, LockOK, HistoryOK, AcknowledgedOK,
     Made, Distinct, Queued, Delivered, vars, childVars, parentVars, promptVars, slotVars,
     lockVars, historyVars
<1>3. QED
  BY <1>1, <1>2

\* The outbox, its copies, the parent's queue and transcript and the turn its
\* worker has in hand stay in step through every interleaving and crash.
THEOREM FamilyInvariant == Spec => []Inv
<1>1. Init => Inv
  BY InitInv
<1>2. Inv /\ [Next]_vars => Inv'
  BY InvKept
<1>3. QED
  BY <1>1, <1>2, PTL DEF Spec

LEMMA InvIsTyped == Inv => TypeOK
<1> SUFFICES ASSUME Inv PROVE TypeOK
  OBVIOUS
<1>1. answered \cup cancelled \subseteq turns
  BY DEF Inv, HistoryOK, StoreOK
<1>2. QED
  BY <1>1 DEF Inv, ChildOK, StoreOK, ProcessOK, WorkerOK, LockOK, HistoryOK, Made, Distinct,
     Queued, Busy, TypeOK

\* The state is well-typed: one run at a time in the child, and in the parent's
\* queue no notification twice.
THEOREM FamilyTypes == Spec => []TypeOK
<1>1. Inv => TypeOK
  BY InvIsTyped
<1>2. QED
  BY <1>1, FamilyInvariant, PTL

\* A notification whose run ended with a reply is not run again: whoever queued
\* another copy of it, and wherever the server stopped.
THEOREM NotDeliveredTwice == Spec => []DeliveredOnce
<1>1. Inv => DeliveredOnce
  BY DEF Inv, WorkerOK, DeliveredOnce
<1>2. QED
  BY <1>1, FamilyInvariant, PTL

\* Nothing of the outbox is given up but for a reply, or for a run that the
\* user cancelled before it could give one.
THEOREM NotAcknowledgedEarly == Spec => []AcknowledgedIsAnswered
<1>1. Inv => AcknowledgedIsAnswered
  <2> SUFFICES ASSUME Inv PROVE AcknowledgedIsAnswered
    OBVIOUS
  <2>1. ASSUME NEW i \in 1 .. made, outbox[i] # Unmade, ~outbox[i].pending
        PROVE  i \in replied \cup cancelled
    <3>1. i \in Recs /\ outbox[i] \in Record
      BY BoundAssumption DEF Inv, ChildOK, Recs, Outbox, Record
    <3>2. outbox[i].gen # NoGen
      BY <2>1, <3>1 DEF Record, Unmade
    <3>3. QED
      BY <2>1, <3>1, <3>2 DEF Inv, AcknowledgedOK, Delivered
  <2>2. QED
    BY <2>1 DEF AcknowledgedIsAnswered
<1>2. QED
  BY <1>1, FamilyInvariant, PTL

-----------------------------------------------------------------------------
(* Nothing is stranded: who still looks after what the child owes, and     *)
(* after what waits in its outbox.                                         *)

\* Who waits to reconcile, or does, is at that point of its publication.
LockedOK ==
    /\ \A p \in Publishers : p \in want \/ rec.who = p => at[p] = "notify"
    /\ rec.who \in Publishers => rec.who \notin want
    /\ rec.who = NoOne => rec = Unlocked

NoRecordOf(g, o) == \A i \in Recs : o[i].gen # g

\* What is owed has no completion yet, and a prompt not made yet owes none.
FreshOK ==
    /\ \A g \in Gens : at[g] = "new" =>
          /\ owed # g /\ loaded.owed # g
          /\ \A p \in Publishers : pub[p] # g
          /\ NoRecordOf(g, outbox) /\ NoRecordOf(g, loaded.outbox)
    /\ owed # NoGen => NoRecordOf(owed, outbox)
    /\ loaded.owed # NoGen => NoRecordOf(loaded.owed, loaded.outbox)

\* Some prompt or publisher is still to publish what the child owes.
InHand == {"marked", "waiting", "queued", "init", "run", "over", "deferred"}
Publishing == {"idle", "check", "mark"}
Current(p) == owed # NoGen /\ pub[p] = owed
Attended ==
    \E p \in Publishers : at[p] \in InHand \/ (at[p] \in Publishing /\ Current(p))

\* Some prompt or publisher is still to ask that the parent be reconciled: a
\* prompt that is still to run, or the teardown of a direct one, which goes on
\* to reconcile, or to publish, unless the child becomes active again.
ToRun == {"marked", "waiting", "queued", "init", "run"}
Lingers == \E g \in steered : at[g] = "over"
WillAsk(p) ==
    \/ at[p] \in ToRun
    \/ at[p] = "deferred" /\ p \notin steered
    \/ at[p] = "idle" /\ p \notin steered /\ Current(p)
    \/ at[p] \in {"check", "mark"} /\ p \notin steered /\ Current(p) /\ ~Lingers
Asked == \E p \in Publishers : WillAsk(p)

Expected(i) ==
    Asked \/ want # {} \/ worker.at # "off" \/ prun # "none" \/ i \in rec.pending

Unhurt == ~failed /\ ~skipped
OwedOK == ~failed /\ owed # NoGen => Attended
ActiveOK == Unhurt /\ rec.active => worker.at # "off" \/ "worker" \in want
ExpectedOK == Unhurt => \A i \in Pending : Expected(i)

CareInv == /\ Inv /\ LockedOK /\ FreshOK
           /\ OwedOK /\ ActiveOK /\ ExpectedOK

LEMMA InitCare == Init => CareInv
<1> SUFFICES ASSUME Init PROVE CareInv
  OBVIOUS
<1>1. Inv
  BY InitInv
<1>2. LockedOK
  BY NameAssumption DEF Init, LockedOK, Unlocked, Reconcilers
<1>3. FreshOK
  BY NameAssumption DEF Init, FreshOK, NoRecordOf, NoRow, Unmade
<1>4. OwedOK /\ ActiveOK
  BY DEF Init, OwedOK, ActiveOK, Unlocked
<1>5. ExpectedOK
  BY DEF Init, ExpectedOK, Pending, Unmade
<1>6. QED
  BY <1>1, <1>2, <1>3, <1>4, <1>5 DEF CareInv

\* A publication that is over leaves the others where they are.
LEMMA PublishesMoves ==
    ASSUME ProcessOK, NEW p \in Publishers, Publishes(p)
    PROVE  /\ \A q \in Publishers : q # p => at'[q] = at[q] /\ pub'[q] = pub[q]
           /\ \/ at'[p] = "done" /\ pub'[p] = NoGen
              \/ p \in Gens /\ at'[p] = "check" /\ pub'[p] = p
  BY DEF ProcessOK, Publishes

LEMMA NotifiesMoves ==
    ASSUME ProcessOK, NEW p \in Publishers, Notifies(p)
    PROVE  /\ \A q \in Publishers : q # p => at'[q] = at[q] /\ pub'[q] = pub[q]
           /\ at'[p] = "notify" /\ pub'[p] = NoGen
           /\ want' = want \cup {p}
  BY DEF ProcessOK, Notifies, Goes

Teardown == Teardowns \cup Others

LEMMA LockedKept ==
    ASSUME Inv, LockedOK, Next
    PROVE  LockedOK'
<1>1. /\ ProcessOK /\ want \subseteq Reconcilers /\ rec.who \in Reconcilers \cup {NoOne}
      /\ \A p \in Publishers : p \in want \/ rec.who = p => at[p] = "notify"
      /\ rec.who \in Publishers => rec.who \notin want
      /\ rec.who = NoOne => rec = Unlocked
      /\ at \in [Publishers -> PromptPoints \cup PublishPoints]
  BY DEF Inv, LockOK, LockedOK, ProcessOK
<1>2. ASSUME rec' = rec,
             \A p \in Publishers :
                 p \in want' => p \in want \/ (at[p] # "notify" /\ at'[p] = "notify"),
             \A p \in Publishers : at[p] = "notify" => at'[p] = "notify"
      PROVE  LockedOK'
  BY <1>1, <1>2 DEF LockedOK
<1>3. \A p \in Publishers : p \notin Teardown /\ p # NoOne
  BY NameAssumption DEF Teardown, Reconcilers, Others
<1>4. CASE Child
  <2>1. rec' = rec /\ want' \subseteq want \cup {"child"}
    BY <1>4 DEF Child, MarkOwed, Enqueue, EnterPrompt, WriteBack, PromptFails, EndPrompt,
       ReleaseWorker, AbortChild, lockVars
  <2>2. ASSUME NEW p \in Publishers, at[p] = "notify" PROVE at'[p] = "notify"
    <3>1. CASE ReleaseWorker
      BY <1>1, <2>2, <3>1 DEF ReleaseWorker
    <3>2. CASE AbortChild
      BY <1>1, <2>2, <3>2 DEF AbortChild, Goes
    <3>3. ASSUME NEW g \in Gens, MarkOwed(g) \/ Enqueue(g) \/ EnterPrompt(g) \/ WriteBack(g)
                                 \/ PromptFails(g) \/ EndPrompt(g)
          PROVE  at'[p] = "notify"
      BY <1>1, <2>2, <3>3 DEF MarkOwed, Enqueue, EnterPrompt, WriteBack, PromptFails,
         EndPrompt, Goes
    <3>4. QED
      BY <1>4, <3>1, <3>2, <3>3 DEF Child
  <2>3. QED
    BY <1>2, <1>3, <2>1, <2>2 DEF Teardown, Others
<1>5. CASE Publication
  <2>1. PICK p \in Publishers : \/ ReadOwed(p) \/ SeeIdle(p) \/ SeeIdleAgain(p)
                                \/ mark_subtask_completion_pending(p) \/ MarkFails(p)
    BY <1>5 DEF Publication
  <2>2. rec' = rec /\ at[p] # "notify"
    BY <2>1 DEF ReadOwed, SeeIdle, SeeIdleAgain, mark_subtask_completion_pending, MarkFails,
       lockVars
  <2>3. CASE UNCHANGED want /\ Goes(p, "idle")
    BY <1>1, <1>2, <2>2, <2>3 DEF Goes
  <2>4. CASE Notifies(p)
    BY <1>1, <1>2, <2>2, <2>4, NotifiesMoves
  <2>5. CASE Publishes(p) /\ UNCHANGED want
    BY <1>1, <1>2, <2>2, <2>5, PublishesMoves
  <2>6. CASE UNCHANGED want /\ (Goes(p, "check") \/ Goes(p, "mark"))
    BY <1>1, <1>2, <2>2, <2>6 DEF Goes
  <2>7. QED
    BY <2>1, <2>3, <2>4, <2>5, <2>6
       DEF ReadOwed, SeeIdle, PassesOver, SeeIdleAgain, mark_subtask_completion_pending,
           MarkFails, lockVars
<1>6. CASE Reconciliation
  <2>1. ASSUME NEW x, x \in Publishers => x \notin want', want' \subseteq want,
               \A p \in Publishers : p # x => at'[p] = at[p],
               rec' = Unlocked
        PROVE  LockedOK'
    BY <1>1, <1>3, <2>1 DEF LockedOK, Unlocked
  <2>2. ASSUME NEW x, NEW left, Leaves(x, left)
        PROVE  /\ \A p \in Publishers : p # x => at'[p] = at[p]
               /\ rec' = Unlocked \/ (left # {} /\ at' = at /\ rec' = [rec EXCEPT !.pending = left])
    BY <1>1, <2>2, PublishesMoves DEF Leaves
  <2>3. ASSUME NEW x \in Reconcilers, Reconcile(x) PROVE LockedOK'
    <3>1. want' = want \ {x} /\ rec.who = NoOne
      BY <2>3 DEF Reconcile
    <3>2. CASE Leaves(x, {})
      BY <2>1, <2>2, <3>1, <3>2
    <3>3. CASE /\ at' = at
               /\ rec' = [Unlocked EXCEPT !.who = x, !.at = "read", !.pending = Pending,
                                          !.active = worker.at # "off"]
      <4>1. rec'.who = x
        BY <3>3, Zenon DEF Unlocked
      <4>2. x # NoOne
        BY NameAssumption
      <4>3. x \in want
        BY <2>3 DEF Reconcile
      <4>4. QED
        BY <1>1, <3>1, <3>3, <4>1, <4>2, <4>3 DEF LockedOK
    <3>4. QED
      BY <2>3, <3>2, <3>3 DEF Reconcile
  <2>4. CASE SeeTranscript
    <3>1. rec'.who = rec.who /\ at' = at /\ want' = want /\ rec.at = "read"
      BY <2>4 DEF SeeTranscript, promptVars, Inv, LockOK
    <3>2. rec.who # NoOne
      BY <1>1, <3>1 DEF Unlocked
    <3>3. QED
      BY <1>1, <3>1, <3>2 DEF LockedOK
  <2>5. ASSUME NEW left, Leaves(rec.who, left), want' = want, rec.who # NoOne
        PROVE  LockedOK'
    <3>1. CASE rec' = Unlocked
      BY <1>1, <2>1, <2>2, <2>5, <3>1
    <3>2. CASE at' = at /\ rec' = [rec EXCEPT !.pending = left]
      <4>1. rec'.who = rec.who
        BY <3>2 DEF Inv, LockOK
      <4>2. QED
        BY <1>1, <2>5, <3>2, <4>1 DEF LockedOK
    <3>3. QED
      BY <2>2, <2>5, <3>1, <3>2
  <2>6. ASSUME NEW i \in Recs, Settle(i) PROVE LockedOK'
    <3>1. Leaves(rec.who, rec.pending \ {i}) /\ want' = want /\ rec.at = "each"
      BY <2>6 DEF Settle
    <3>2. rec.who # NoOne
      BY <1>1, <3>1 DEF Unlocked
    <3>3. QED
      BY <2>5, <3>1, <3>2
  <2>7. CASE ReconcileFails
    BY <2>5, <2>7 DEF ReconcileFails
  <2>8. QED
    BY <1>6, <2>3, <2>4, <2>6, <2>7 DEF Reconciliation
<1>7. CASE Parent
  <2>1. at' = at /\ rec' = rec
    BY <1>7 DEF Parent, WorkerPeeks, SaveTurn, AdmissionFails, Handoff, Reply, DrainRow,
       EndTurn, TurnFails, AcknowledgeTurn, AcknowledgementFails, FailedTurn, UserPrompts,
       UserTurnEnds, UserTurnFails, promptVars, lockVars
  <2>2. want' \subseteq want \cup {"run", "user", "worker"}
    BY <1>7 DEF Parent, WorkerPeeks, SaveTurn, AdmissionFails, Handoff, Reply, DrainRow,
       EndTurn, TurnFails, AcknowledgeTurn, AcknowledgementFails, FailedTurn, UserPrompts,
       UserTurnEnds, UserTurnFails, lockVars
  <2>3. QED
    BY <1>2, <1>3, <2>1, <2>2 DEF Teardown, Teardowns, Others
<1>8. CASE Restart
  BY <1>3, <1>8 DEF Restart, LockedOK, Unlocked, Teardown, Others
<1>9. QED
  BY <1>4, <1>5, <1>6, <1>7, <1>8 DEF Next

-----------------------------------------------------------------------------

\* No prompt becomes new, and a publisher takes up what is owed or its own.
LEMMA PublisherSteps ==
    ASSUME Inv, LockedOK, Next
    PROVE  /\ \A g \in Gens : at'[g] = "new" => at[g] = "new"
           /\ \A p \in Publishers : \/ pub'[p] \in {pub[p], NoGen, owed}
                                    \/ p \in Gens /\ at[p] # "new" /\ pub'[p] = p
<1> DEFINE Goal == /\ \A g \in Gens : at'[g] = "new" => at[g] = "new"
                   /\ \A p \in Publishers : \/ pub'[p] \in {pub[p], NoGen, owed}
                                            \/ p \in Gens /\ at[p] # "new" /\ pub'[p] = p
<1>1. /\ ProcessOK /\ at \in [Publishers -> PromptPoints \cup PublishPoints]
      /\ pub \in [Publishers -> Gens \cup {NoGen}] /\ Gens \subseteq Publishers
  BY DEF Inv, ProcessOK, Publishers
<1>2. ASSUME NEW p \in Publishers, Publishes(p), at[p] # "new" PROVE Goal
  BY <1>1, <1>2, PublishesMoves
<1>3. ASSUME NEW p \in Publishers, NEW point, Goes(p, point), point # "new",
             pub' = pub \/ pub' = [pub EXCEPT ![p] = NoGen] \/ pub' = [pub EXCEPT ![p] = owed]
      PROVE  Goal
  BY <1>1, <1>3 DEF Goes
<1>4. CASE Child
  <2>1. CASE ReleaseWorker
    BY <1>1, <2>1 DEF ReleaseWorker
  <2>2. CASE AbortChild
    BY <1>1, <2>2 DEF AbortChild, Goes
  <2>3. ASSUME NEW g \in Gens, MarkOwed(g) \/ Enqueue(g) \/ WriteBack(g) \/ EndPrompt(g)
        PROVE  Goal
    BY <1>1, <2>3 DEF MarkOwed, Enqueue, WriteBack, EndPrompt, Goes
  <2>4. ASSUME NEW g \in Gens, EnterPrompt(g) \/ PromptFails(g) PROVE Goal
    BY <1>1, <2>4 DEF EnterPrompt, PromptFails, Goes
  <2>5. QED
    BY <1>4, <2>1, <2>2, <2>3, <2>4 DEF Child
<1>5. CASE Publication
  <2>1. PICK p \in Publishers : \/ ReadOwed(p) \/ SeeIdle(p) \/ SeeIdleAgain(p)
                                \/ mark_subtask_completion_pending(p) \/ MarkFails(p)
    BY <1>5 DEF Publication
  <2>2. at[p] # "new"
    BY <2>1 DEF ReadOwed, SeeIdle, SeeIdleAgain, mark_subtask_completion_pending, MarkFails
  <2>3. CASE pub' = [pub EXCEPT ![p] = owed] /\ Goes(p, "idle")
    BY <1>3, <2>3
  <2>4. CASE Publishes(p)
    BY <1>2, <2>2, <2>4
  <2>5. CASE Notifies(p)
    BY <1>3, <2>5 DEF Notifies
  <2>6. CASE UNCHANGED pub /\ (Goes(p, "check") \/ Goes(p, "mark"))
    BY <1>3, <2>6
  <2>7. QED
    BY <2>1, <2>3, <2>4, <2>5, <2>6
       DEF ReadOwed, SeeIdle, PassesOver, SeeIdleAgain, mark_subtask_completion_pending,
           MarkFails
<1>6. CASE Reconciliation
  <2>1. ASSUME NEW x, NEW left, Leaves(x, left), x \in Publishers => at[x] # "new"
        PROVE  Goal
    BY <1>2, <2>1 DEF Leaves
  <2>2. \A p \in Publishers : p \in want \/ rec.who = p => at[p] = "notify"
    BY DEF LockedOK
  <2>3. CASE UNCHANGED <<at, pub>>
    BY <2>3
  <2>4. QED
    BY <1>6, <2>1, <2>2, <2>3
       DEF Reconciliation, Reconcile, SeeTranscript, ReconcileFails, Settle, promptVars
<1>7. CASE Parent
  BY <1>7 DEF Parent, WorkerPeeks, SaveTurn, AdmissionFails, Handoff, Reply, DrainRow,
     EndTurn, TurnFails, AcknowledgeTurn, AcknowledgementFails, FailedTurn, UserPrompts,
     UserTurnEnds, UserTurnFails, promptVars
<1>8. CASE Restart
  BY <1>1, <1>8 DEF Restart
<1>9. QED
  BY <1>4, <1>5, <1>6, <1>7, <1>8 DEF Next

LEMMA FreshKept ==
    ASSUME Inv, LockedOK, FreshOK, Next
    PROVE  FreshOK'
<1> DEFINE Row(g, row) == row.owed # g /\ NoRecordOf(g, row.outbox)
           Kept(row) == row.owed # NoGen => NoRecordOf(row.owed, row.outbox)
           Now == [owed |-> owed, outbox |-> outbox]
           Then == [owed |-> owed', outbox |-> outbox']
<1>1. /\ \A g \in Gens : at[g] = "new" => /\ Row(g, Now) /\ Row(g, loaded)
                                          /\ \A p \in Publishers : pub[p] # g
      /\ Kept(Now) /\ Kept(loaded)
  BY DEF FreshOK
<1>2. /\ \A g \in Gens : at'[g] = "new" => Row(g, Then) /\ Row(g, loaded')
      /\ Kept(Then) /\ Kept(loaded')
      => FreshOK'
  <2>1. ASSUME NEW g \in Gens, at'[g] = "new", Row(g, Then), NEW p \in Publishers
        PROVE  pub'[p] # g
    BY <1>1, <2>1, NameAssumption, PublisherSteps
  <2>2. QED
    BY <2>1 DEF FreshOK, NoRecordOf
<1>3. \A g \in Gens : at'[g] = "new" => at[g] = "new"
  BY PublisherSteps
<1>4. (\A g \in Gens : Row(g, NoRow)) /\ Kept(NoRow)
  BY NameAssumption DEF NoRow, NoRecordOf, Unmade
<1>5. ASSUME Then = Now \/ Then = loaded, loaded' \in {loaded, Now, NoRow}
      PROVE  FreshOK'
  BY <1>1, <1>2, <1>3, <1>4, <1>5
<1>6. /\ owed \in Gens \cup {NoGen} /\ outbox \in Outbox
      /\ loaded \in [owed : Gens \cup {NoGen}, outbox : Outbox]
      /\ at \in [Publishers -> PromptPoints \cup PublishPoints] /\ Gens \subseteq Publishers
  BY DEF Inv, ChildOK, ProcessOK, Publishers
<1>7. CASE UNCHANGED ChildVars
  BY <1>5, <1>7 DEF ChildVars
<1>8. ASSUME NEW g \in Gens, MarkOwed(g) PROVE FreshOK'
  <2>1. at[g] = "new" /\ at'[g] # "new" /\ owed' = g /\ outbox' = outbox /\ loaded' = loaded
    BY <1>6, <1>8 DEF MarkOwed, Goes
  <2>2. Kept(Then)
    BY <1>1, <2>1
  <2>3. \A h \in Gens : at'[h] = "new" => h # g
    BY <2>1
  <2>4. QED
    BY <1>1, <1>2, <1>3, <2>1, <2>2, <2>3
<1>9. ASSUME NEW g \in Gens, EnterPrompt(g) \/ PromptFails(g) PROVE FreshOK'
  BY <1>5, <1>9 DEF EnterPrompt, PromptFails, childVars
<1>10. ASSUME NEW g \in Gens, WriteBack(g) PROVE FreshOK'
  <2>1. Then = loaded /\ loaded' = NoRow
    BY <1>6, <1>10 DEF WriteBack
  <2>2. QED
    BY <1>5, <2>1
<1>11. ASSUME NEW o \in Outbox, \A i \in Recs : o[i].gen = outbox[i].gen,
              owed' = owed, outbox' = o, loaded' = loaded
       PROVE  FreshOK'
  BY <1>1, <1>2, <1>3, <1>11 DEF NoRecordOf
<1>12. ASSUME NEW i \in Recs, Settle(i) PROVE FreshOK'
  BY <1>5, <1>11, <1>12, AcknowledgedTyped DEF Settle, Inv
<1>13. CASE AcknowledgeTurn
  <2>1. worker.id \in Recs
    BY <1>13, BoundAssumption DEF Inv, ChildOK, WorkerOK, Busy, AcknowledgeTurn, Recs
  <2>2. QED
    BY <1>11, <1>13, <2>1, AcknowledgedTyped DEF AcknowledgeTurn, promptVars, Inv
<1>14. ASSUME NEW p \in Publishers, mark_subtask_completion_pending(p) PROVE FreshOK'
  <2>1. loaded' = loaded
    BY <1>14 DEF mark_subtask_completion_pending
  <2>2. CASE owed' = owed /\ outbox' = outbox
    BY <1>5, <2>1, <2>2
  <2>3. CASE owed' = NoGen /\ outbox' = outbox
    BY <1>1, <1>2, <1>3, <2>1, <2>3, NameAssumption
  <2>4. CASE /\ owed' = NoGen /\ made < MaxRec
             /\ outbox' = [outbox EXCEPT ![made + 1] = [gen |-> pub[p], pending |-> TRUE]]
    <3>1. \A i \in Recs : outbox'[i].gen \in {outbox[i].gen, pub[p]}
      BY <1>6, <2>4 DEF Outbox
    <3>2. \A g \in Gens : at'[g] = "new" => NoRecordOf(g, outbox')
      BY <1>1, <1>3, <3>1 DEF NoRecordOf
    <3>3. QED
      BY <1>1, <1>2, <1>3, <2>1, <2>4, <3>2, NameAssumption
  <2>5. QED
    BY <1>14, <2>2, <2>3, <2>4 DEF mark_subtask_completion_pending, childVars
<1>15. CASE Restart
  BY <1>5, <1>15 DEF Restart, childVars
<1>16. QED
  BY <1>7, <1>8, <1>9, <1>10, <1>12, <1>13, <1>14, <1>15, ChildFrame

-----------------------------------------------------------------------------

LEMMA FailureLasts ==
    ASSUME Next
    PROVE  failed' = failed \/ failed' = TRUE \/ Restart
<1>1. CASE Child
  BY <1>1 DEF Child, MarkOwed, Enqueue, EnterPrompt, WriteBack, PromptFails, EndPrompt,
     ReleaseWorker, AbortChild, Fails
<1>2. CASE Publication
  BY <1>2 DEF Publication, ReadOwed, SeeIdle, SeeIdleAgain, MarkFails, Fails,
     mark_subtask_completion_pending
<1>3. CASE Reconciliation
  BY <1>3 DEF Reconciliation, Reconcile, SeeTranscript, ReconcileFails, Settle, Fails
<1>4. CASE Parent
  BY <1>4 DEF Parent, WorkerPeeks, SaveTurn, AdmissionFails, Handoff, Reply, DrainRow,
     EndTurn, TurnFails, AcknowledgeTurn, AcknowledgementFails, FailedTurn,
     UserPrompts, UserTurnEnds, UserTurnFails, Fails
<1>5. QED
  BY <1>1, <1>2, <1>3, <1>4 DEF Next

\* Every step of a prompt of the child leaves one in hand.
LEMMA ChildAttends ==
    ASSUME Inv, Child, ~failed'
    PROVE  Attended'
<1>1. /\ at \in [Publishers -> PromptPoints \cup PublishPoints]
      /\ Gens \subseteq Publishers /\ Hook \in Publishers
  BY DEF Inv, ProcessOK, Publishers
<1>2. ASSUME NEW p \in Publishers, at'[p] \in InHand PROVE Attended'
  BY <1>2 DEF Attended
<1>3. CASE ReleaseWorker
  <2>1. PICK g \in steered : at'[g] = "deferred"
    BY <1>1, <1>3 DEF ReleaseWorker, Inv, ProcessOK
  <2>2. QED
    BY <1>1, <1>2, <2>1 DEF InHand, Inv, ProcessOK
<1>4. CASE AbortChild
  BY <1>1, <1>2, <1>4 DEF AbortChild, Goes, InHand
<1>5. ASSUME NEW g \in Gens, MarkOwed(g) \/ Enqueue(g) \/ WriteBack(g) \/ EndPrompt(g)
      PROVE  Attended'
  BY <1>1, <1>2, <1>5 DEF MarkOwed, Enqueue, WriteBack, EndPrompt, Goes, InHand
<1>6. ASSUME NEW g \in Gens, EnterPrompt(g) PROVE Attended'
  <2>1. CASE Goes(g, "init")
    BY <1>1, <1>2, <2>1 DEF Goes, InHand
  <2>2. CASE at[g] = "waiting" /\ Running /\ Goes(g, "check")
    <3>1. PICK h \in Gens : at[h] = "run"
      BY <2>2 DEF Running
    <3>2. at'[h] = "run"
      BY <1>1, <2>2, <3>1 DEF Goes
    <3>3. QED
      BY <1>1, <1>2, <3>2 DEF InHand
  <2>3. QED
    BY <1>6, <2>1, <2>2 DEF EnterPrompt
<1>7. ASSUME NEW g \in Gens, PromptFails(g) PROVE FALSE
  BY <1>7 DEF PromptFails, Fails
<1>8. QED
  BY <1>3, <1>4, <1>5, <1>6, <1>7 DEF Child

\* Outside the child, what it owes changes only when it is recorded.
LEMMA OwedElsewhere ==
    ASSUME Next, ~Child
    PROVE  \/ UNCHANGED owed
           \/ owed' = NoGen /\ \E p \in Publishers : mark_subtask_completion_pending(p)
<1>1. CASE Publication
  BY <1>1 DEF Publication, ReadOwed, SeeIdle, SeeIdleAgain, MarkFails,
     mark_subtask_completion_pending, childVars
<1>2. CASE Reconciliation
  BY <1>2 DEF Reconciliation, Reconcile, SeeTranscript, ReconcileFails, Settle, childVars
<1>3. CASE Parent
  BY <1>3 DEF Parent, WorkerPeeks, SaveTurn, AdmissionFails, Handoff, Reply, DrainRow,
     EndTurn, TurnFails, AcknowledgeTurn, AcknowledgementFails, FailedTurn, UserPrompts,
     UserTurnEnds, UserTurnFails, childVars
<1>4. CASE Restart
  BY <1>4 DEF Restart, childVars
<1>5. QED
  BY <1>1, <1>2, <1>3, <1>4 DEF Next

\* Who attends goes on, or leaves the rest to another, while something is owed.
LEMMA AttendedStep ==
    ASSUME Inv, LockedOK, FreshOK, Next, Attended, ~failed', owed' # NoGen
    PROVE  Attended'
<1> USE DEF Current
<1> DEFINE Attends(p) == \/ at[p] \in InHand
                         \/ at[p] \in Publishing /\ owed # NoGen /\ pub[p] = owed
<1>1. /\ ProcessOK /\ at \in [Publishers -> PromptPoints \cup PublishPoints]
      /\ pub \in [Publishers -> Gens \cup {NoGen}]
      /\ Gens \subseteq Publishers /\ Hook \in Publishers
  BY DEF Inv, ProcessOK, Publishers
<1>2. PICK p \in Publishers : Attends(p)
  BY DEF Attended
<1>3. ASSUME NEW q \in Publishers, at'[q] \in InHand PROVE Attended'
  BY <1>3 DEF Attended
<1>4. ASSUME NEW q \in Publishers, Attends(q), at'[q] = at[q], pub'[q] = pub[q], owed' = owed
      PROVE  Attended'
  BY <1>4 DEF Attended
<1>5. ASSUME NEW q \in Publishers, at[q] \in Publishing, subtask_has_active_work,
             \A r \in Publishers : r # q => at'[r] = at[r]
      PROVE  Attended'
  <2>1. PICK g \in Gens : at[g] \in {"run", "queued", "init", "over"}
    BY <1>1, <1>5 DEF subtask_has_active_work, Running, ProcessOK
  <2>2. g # q
    BY <1>5, <2>1 DEF Publishing
  <2>3. QED
    BY <1>1, <1>3, <1>5, <2>1, <2>2 DEF InHand
<1>6. CASE Publication
  <2>1. PICK q \in Publishers : \/ ReadOwed(q) \/ SeeIdle(q) \/ SeeIdleAgain(q)
                                \/ mark_subtask_completion_pending(q) \/ MarkFails(q)
    BY <1>6 DEF Publication
  <2>2. \A r \in Publishers : r # q => at'[r] = at[r] /\ pub'[r] = pub[r]
    BY <1>1, <2>1, PublishesMoves, NotifiesMoves
       DEF ReadOwed, SeeIdle, PassesOver, SeeIdleAgain, mark_subtask_completion_pending,
           MarkFails, Goes
  <2>3. CASE ReadOwed(q)
    <3>1. owed' = owed
      BY <2>3 DEF ReadOwed, childVars
    <3>3. CASE owed = NoGen
      BY <3>1, <3>3
    <3>4. CASE owed # NoGen
      <4>1. at'[q] = "idle" /\ pub'[q] = owed
        BY <1>1, <2>3, <3>4 DEF ReadOwed, Goes
      <4>2. QED
        BY <3>1, <3>4, <4>1 DEF Attended, Publishing
    <3>5. QED
      BY <3>3, <3>4
  <2>4. CASE SeeIdle(q) \/ SeeIdleAgain(q)
    <3>1. owed' = owed /\ at[q] \in {"idle", "check"}
      BY <2>4 DEF SeeIdle, SeeIdleAgain, childVars
    <3>2. CASE p # q
      BY <1>2, <1>4, <2>2, <3>1, <3>2
    <3>3. CASE subtask_has_active_work
      BY <1>5, <2>2, <3>1, <3>3 DEF Publishing
    <3>4. CASE p = q /\ ~subtask_has_active_work
      <4>1. at'[q] \in Publishing /\ pub'[q] = pub[q]
        BY <1>1, <2>4, <3>4 DEF SeeIdle, SeeIdleAgain, Goes, Publishing
      <4>2. owed # NoGen /\ pub[q] = owed
        BY <1>2, <3>1, <3>4 DEF InHand
      <4>3. QED
        BY <3>1, <4>1, <4>2 DEF Attended
    <3>5. QED
      BY <3>2, <3>3, <3>4
  <2>5. CASE mark_subtask_completion_pending(q)
    <3>1. at[q] = "mark"
      BY <2>5 DEF mark_subtask_completion_pending
    <3>2. owed # NoGen => RecordsOf(owed) = {}
      BY DEF FreshOK, NoRecordOf, RecordsOf
    <3>3. CASE owed = pub[q] /\ owed # NoGen
      BY <2>5, <3>2, <3>3 DEF mark_subtask_completion_pending
    <3>4. CASE owed # pub[q] \/ owed = NoGen
      <4>1. p # q
        BY <1>2, <3>1, <3>4 DEF InHand
      <4>2. CASE at[p] \in InHand
        BY <1>3, <2>2, <4>1, <4>2
      <4>3. CASE owed # NoGen /\ owed # pub[q]
        BY <1>2, <1>4, <2>2, <2>5, <4>1, <4>3 DEF mark_subtask_completion_pending, childVars
      <4>4. QED
        BY <1>2, <3>4, <4>2, <4>3
    <3>5. QED
      BY <3>3, <3>4
  <2>6. CASE MarkFails(q)
    BY <2>6 DEF MarkFails, Fails
  <2>7. QED
    BY <2>1, <2>3, <2>4, <2>5, <2>6
<1>7. CASE Reconciliation
  <2>1. at[p] # "notify" /\ owed' = owed
    BY <1>2, <1>7 DEF InHand, Publishing, Reconciliation, Reconcile, SeeTranscript,
       ReconcileFails, Settle, childVars
  <2>2. ASSUME NEW x, NEW left, Leaves(x, left), x \in Publishers => at[x] = "notify"
        PROVE  at'[p] = at[p] /\ pub'[p] = pub[p]
    BY <1>1, <2>1, <2>2, PublishesMoves DEF Leaves
  <2>3. at'[p] = at[p] /\ pub'[p] = pub[p]
    <3>1. \A x \in Publishers : x \in want \/ rec.who = x => at[x] = "notify"
      BY DEF LockedOK
    <3>2. QED
      BY <1>7, <2>2, <3>1
         DEF Reconciliation, Reconcile, SeeTranscript, ReconcileFails, Settle, promptVars
  <2>4. QED
    BY <1>2, <1>4, <2>1, <2>3
<1>8. CASE Parent
  <2>1. UNCHANGED <<at, pub, owed>>
    BY <1>8 DEF Parent, WorkerPeeks, SaveTurn, AdmissionFails, Handoff, Reply, DrainRow,
       EndTurn, TurnFails, AcknowledgeTurn, AcknowledgementFails, FailedTurn, UserPrompts,
       UserTurnEnds, UserTurnFails, promptVars, childVars
  <2>2. QED
    BY <1>2, <1>4, <2>1
<1>9. CASE Restart
  BY <1>1, <1>3, <1>9 DEF Restart, InHand
<1>10. QED
  BY <1>6, <1>7, <1>8, <1>9, ChildAttends DEF Next

LEMMA OwedKept ==
    ASSUME Inv, LockedOK, FreshOK, OwedOK, Next
    PROVE  OwedOK'
<1> SUFFICES ASSUME ~failed', owed' # NoGen PROVE Attended'
  BY DEF OwedOK
<1>1. CASE Restart
  BY <1>1 DEF Restart, Attended, InHand, Publishers
<1>2. CASE Child
  BY <1>2, ChildAttends
<1>3. CASE ~Child /\ ~Restart
  <2>1. ~failed /\ owed # NoGen
    BY <1>3, FailureLasts, OwedElsewhere DEF Inv, HistoryOK
  <2>2. QED
    BY <2>1, AttendedStep DEF OwedOK
<1>4. QED
  BY <1>1, <1>2, <1>3

\* Every step of a prompt of the child leaves one that will ask, or asks; the
\* end of the child's worker leaves those that there are.
LEMMA ChildAsks ==
    ASSUME Inv, Child, ~ReleaseWorker, ~failed'
    PROVE  Asked' \/ want' # {}
<1>1. /\ at \in [Publishers -> PromptPoints \cup PublishPoints]
      /\ Gens \subseteq Publishers /\ Hook \in Publishers
  BY DEF Inv, ProcessOK, Publishers
<1>2. ASSUME NEW p \in Publishers, at'[p] \in ToRun PROVE Asked'
  BY <1>2 DEF Asked, WillAsk
<1>3. ASSUME NEW p \in Publishers, at'[p] = "deferred", p \notin steered' PROVE Asked'
  BY <1>3 DEF Asked, WillAsk
<1>4. CASE AbortChild
  <2>1. Hook \notin steered' /\ at'[Hook] = "deferred"
    BY <1>1, <1>4, NameAssumption DEF AbortChild, Goes, Inv, ProcessOK, Publishers
  <2>2. QED
    BY <1>1, <1>3, <2>1
<1>5. ASSUME NEW g \in Gens, MarkOwed(g) \/ Enqueue(g) PROVE Asked'
  BY <1>1, <1>2, <1>5 DEF MarkOwed, Enqueue, Goes, ToRun
<1>6. ASSUME NEW g \in Gens, EnterPrompt(g) \/ WriteBack(g), at'[g] \notin ToRun PROVE Asked'
  <2>1. at[g] \in {"waiting", "init"} /\ Running /\ \E point : Goes(g, point)
    BY <1>1, <1>6 DEF EnterPrompt, WriteBack, Goes, ToRun
  <2>2. PICK h \in Gens : at[h] = "run"
    BY <2>1 DEF Running
  <2>3. at'[h] = "run"
    BY <1>1, <2>1, <2>2 DEF Goes
  <2>4. QED
    BY <1>1, <1>2, <2>3 DEF ToRun
<1>7. ASSUME NEW g \in Gens, EndPrompt(g) PROVE Asked' \/ want' # {}
  <2>1. CASE g \in steered
    BY <1>7, <2>1 DEF EndPrompt
  <2>2. CASE g \notin steered
    BY <1>1, <1>3, <1>7, <2>2 DEF EndPrompt, Goes
  <2>3. QED
    BY <2>1, <2>2
<1>8. ASSUME NEW g \in Gens, PromptFails(g) PROVE FALSE
  BY <1>8 DEF PromptFails, Fails
<1>9. QED
  BY <1>1, <1>2, <1>4, <1>5, <1>6, <1>7, <1>8 DEF Child

\* Who will ask goes on, asks, or leaves it to another that will.
LEMMA AskedStep ==
    ASSUME Inv, LockedOK, FreshOK, Next, Asked, ~failed'
    PROVE  Asked' \/ want' # {}
<1>1. /\ ProcessOK /\ at \in [Publishers -> PromptPoints \cup PublishPoints]
      /\ pub \in [Publishers -> Gens \cup {NoGen}] /\ steered \subseteq Gens
      /\ Gens \subseteq Publishers
  BY DEF Inv, ProcessOK, Publishers
<1>2. PICK p \in Publishers : WillAsk(p)
  BY DEF Asked
<1>3. ASSUME NEW q \in Publishers, WillAsk(q), at'[q] = at[q], pub'[q] = pub[q],
             owed' = owed, steered' = steered, Lingers' => Lingers
      PROVE  Asked'
  BY <1>3 DEF Asked, WillAsk, Current
<1>4. at[p] \notin {"notify", "done", "over"}
  BY <1>2 DEF WillAsk, ToRun
<1>5. CASE Child
  <2>1. CASE ReleaseWorker
    <3>1. at'[p] = at[p] /\ ~Lingers'
      BY <1>1, <1>4, <2>1 DEF ReleaseWorker, Lingers
    <3>2. QED
      BY <1>2, <1>3, <2>1, <3>1 DEF ReleaseWorker, childVars
  <2>2. QED
    BY <1>5, <2>1, ChildAsks
<1>6. CASE Publication
  <2>1. PICK q \in Publishers : \/ ReadOwed(q) \/ SeeIdle(q) \/ SeeIdleAgain(q)
                                \/ mark_subtask_completion_pending(q) \/ MarkFails(q)
    BY <1>6 DEF Publication
  <2>2. \A r \in Publishers : r # q => at'[r] = at[r] /\ pub'[r] = pub[r]
    BY <1>1, <2>1, PublishesMoves, NotifiesMoves
       DEF ReadOwed, SeeIdle, PassesOver, SeeIdleAgain, mark_subtask_completion_pending,
           MarkFails, Goes
  <2>3. steered' = steered
    BY <2>1 DEF ReadOwed, SeeIdle, SeeIdleAgain, mark_subtask_completion_pending, MarkFails
  <2>4. Lingers' => Lingers
    <3>1. at'[q] # "over"
      BY <1>1, <2>1, PublishesMoves, NotifiesMoves
         DEF ReadOwed, SeeIdle, PassesOver, SeeIdleAgain, mark_subtask_completion_pending,
             MarkFails, Goes
    <3>2. QED
      BY <1>1, <2>2, <2>3, <3>1 DEF Lingers
  <2>5. CASE p # q /\ owed' = owed
    BY <1>2, <1>3, <2>2, <2>3, <2>4, <2>5
  <2>6. ASSUME p = q, PassesOver(p) PROVE want' # {}
    <3>1. p \notin steered
      BY <2>1, <2>6, <1>2 DEF ReadOwed, SeeIdle, SeeIdleAgain,
         mark_subtask_completion_pending, MarkFails, WillAsk, ToRun
    <3>2. QED
      BY <2>6, <3>1 DEF PassesOver, Notifies, Starting
  <2>7. CASE p = q /\ ReadOwed(q)
    <3>1. CASE owed = NoGen
      BY <2>6, <2>7, <3>1 DEF ReadOwed
    <3>2. CASE owed # NoGen
      <4>1. /\ at'[p] = "idle" /\ pub'[p] = owed /\ owed' = owed
            /\ at[p] = "deferred"
        BY <1>1, <2>7, <3>2 DEF ReadOwed, Goes, childVars
      <4>2. p \notin steered
        BY <1>2, <4>1 DEF WillAsk, ToRun
      <4>3. QED
        BY <2>3, <3>2, <4>1, <4>2 DEF Asked, WillAsk, Current
    <3>3. QED
      BY <3>1, <3>2
  <2>8. CASE p = q /\ SeeIdle(q)
    <3>1. CASE subtask_has_active_work
      BY <2>6, <2>8, <3>1 DEF SeeIdle
    <3>2. CASE ~subtask_has_active_work
      <4>1. /\ at[p] = "idle" /\ at'[p] = "check" /\ pub'[p] = pub[p] /\ owed' = owed
        BY <1>1, <2>8, <3>2 DEF SeeIdle, Goes, childVars
      <4>2. p \notin steered /\ Current(p)
        BY <1>2, <4>1 DEF WillAsk, ToRun
      <4>3. ~Lingers
        BY <3>2 DEF Lingers, subtask_has_active_work
      <4>4. QED
        BY <2>3, <2>4, <4>1, <4>2, <4>3 DEF Asked, WillAsk, Current
    <3>3. QED
      BY <3>1, <3>2
  <2>9. CASE p = q /\ SeeIdleAgain(q)
    <3>1. at[p] = "check" /\ owed' = owed
      BY <2>9 DEF SeeIdleAgain, childVars
    <3>2. p \notin steered /\ Current(p) /\ ~Lingers
      BY <1>2, <3>1 DEF WillAsk, ToRun
    <3>3. CASE subtask_has_active_work
      <4>1. PICK g \in Gens : at[g] \in {"run", "queued", "init"}
        BY <1>1, <3>2, <3>3 DEF subtask_has_active_work, Running, Lingers
      <4>2. at'[g] = at[g]
        BY <1>1, <2>2, <2>9, <3>1, <4>1
      <4>3. QED
        BY <1>1, <4>1, <4>2 DEF Asked, WillAsk, ToRun
    <3>4. CASE ~subtask_has_active_work
      <4>1. at'[p] = "mark" /\ pub'[p] = pub[p]
        BY <1>1, <2>9, <3>4 DEF SeeIdleAgain, Goes
      <4>2. QED
        BY <2>3, <2>4, <3>1, <3>2, <4>1 DEF Asked, WillAsk, Current
    <3>5. QED
      BY <3>3, <3>4
  <2>10. CASE mark_subtask_completion_pending(q)
    <3>1. owed # NoGen => RecordsOf(owed) = {}
      BY DEF FreshOK, NoRecordOf, RecordsOf
    <3>2. CASE owed = pub[q] /\ owed # NoGen
      BY <2>10, <3>1, <3>2 DEF mark_subtask_completion_pending, Notifies
    <3>3. CASE owed # pub[q]
      <4>1. owed' = owed /\ at[q] = "mark"
        BY <2>10, <3>3 DEF mark_subtask_completion_pending, childVars
      <4>2. p # q
        BY <1>2, <3>3, <4>1 DEF WillAsk, ToRun, Current
      <4>3. QED
        BY <2>5, <4>1, <4>2
    <3>4. CASE owed = NoGen /\ owed = pub[q]
      <4>1. p # q
        BY <1>2, <2>10, <3>4 DEF mark_subtask_completion_pending, WillAsk, ToRun, Current
      <4>2. owed' = owed
        BY <2>10, <3>4 DEF mark_subtask_completion_pending, childVars
      <4>3. QED
        BY <2>5, <4>1, <4>2
    <3>5. QED
      BY <3>2, <3>3, <3>4
  <2>11. ~MarkFails(q)
    BY DEF MarkFails, Fails
  <2>12. owed' = owed \/ mark_subtask_completion_pending(q)
    BY <2>1, <2>11 DEF ReadOwed, SeeIdle, SeeIdleAgain, childVars
  <2>13. QED
    BY <2>1, <2>5, <2>7, <2>8, <2>9, <2>10, <2>11, <2>12
<1>7. CASE Reconciliation
  <2>1. owed' = owed /\ steered' = steered
    BY <1>7 DEF Reconciliation, Reconcile, SeeTranscript, ReconcileFails, Settle, childVars,
       promptVars
  <2>2. \A x \in Publishers : x \in want \/ rec.who = x => at[x] = "notify"
    BY DEF LockedOK
  <2>3. ASSUME NEW x, NEW left, Leaves(x, left), x \in Publishers => at[x] = "notify"
        PROVE  \A r \in Publishers : \/ at'[r] = at[r] /\ pub'[r] = pub[r]
                                     \/ at[r] = "notify" /\ at'[r] # "over"
    BY <1>1, <2>3, PublishesMoves DEF Leaves
  <2>4. \A r \in Publishers : \/ at'[r] = at[r] /\ pub'[r] = pub[r]
                              \/ at[r] = "notify" /\ at'[r] # "over"
    BY <1>7, <2>2, <2>3
       DEF Reconciliation, Reconcile, SeeTranscript, ReconcileFails, Settle, promptVars
  <2>5. Lingers' => Lingers
    BY <1>1, <2>1, <2>4 DEF Lingers
  <2>6. QED
    BY <1>2, <1>3, <1>4, <2>1, <2>4, <2>5
<1>8. CASE Parent
  <2>1. UNCHANGED <<at, pub, owed, steered>>
    BY <1>8 DEF Parent, WorkerPeeks, SaveTurn, AdmissionFails, Handoff, Reply, DrainRow,
       EndTurn, TurnFails, AcknowledgeTurn, AcknowledgementFails, FailedTurn, UserPrompts,
       UserTurnEnds, UserTurnFails, promptVars, childVars
  <2>2. QED
    BY <1>2, <1>3, <2>1 DEF Lingers
<1>9. CASE Restart
  BY <1>9 DEF Restart
<1>10. QED
  BY <1>5, <1>6, <1>7, <1>8, <1>9 DEF Next

\* Asking to reconcile is lost only to a reconciliation, or to a crash.
LEMMA WantLasts ==
    ASSUME Next
    PROVE  want \subseteq want' \/ (\E x \in Reconcilers : Reconcile(x)) \/ Restart
<1>1. CASE Child
  BY <1>1 DEF Child, MarkOwed, Enqueue, EnterPrompt, WriteBack, PromptFails, EndPrompt,
     ReleaseWorker, AbortChild, lockVars
<1>2. CASE Publication
  BY <1>2 DEF Publication, ReadOwed, SeeIdle, PassesOver, SeeIdleAgain, MarkFails, Notifies,
     mark_subtask_completion_pending, lockVars
<1>3. CASE Reconciliation
  BY <1>3 DEF Reconciliation, SeeTranscript, ReconcileFails, Settle
<1>4. CASE Parent
  BY <1>4 DEF Parent, WorkerPeeks, SaveTurn, AdmissionFails, Handoff, Reply, DrainRow,
     EndTurn, TurnFails, AcknowledgeTurn, AcknowledgementFails, FailedTurn, UserPrompts,
     UserTurnEnds, UserTurnFails, lockVars
<1>5. QED
  BY <1>1, <1>2, <1>3, <1>4 DEF Next

\* A worker that goes to sleep reconciles once more, unless a prompt failed.
LEMMA WorkerLasts ==
    ASSUME Inv, Next, ~failed', ~skipped', worker.at # "off"
    PROVE  worker'.at # "off" \/ "worker" \in want' \/ Restart
<1>1. worker \in WorkerRecords(made)
  BY DEF Inv, WorkerOK, WorkerRecords
<1>2. CASE worker' = worker
  BY <1>2
<1>3. ASSUME NEW b, worker' = Awake(b) PROVE worker'.at # "off"
  BY <1>3 DEF Awake
<1>4. ASSUME NEW point \in {"save", "own", "run", "ack", "failed"}, Worker(point)
      PROVE  worker'.at # "off"
  BY <1>1, <1>4 DEF Worker, WorkerRecords
<1>5. CASE WorkerPeeks
  <2>1. CASE worker' = [worker EXCEPT !.at = "save", !.id = Head(queue)]
    <3>1. worker'.at = "save"
      BY <1>1, <2>1, Zenon DEF WorkerRecords
    <3>2. QED
      BY <3>1
  <2>2. CASE /\ want' = IF worker.failed THEN want ELSE want \cup {"worker"}
             /\ skipped' = (skipped \/ worker.failed)
    BY <2>2
  <2>3. QED
    BY <1>2, <1>5, <2>1, <2>2 DEF WorkerPeeks
<1>6. CASE SaveTurn \/ Handoff \/ EndTurn \/ TurnFails
  BY <1>3, <1>4, <1>6 DEF SaveTurn, Handoff, EndTurn, TurnFails
<1>7. CASE AcknowledgeTurn \/ AcknowledgementFails \/ FailedTurn
  BY <1>3, <1>7 DEF AcknowledgeTurn, AcknowledgementFails, FailedTurn
<1>8. CASE \E i \in Recs : Settle(i)
  BY <1>2, <1>3, <1>8 DEF Settle, Admit, Wake
<1>9. ~AdmissionFails
  BY DEF AdmissionFails, Fails
<1>10. CASE UserPrompts \/ UserTurnEnds \/ UserTurnFails \/ UNCHANGED WorkerVars
  BY <1>2, <1>10 DEF UserPrompts, UserTurnEnds, UserTurnFails, WorkerVars
<1>11. QED
  BY <1>5, <1>6, <1>7, <1>8, <1>9, <1>10, WorkerFrame

\* Only a restart, or a reconciliation while no worker is, makes up for it.
LEMMA SkippedLasts ==
    ASSUME Inv, Next, skipped, ~skipped'
    PROVE  Restart \/ (worker.at = "off" /\ \E x \in Reconcilers : Reconcile(x))
  BY SkippedFrame

LEMMA ActiveKept ==
    ASSUME Inv, LockedOK, ActiveOK, Next
    PROVE  ActiveOK'
<1> SUFFICES ASSUME ~failed', ~skipped', rec'.active
             PROVE  worker'.at # "off" \/ "worker" \in want'
  BY DEF ActiveOK, Unhurt
<1>1. rec \in Reconciliations /\ failed \in BOOLEAN
  BY DEF Inv, LockOK, Reconciliations, HistoryOK
<1>2. ~Restart
  <2>1. Unlocked.active = FALSE
    BY DEF Unlocked
  <2>2. QED
    BY <2>1 DEF Restart
<1>3. ~failed
  BY <1>1, <1>2, FailureLasts
<1>4. CASE \E x \in Reconcilers : Reconcile(x)
  <2>1. PICK x \in Reconcilers : Reconcile(x)
    BY <1>4
  <2>2. worker' = worker
    BY <2>1 DEF Reconcile, slotVars
  <2>3. rec.who = NoOne /\ rec = Unlocked
    BY <2>1 DEF Reconcile, LockedOK
  <2>4. CASE rec' = [Unlocked EXCEPT !.who = x, !.at = "read", !.pending = Pending,
                                     !.active = worker.at # "off"]
    <3>1. rec'.active = (worker.at # "off")
      BY <2>4, Zenon DEF Unlocked
    <3>2. QED
      BY <2>2, <3>1
  <2>5. CASE Leaves(x, {})
    BY <2>5 DEF Leaves, Unlocked
  <2>6. QED
    BY <2>1, <2>4, <2>5 DEF Reconcile
<1>5. CASE ~\E x \in Reconcilers : Reconcile(x)
  <2>1. rec.active
    <3>1. CASE rec' = rec
      BY <3>1
    <3>2. ASSUME NEW x, NEW left, Leaves(x, left) PROVE rec.active
      BY <1>1, <3>2 DEF Leaves, Unlocked, Reconciliations
    <3>3. CASE SeeTranscript
      BY <1>1, <3>3 DEF SeeTranscript, Reconciliations
    <3>4. CASE Reconciliation
      BY <1>5, <3>2, <3>3, <3>4 DEF Reconciliation, ReconcileFails, Settle
    <3>5. CASE Child
      BY <3>1, <3>5 DEF Child, MarkOwed, Enqueue, EnterPrompt, WriteBack, PromptFails,
         EndPrompt, ReleaseWorker, AbortChild, lockVars
    <3>6. CASE Publication
      BY <3>1, <3>6 DEF Publication, ReadOwed, SeeIdle, PassesOver, SeeIdleAgain, MarkFails, Notifies,
         mark_subtask_completion_pending, lockVars
    <3>7. CASE Parent
      BY <3>1, <3>7 DEF Parent, WorkerPeeks, SaveTurn, AdmissionFails, Handoff, Reply,
         DrainRow, EndTurn, TurnFails, AcknowledgeTurn, AcknowledgementFails, FailedTurn,
         UserPrompts, UserTurnEnds, UserTurnFails, lockVars
    <3>8. QED
      BY <1>2, <3>4, <3>5, <3>6, <3>7 DEF Next
  <2>2. worker.at # "off" \/ "worker" \in want
    BY <1>2, <1>3, <1>5, <2>1, SkippedLasts DEF ActiveOK, Unhurt
  <2>3. QED
    BY <1>2, <1>5, <2>2, WantLasts, WorkerLasts
<1>6. QED
  BY <1>4, <1>5

\* A completion that waits did so before, or its record has just been made.
LEMMA PendingSteps ==
    ASSUME Inv, Next, ~Child \/ ReleaseWorker, NEW i \in Pending'
    PROVE  i \in Pending \/ want' # {}
<1>1. i \in Recs /\ outbox'[i].pending
  BY DEF Pending
<1>2. outbox \in Outbox /\ outbox \in [Recs -> Record]
  BY DEF Inv, ChildOK, Outbox, Record
<1>3. ASSUME NEW j \in Recs, outbox' = Acknowledged(j) PROVE i \in Pending /\ i # j
  <2>1. [outbox[j] EXCEPT !.pending = FALSE].pending = FALSE
    BY <1>2 DEF Record
  <2>2. outbox'[j].pending = FALSE
    BY <1>2, <1>3, <2>1 DEF Acknowledged
  <2>3. i # j
    BY <1>1, <2>2
  <2>4. QED
    BY <1>1, <1>3, <2>3, AcknowledgedTyped DEF Inv, Pending
<1>4. CASE outbox' = outbox
  BY <1>1, <1>4 DEF Pending
<1>5. ASSUME NEW p \in Publishers, mark_subtask_completion_pending(p)
      PROVE  i \in Pending \/ want' # {}
  <2>1. outbox' = outbox \/ Notifies(p)
    BY <1>5 DEF mark_subtask_completion_pending, childVars
  <2>2. Notifies(p) => p \in want'
    BY DEF Notifies
  <2>3. QED
    BY <1>4, <2>1, <2>2
<1>6. ASSUME NEW j \in Recs, Settle(j) PROVE i \in Pending \/ want' # {}
  BY <1>3, <1>4, <1>6 DEF Settle
<1>7. CASE AcknowledgeTurn
  <2>1. worker.id \in Recs
    BY <1>7, BoundAssumption DEF Inv, ChildOK, WorkerOK, Busy, AcknowledgeTurn, Recs
  <2>2. QED
    BY <1>3, <1>7, <2>1 DEF AcknowledgeTurn
<1>8. CASE Restart \/ ReleaseWorker \/ UNCHANGED ChildVars
  BY <1>4, <1>8 DEF Restart, ReleaseWorker, ChildVars, childVars
<1>9. QED
  BY <1>5, <1>6, <1>7, <1>8, ChildFrame DEF Child

LEMMA ExpectedKept ==
    ASSUME CareInv, Next
    PROVE  ExpectedOK'
<1> SUFFICES ASSUME ~failed', ~skipped', NEW i \in Pending'
             PROVE  Asked' \/ want' # {} \/ worker'.at # "off" \/ prun' # "none"
                    \/ i \in rec'.pending
  BY DEF ExpectedOK, Expected, Unhurt
<1> USE DEF CareInv
<1>1. CASE Restart
  BY <1>1 DEF Restart
<1>2. CASE Child /\ ~ReleaseWorker
  BY <1>2, ChildAsks
<1>3. CASE ~Restart /\ (~Child \/ ReleaseWorker)
  <2>1. ~failed
    BY <1>3, FailureLasts DEF Inv, HistoryOK
  <2>2. i \in Pending \/ want' # {}
    BY <1>3, PendingSteps
  <2> SUFFICES ASSUME i \in Pending, want' = {}
               PROVE  Asked' \/ worker'.at # "off" \/ prun' # "none" \/ i \in rec'.pending
    BY <2>2
  <2>3. Asked => Asked'
    BY AskedStep
  <2>4. worker.at # "off" => worker'.at # "off"
    BY <1>3, WorkerLasts
  <2>5. ASSUME NEW x \in Reconcilers, Reconcile(x) PROVE i \in rec'.pending
    <3>1. rec' = [Unlocked EXCEPT !.who = x, !.at = "read", !.pending = Pending,
                                  !.active = worker.at # "off"]
      BY <2>5 DEF Reconcile
    <3>2. rec'.pending = Pending
      BY <3>1, Zenon DEF Unlocked
    <3>3. QED
      BY <3>2
  <2>6. CASE ~\E x \in Reconcilers : Reconcile(x)
    <3>1. want = {}
      BY <1>3, <2>6, WantLasts
    <3>6. ~skipped
      BY <1>3, <2>6, SkippedLasts
    <3>2. Asked \/ worker.at # "off" \/ prun # "none" \/ i \in rec.pending
      BY <2>1, <3>1, <3>6 DEF ExpectedOK, Expected, Unhurt
    <3>3. prun # "none" => prun' # "none" \/ worker'.at # "off"
      <4>1. CASE UNCHANGED WorkerVars
        BY <4>1 DEF WorkerVars
      <4>2. CASE EndTurn \/ TurnFails
        BY <4>2, WorkerMoves DEF EndTurn, TurnFails, Fails
      <4>3. CASE UserTurnEnds \/ UserTurnFails
        BY <4>3 DEF UserTurnEnds, UserTurnFails
      <4>4. CASE \E j \in Recs : Settle(j)
        BY <4>4 DEF Settle
      <4>5. QED
        BY <1>3, <4>1, <4>2, <4>3, <4>4, WorkerFrame
           DEF WorkerPeeks, SaveTurn, AdmissionFails, Handoff, AcknowledgeTurn,
               AcknowledgementFails, FailedTurn, UserPrompts
    <3>4. i \in rec.pending => i \in rec'.pending \/ worker'.at # "off"
      <4> SUFFICES ASSUME i \in rec.pending PROVE i \in rec'.pending \/ worker'.at # "off"
        OBVIOUS
      <4>1. rec \in Reconciliations
        BY DEF Inv, LockOK, Reconciliations
      <4>2. CASE rec' = rec
        BY <4>2
      <4>3. CASE SeeTranscript
        BY <4>1, <4>3 DEF SeeTranscript, Reconciliations
      <4>4. CASE ReconcileFails
        BY <4>4 DEF ReconcileFails, Fails
      <4>5. ASSUME NEW j \in Recs, Settle(j) PROVE i \in rec'.pending \/ worker'.at # "off"
        <5>1. CASE i # j
          BY <4>1, <4>5, <5>1 DEF Settle, Leaves, Reconciliations
        <5>2. CASE i = j
          <6>1. outbox' # Acknowledged(i)
            <7>1. i \in Recs /\ outbox \in [Recs -> Record] /\ outbox'[i].pending
              BY DEF Pending, Inv, ChildOK, Outbox, Record
            <7>2. [outbox[i] EXCEPT !.pending = FALSE].pending = FALSE
              BY <7>1 DEF Record
            <7>3. QED
              BY <7>1, <7>2 DEF Acknowledged
          <6>2. CASE rec.active /\ UNCHANGED worker
            BY <2>1, <2>4, <3>1, <3>6, <6>2 DEF ActiveOK, Unhurt
          <6>3. CASE Admit(i)
            <7>1. Awake(FALSE).at # "off"
              BY DEF Awake
            <7>2. QED
              BY <2>4, <6>3, <7>1 DEF Admit, Wake
          <6>4. QED
            BY <4>5, <5>2, <6>1, <6>2, <6>3 DEF Settle
        <5>3. QED
          BY <5>1, <5>2
      <4>6. CASE Reconciliation
        BY <2>6, <4>3, <4>4, <4>5, <4>6 DEF Reconciliation
      <4>7. CASE Publication
        BY <4>2, <4>7 DEF Publication, ReadOwed, SeeIdle, SeeIdleAgain, MarkFails,
           mark_subtask_completion_pending, lockVars
      <4>8. CASE Parent
        BY <4>2, <4>8 DEF Parent, WorkerPeeks, SaveTurn, AdmissionFails, Handoff, Reply,
           DrainRow, EndTurn, TurnFails, AcknowledgeTurn, AcknowledgementFails, FailedTurn,
           UserPrompts, UserTurnEnds, UserTurnFails, lockVars
      <4>10. CASE ReleaseWorker
        BY <4>2, <4>10 DEF ReleaseWorker, lockVars
      <4>9. QED
        BY <1>3, <4>6, <4>7, <4>8, <4>10 DEF Next
    <3>5. QED
      BY <2>3, <2>4, <3>2, <3>3, <3>4
  <2>7. QED
    BY <2>5, <2>6
<1>4. QED
  BY <1>1, <1>2, <1>3

LEMMA CareKept == CareInv /\ [Next]_vars => CareInv'
<1>1. ASSUME CareInv, Next PROVE CareInv'
  <2>1. Inv'
    BY <1>1, InvKept DEF CareInv
  <2>2. LockedOK' /\ FreshOK'
    BY <1>1, LockedKept, FreshKept DEF CareInv
  <2>3. OwedOK' /\ ActiveOK' /\ ExpectedOK'
    BY <1>1, OwedKept, ActiveKept, ExpectedKept DEF CareInv
  <2>4. QED
    BY <2>1, <2>2, <2>3 DEF CareInv
<1>2. ASSUME CareInv, UNCHANGED vars PROVE CareInv'
  <2>1. Inv'
    BY <1>2, InvKept DEF CareInv
  <2>2. QED
    BY <1>2, <2>1 DEF CareInv, LockedOK, FreshOK, OwedOK, ActiveOK, ExpectedOK,
       Expected, Unhurt, Attended, Asked, WillAsk, Lingers, Current, NoRecordOf, Pending,
       vars, childVars, promptVars, slotVars, lockVars, historyVars
<1>3. QED
  BY <1>1, <1>2

\* Until something fails, what the child owes has a publisher, and until the
\* parent's worker ends without its last reconciliation, what waits in the
\* outbox has a prompt that will ask for one, a worker, a run or a
\* reconciliation to come.
THEOREM FamilyIsCaredFor == Spec => []CareInv
<1>1. QED
  BY InitCare, CareKept, PTL DEF Spec

\* When the family is at rest, nothing has failed and the parent's worker has
\* not skipped its last reconciliation, the child owes nothing and no
\* completion of it waits for the parent.
THEOREM NothingIsStranded == Spec => []NothingStranded
<1>1. CareInv => NothingStranded
  <2> SUFFICES ASSUME CareInv, AtRest, ~failed, ~skipped PROVE owed = NoGen /\ Pending = {}
    BY DEF NothingStranded
  <2>1. ~Attended /\ ~Asked
    BY DEF AtRest, Attended, Asked, WillAsk, InHand, ToRun, Publishing
  <2>2. rec.pending = {}
    BY DEF CareInv, LockedOK, AtRest, Unlocked
  <2>3. QED
    BY <2>1, <2>2 DEF CareInv, OwedOK, ExpectedOK, Expected, Unhurt, AtRest
<1>2. QED
  BY <1>1, FamilyIsCaredFor, PTL
=============================================================================
