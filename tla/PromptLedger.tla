---------------------------- MODULE PromptLedger ----------------------------
(***************************************************************************)
(* What the prompt queue of a session promises about submitted prompts,    *)
(* without workers, runs, locks or recovery markers: a submission is       *)
(* settled once and for all, submissions are handed off in order, and the  *)
(* turn of a message is started at most once, from the transcript.         *)
(***************************************************************************)
EXTENDS Naturals

CONSTANTS Messages, MaxRow

Submissions == 1 .. MaxRow

VARIABLES
    fate,       \* submission -> what became of it
    content,    \* submission -> its message
    transcript, \* the messages kept
    turns       \* message -> turns started

ledgerVars == <<fate, content, transcript, turns>>

Pending == {s \in Submissions : fate[s] = "queued"}

LedgerInit ==
    /\ \A s \in Submissions : fate[s] = "unused"
    /\ transcript = {}
    /\ turns = [m \in Messages |-> 0]

Submit(s, m) ==
    /\ fate[s] = "unused"
    /\ \A r \in Submissions : r < s => fate[r] # "unused"
    /\ m \notin {content[r] : r \in Pending}
    /\ fate' = [fate EXCEPT ![s] = "queued"]
    /\ content' = [content EXCEPT ![s] = m]
    /\ UNCHANGED <<transcript, turns>>

Keep(m) ==
    /\ transcript' = transcript \cup {m}
    /\ UNCHANGED <<fate, content, turns>>

\* The turn of a message of the transcript that has had none.
StartTurn(m) ==
    /\ m \in transcript /\ turns[m] = 0
    /\ turns' = [turns EXCEPT ![m] = 1]

Leave(S, f) == fate' = [s \in Submissions |-> IF s \in S THEN f ELSE fate[s]]

\* The earliest pending submission becomes a turn.
Hand(s) ==
    /\ s \in Pending /\ \A r \in Pending : s <= r
    /\ Leave({s}, "handed")
    /\ StartTurn(content[s])
    /\ UNCHANGED <<content, transcript>>

\* A message prompted directly.
Prompt(m) == StartTurn(m) /\ UNCHANGED <<fate, content, transcript>>

\* A pending submission needs no turn of its own: its message is kept already.
Merge(s) ==
    /\ s \in Pending /\ content[s] \in transcript
    /\ Leave({s}, "merged")
    /\ UNCHANGED <<content, transcript, turns>>

\* A store error may retire a submission whose turn is then never started.
Lose(s) ==
    /\ s \in Pending /\ content[s] \in transcript
    /\ Leave({s}, "lost")
    /\ UNCHANGED <<content, transcript, turns>>

Cancel(S) ==
    /\ S \subseteq Pending
    /\ Leave(S, "cleared")
    /\ UNCHANGED <<content, transcript, turns>>

LedgerNext ==
    \/ \E s \in Submissions : Hand(s) \/ Merge(s) \/ Lose(s)
    \/ \E m \in Messages :
        Keep(m) \/ Prompt(m) \/ \E s \in Submissions : Submit(s, m)
    \/ \E S \in SUBSET Submissions : Cancel(S)

LedgerSpec == LedgerInit /\ [][LedgerNext]_ledgerVars
=============================================================================
