----------------------------- MODULE EventFeed -----------------------------
(***************************************************************************)
(* What an event bus promises its subscribers, without rings, budgets,     *)
(* locks or wakeups: every subscriber moves through one log, from the end  *)
(* at which it subscribed, in order, and hears of each event once - as     *)
(* the event itself or as one of a number of missed events.  It hears that *)
(* the feed is closed only when nothing is left to hear.                   *)
(***************************************************************************)
EXTENDS Naturals, Sequences

CONSTANTS Readers, Payloads

VARIABLES
    log,        \* the events published to at least one subscriber
    present,    \* the subscribers
    place,      \* subscriber -> the number of events behind it
    heard,      \* subscriber -> the last thing it was told
    open        \* somebody may still publish

feedVars == <<log, present, place, heard, open>>

Nothing == [kind |-> "nothing"]
Event(p) == [kind |-> "event", payload |-> p]
Missed(n) == [kind |-> "lagged", count |-> n]
Closed == [kind |-> "closed"]

FeedInit ==
    /\ log = <<>> /\ present = {} /\ open = TRUE
    /\ heard = [r \in Readers |-> Nothing]

\* One more event at the end of the log.
Publish ==
    /\ open /\ present # {}
    /\ Len(log') = Len(log) + 1 /\ log'[Len(log')] \in Payloads
    /\ log = SubSeq(log', 1, Len(log))
    /\ UNCHANGED <<present, place, heard, open>>

Join(r) ==
    /\ r \notin present
    /\ present' = present \cup {r}
    /\ place' = [place EXCEPT ![r] = Len(log)]
    /\ heard' = [heard EXCEPT ![r] = Nothing]
    /\ UNCHANGED <<log, open>>

Leave(r) ==
    /\ r \in present
    /\ present' = present \ {r}
    /\ UNCHANGED <<log, place, heard, open>>

Tell(r, what, n) ==
    /\ r \in present /\ place[r] + n <= Len(log)
    /\ place' = [place EXCEPT ![r] = @ + n]
    /\ heard' = [heard EXCEPT ![r] = what]
    /\ UNCHANGED <<log, present, open>>

Hear(r) == place[r] < Len(log) /\ Tell(r, Event(log[place[r] + 1]), 1)
Miss(r) == \E n \in 1 .. Len(log) - place[r] : Tell(r, Missed(n), n)
End(r) == ~open /\ place[r] = Len(log) /\ Tell(r, Closed, 0)

Close ==
    /\ open' = FALSE
    /\ UNCHANGED <<log, present, place, heard>>

FeedNext ==
    \/ Close \/ Publish
    \/ \E r \in Readers :
        Join(r) \/ Leave(r) \/ Hear(r) \/ Miss(r) \/ End(r)

FeedSpec == FeedInit /\ [][FeedNext]_feedVars
=============================================================================
