------------------------------ MODULE EventBus ------------------------------
(***************************************************************************)
(* The bounded broadcast of neoism-agent-server (state/event_bus.rs): one  *)
(* ring of events under a mutex, a cursor per receiver, and tokio's Notify *)
(* to wake receivers, which the sender calls after it has let go of the    *)
(* mutex.  A step is one critical section, or one access to the Notify.    *)
(*                                                                         *)
(* A payload is its number and its size; `ring` holds [sequence, payload]. *)
(***************************************************************************)
EXTENDS Integers, Sequences

CONSTANTS
    Senders,    \* names for EventBus handles
    Receivers,  \* names for EventReceiver handles
    First,      \* the handle that EventBus::new returns
    Sizes,      \* the sizes of payloads
    MaxEvents, MaxBytes,
    MaxSends    \* bound: events sent to at least one receiver

ASSUME SenderAssumption == First \in Senders
ASSUME SizeAssumption ==
    Sizes \subseteq Nat /\ {MaxEvents, MaxBytes, MaxSends} \subseteq Nat

VARIABLES
    ring, bytes, nextSequence,
    receivers,  \* the receivers with a cursor
    cursor,     \* receiver -> the sequence it reads next
    senders,    \* the EventBus handles
    (* threads *)
    spc,        \* sender -> idle, or about to call notify_waiters
    rpc,        \* receiver -> idle, or inside recv: about to look,
                \* past a look that found nothing, or asleep
    notified,   \* the Notified future of recv has been woken
    (* history *)
    outcome,    \* receiver -> what recv or try_recv returned last
    log         \* the payloads sent

busVars == <<ring, bytes, nextSequence, cursor, receivers, senders>>
vars == <<busVars, spc, rpc, notified, outcome, log>>

Payload == [number : Nat, size : Sizes]
Entry == [sequence : Nat, payload : Payload]

Nothing == [kind |-> "nothing"]
Event(p) == [kind |-> "event", payload |-> p]
Lagged(n) == [kind |-> "lagged", count |-> n]
Closed == [kind |-> "closed"]
Outcome == {Nothing, Closed} \cup [kind : {"event"}, payload : Payload]
           \cup [kind : {"lagged"}, count : Nat]

\* The bus is well-typed; a lag is counted in naturals.
TypeOK ==
    /\ ring \in Seq(Entry) /\ log \in Seq(Payload)
    /\ nextSequence \in Nat
    /\ receivers \subseteq Receivers /\ senders \subseteq Senders
    /\ cursor \in [Receivers -> Nat]
    /\ spc \in [Senders -> {"idle", "notify"}]
    /\ rpc \in [Receivers -> {"idle", "look", "empty", "asleep"}]
    /\ notified \in [Receivers -> BOOLEAN]
    /\ outcome \in [Receivers -> Outcome]

Init ==
    /\ ring = <<>> /\ bytes = 0 /\ nextSequence = 0
    /\ receivers = {} /\ senders = {First}
    /\ cursor = [r \in Receivers |-> 0]
    /\ spc = [s \in Senders |-> "idle"]
    /\ rpc = [r \in Receivers |-> "idle"]
    /\ notified = [r \in Receivers |-> FALSE]
    /\ outcome = [r \in Receivers |-> Nothing]
    /\ log = <<>>

-----------------------------------------------------------------------------
(* The ring *)

\* The bytes of the first i entries, for each i; and of all of them.
Totals(entries) ==
    LET total[i \in 0 .. Len(entries)] ==
            IF i = 0 THEN 0 ELSE total[i - 1] + entries[i].payload.size
    IN  total
SizeOf(entries) == Totals(entries)[Len(entries)]

Oldest == IF ring = <<>> THEN nextSequence ELSE ring[1].sequence
DropFront(k) == SubSeq(ring, k + 1, Len(ring))

\* reclaim: entries behind every cursor go, all of them if nobody listens.
Reclaim(curs, rcvs) ==
    \E k \in 0 .. Len(ring) :
        /\ \A i \in 1 .. k : \A r \in rcvs : ring[i].sequence < curs[r]
        /\ k < Len(ring) => \E r \in rcvs : ring[k + 1].sequence >= curs[r]
        /\ ring' = DropFront(k)
        /\ bytes' = bytes - SizeOf(SubSeq(ring, 1, k))

-----------------------------------------------------------------------------
(* Senders *)

\* Variant of Fits: a full budget counts as over.
FitsBelow(k, size) ==
    /\ Len(ring) - k < MaxEvents
    /\ bytes - SizeOf(SubSeq(ring, 1, k)) < MaxBytes - size

\* There is room for a payload once the first k entries are gone.
Fits(k, size) ==
    /\ Len(ring) - k < MaxEvents
    /\ bytes - SizeOf(SubSeq(ring, 1, k)) <= MaxBytes - size

\* An event that can never fit empties the ring: it is lost, and so must be all
\* before it.
Retain(p) ==
    IF MaxEvents = 0 \/ p.size > MaxBytes
    THEN ring' = <<>> /\ bytes' = 0
    ELSE \E k \in 0 .. Len(ring) :
        /\ Fits(k, p.size) /\ \A j \in 0 .. k - 1 : ~Fits(j, p.size)
        /\ ring' = Append(DropFront(k),
                          [sequence |-> nextSequence, payload |-> p])
        /\ bytes' = bytes - SizeOf(SubSeq(ring, 1, k)) + p.size

\* Without a receiver the payload is handed back and nothing changes.
Send(s) ==
    /\ s \in senders /\ spc[s] = "idle"
    /\ receivers # {} /\ nextSequence < MaxSends
    /\ \E size \in Sizes :
        LET p == [number |-> Len(log), size |-> size] IN
        Retain(p) /\ log' = Append(log, p)
    /\ nextSequence' = nextSequence + 1
    /\ spc' = [spc EXCEPT ![s] = "notify"]
    /\ UNCHANGED <<cursor, receivers, senders, rpc, notified, outcome>>

\* Where the Notified future of recv is enabled; and a variant of it, a future
\* that is enabled by its first poll only.
RegisteredLate == {"asleep"}
Registered == {"look", "empty", "asleep"}

\* notify_waiters wakes the futures that are enabled, and stores no permit.
Notify(s) ==
    /\ spc[s] = "notify"
    /\ spc' = [spc EXCEPT ![s] = "idle"]
    /\ notified' = [r \in Receivers |-> notified[r] \/ rpc[r] \in Registered]
    /\ UNCHANGED <<busVars, rpc, outcome, log>>

CloneSender(s, t) ==
    /\ s \in senders /\ spc[s] = "idle"
    /\ t \notin senders /\ spc[t] = "idle"
    /\ senders' = senders \cup {t}
    /\ UNCHANGED <<ring, bytes, nextSequence, cursor, receivers, spc, rpc,
                   notified, outcome, log>>

\* Variant of DropSender: the last handle goes without a word.
DropSenderQuietly(s) ==
    /\ s \in senders /\ spc[s] = "idle"
    /\ senders' = senders \ {s}
    /\ UNCHANGED <<ring, bytes, nextSequence, cursor, receivers, spc, rpc,
                   notified, outcome, log>>

DropSender(s) ==
    /\ s \in senders /\ spc[s] = "idle"
    /\ senders' = senders \ {s}
    /\ spc' = [spc EXCEPT ![s] = IF senders = {s} THEN "notify" ELSE "idle"]
    /\ UNCHANGED <<ring, bytes, nextSequence, cursor, receivers, rpc, notified,
                   outcome, log>>

-----------------------------------------------------------------------------
(* Receivers *)

Subscribe(r) ==
    /\ senders # {} /\ r \notin receivers
    /\ receivers' = receivers \cup {r}
    /\ cursor' = [cursor EXCEPT ![r] = nextSequence]
    /\ outcome' = [outcome EXCEPT ![r] = Nothing]
    /\ UNCHANGED <<ring, bytes, nextSequence, senders, spc, rpc, notified, log>>

\* recv: the Notified future is created and enabled before the ring is read.
Recv(r) ==
    /\ r \in receivers /\ rpc[r] = "idle"
    /\ rpc' = [rpc EXCEPT ![r] = "look"]
    /\ notified' = [notified EXCEPT ![r] = FALSE]
    /\ UNCHANGED <<busVars, spc, outcome, log>>

\* The outcome of try_recv; the caller says where recv goes on from here.
Told(r, what, next) ==
    /\ cursor' = [cursor EXCEPT ![r] = next]
    /\ outcome' = [outcome EXCEPT ![r] = what]
    /\ Reclaim(cursor', receivers)

TakeEvent(r) ==
    /\ cursor[r] >= Oldest /\ cursor[r] < nextSequence
    /\ Told(r, Event(ring[cursor[r] - Oldest + 1].payload), cursor[r] + 1)

\* Variant of SkipLost: the cursor jumps to the end of the ring.
SkipToEnd(r) ==
    /\ cursor[r] < Oldest
    /\ Told(r, Lagged(Oldest - cursor[r]), nextSequence)

SkipLost(r) ==
    /\ cursor[r] < Oldest
    /\ Told(r, Lagged(Oldest - cursor[r]), Oldest)

CaughtUp(r) == cursor[r] >= Oldest /\ cursor[r] >= nextSequence

SeeClosed(r) ==
    /\ CaughtUp(r) /\ senders = {}
    /\ outcome' = [outcome EXCEPT ![r] = Closed]
    /\ UNCHANGED <<ring, bytes, cursor>>

Answer(r) ==
    /\ TakeEvent(r) \/ SkipLost(r) \/ SeeClosed(r)
    /\ UNCHANGED <<nextSequence, receivers, senders, spc, log>>

\* try_recv called by itself.
TryRecv(r) ==
    /\ r \in receivers /\ rpc[r] = "idle"
    /\ Answer(r)
    /\ UNCHANGED <<rpc, notified>>

Look(r) ==
    /\ rpc[r] = "look"
    /\ Answer(r)
    /\ rpc' = [rpc EXCEPT ![r] = "idle"]
    /\ UNCHANGED notified

LookEmpty(r) ==
    /\ rpc[r] = "look"
    /\ CaughtUp(r) /\ senders # {}
    /\ rpc' = [rpc EXCEPT ![r] = "empty"]
    /\ UNCHANGED <<busVars, spc, notified, outcome, log>>

\* The future is polled, and pending unless it has been woken by now.
FallAsleep(r) ==
    /\ rpc[r] = "empty"
    /\ rpc' = [rpc EXCEPT ![r] = "asleep"]
    /\ UNCHANGED <<busVars, spc, notified, outcome, log>>

\* The next round of recv's loop: a fresh future, enabled.
Awake(r) ==
    /\ rpc[r] = "asleep" /\ notified[r]
    /\ rpc' = [rpc EXCEPT ![r] = "look"]
    /\ notified' = [notified EXCEPT ![r] = FALSE]
    /\ UNCHANGED <<busVars, spc, outcome, log>>

\* The future of recv is dropped at its await.
Cancel(r) ==
    /\ rpc[r] = "asleep"
    /\ rpc' = [rpc EXCEPT ![r] = "idle"]
    /\ UNCHANGED <<busVars, spc, notified, outcome, log>>

\* Variant of DropReceiver: what only this receiver still needed stays.
DropReceiverOnly(r) ==
    /\ r \in receivers /\ rpc[r] = "idle"
    /\ receivers' = receivers \ {r}
    /\ UNCHANGED <<ring, bytes, nextSequence, cursor, senders, spc, rpc,
                   notified, outcome, log>>

DropReceiver(r) ==
    /\ r \in receivers /\ rpc[r] = "idle"
    /\ receivers' = receivers \ {r}
    /\ Reclaim(cursor, receivers')
    /\ UNCHANGED <<nextSequence, cursor, senders, spc, rpc, notified, outcome,
                   log>>

-----------------------------------------------------------------------------
SenderStep(s) ==
    \/ Send(s) \/ Notify(s) \/ DropSender(s)
    \/ \E t \in Senders : CloneSender(s, t)

ReceiverStep(r) ==
    \/ Subscribe(r) \/ Recv(r) \/ TryRecv(r) \/ Look(r) \/ LookEmpty(r)
    \/ FallAsleep(r) \/ Awake(r) \/ Cancel(r) \/ DropReceiver(r)

Next == (\E s \in Senders : SenderStep(s))
        \/ (\E r \in Receivers : ReceiverStep(r))

Spec == Init /\ [][Next]_vars

\* A thread inside send, drop or recv goes on; a woken task is polled.
FairSpec ==
    /\ Spec
    /\ \A s \in Senders : WF_vars(Notify(s))
    /\ \A r \in Receivers :
        WF_vars(Look(r) \/ LookEmpty(r) \/ FallAsleep(r) \/ Awake(r))

-----------------------------------------------------------------------------
(* Properties *)

\* The ring is the end of what was sent, without a hole: the index that
\* try_recv computes from a cursor always finds the event of that sequence.
RingIsSuffix ==
    /\ Len(log) = nextSequence /\ Len(ring) <= nextSequence
    /\ \A i \in 1 .. Len(ring) :
        LET n == nextSequence - Len(ring) + i IN
        ring[i].sequence = n - 1 /\ ring[i].payload = log[n]

\* Nothing is kept that every receiver has read, whichever of them goes away.
NothingKeptUnread ==
    ring # <<>> => \E r \in receivers : cursor[r] <= ring[1].sequence

\* Only a receiver that has itself fallen behind the budgets loses events: if
\* what it has not read fits, all of it is still there, however slow others are.
LagMeansOverflow ==
    \A r \in receivers :
        LET unread == [i \in 1 .. nextSequence - cursor[r] |->
                          [payload |-> log[cursor[r] + i]]] IN
        (Len(unread) <= MaxEvents /\ SizeOf(unread) <= MaxBytes)
            => cursor[r] >= Oldest

HasNews(r) == cursor[r] < nextSequence \/ senders = {}

\* A receiver that sleeps although it has something to return has been woken, or
\* somebody who has changed the ring is about to wake it.
NoLostWake ==
    \A r \in Receivers :
        (rpc[r] \in {"empty", "asleep"} /\ HasNews(r) /\ ~notified[r])
            => \E s \in Senders : spc[s] = "notify"

\* A call of recv does not sleep on an event, on lost events or on the close of
\* the bus: it returns, unless it is dropped.
NewsIsHeard ==
    \A r \in Receivers :
        (rpc[r] = "asleep" /\ HasNews(r)) ~> rpc[r] = "idle"

\* The bus keeps the promise of EventFeed: every receiver goes through the events
\* sent since it subscribed in order, hears each of them once, and is told exactly
\* how many it lost.
Feed == INSTANCE EventFeed WITH
    Readers <- Receivers, Payloads <- Payload, present <- receivers,
    place <- cursor, heard <- outcome, open <- senders # {}
FeedImplemented == Feed!FeedSpec
=============================================================================
