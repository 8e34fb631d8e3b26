--------------------------- MODULE EventBus_proofs ---------------------------
(***************************************************************************)
(* What TLAPS proves about EventBus, for all numbers of senders and        *)
(* receivers, all sizes and all budgets: the ring is a hole-free end of    *)
(* the log, no wakeup is lost, only those who overflow the budgets lag,    *)
(* and the bus implements EventFeed.                                       *)
(***************************************************************************)
EXTENDS EventBus, SequenceTheorems, WellFoundedInduction, TLAPS

CursorsInLog == \A r \in Receivers : cursor[r] <= nextSequence
ReceivingIsSubscribed ==
    \A r \in Receivers : rpc[r] # "idle" => r \in receivers

BusInv ==
    /\ TypeOK
    /\ RingIsSuffix
    /\ CursorsInLog
    /\ ReceivingIsSubscribed
    /\ NothingKeptUnread
    /\ NoLostWake

-----------------------------------------------------------------------------
(* What a step may do to the ring *)

\* The ring loses its first k entries.
LEMMA Dropped ==
    ASSUME TypeOK, RingIsSuffix, NEW k \in 0 .. Len(ring)
    PROVE  /\ DropFront(k) \in Seq(Entry)
           /\ Len(DropFront(k)) = Len(ring) - k
           /\ \A i \in 1 .. Len(ring) - k : DropFront(k)[i] = ring[k + i]
<1>1. Len(ring) \in Nat /\ \A i \in 1 .. Len(ring) : ring[i] \in Entry
  BY LenProperties, ElementOfSeq DEF TypeOK
<1>2. \A i \in k + 1 .. Len(ring) : ring[i] \in Entry
  BY <1>1
<1>3. QED
  BY <1>1, <1>2, SubSeqProperties DEF DropFront

\* Reclaiming drops a prefix, and stops at the first entry that a receiver needs.
LEMMA Reclaimed ==
    ASSUME TypeOK, RingIsSuffix, NEW curs \in [Receivers -> Nat],
           NEW rcvs \in SUBSET Receivers, Reclaim(curs, rcvs),
           UNCHANGED <<log, nextSequence>>
    PROVE  /\ ring' \in Seq(Entry)
           /\ RingIsSuffix'
           /\ ring' # <<>> => \E r \in rcvs : curs[r] <= ring'[1].sequence
<1>1. PICK k \in 0 .. Len(ring) :
        /\ k < Len(ring) => \E r \in rcvs : ring[k + 1].sequence >= curs[r]
        /\ ring' = DropFront(k)
  BY DEF Reclaim
<1>2. /\ ring' \in Seq(Entry) /\ Len(ring) \in Nat /\ nextSequence \in Nat
      /\ Len(ring') = Len(ring) - k
      /\ \A i \in 1 .. Len(ring) - k : ring'[i] = ring[k + i]
  BY <1>1, Dropped, LenProperties DEF TypeOK
<1>3. RingIsSuffix'
  <2>1. ASSUME NEW i \in 1 .. Len(ring')
        PROVE  LET n == nextSequence' - Len(ring') + i IN
               ring'[i].sequence = n - 1 /\ ring'[i].payload = log'[n]
    <3>1. k + i \in 1 .. Len(ring) /\ ring'[i] = ring[k + i]
      BY <1>2
    <3>2. nextSequence' - Len(ring') + i = nextSequence - Len(ring) + (k + i)
      BY <1>2
    <3>3. QED
      BY <3>1, <3>2 DEF RingIsSuffix
  <2>2. \A i \in 1 .. Len(ring') :
          LET n == nextSequence' - Len(ring') + i IN
          ring'[i].sequence = n - 1 /\ ring'[i].payload = log'[n]
    BY <2>1
  <2>3. Len(log') = nextSequence' /\ Len(ring') <= nextSequence'
    BY <1>2 DEF RingIsSuffix
  <2>4. QED
    BY <2>2, <2>3 DEF RingIsSuffix
<1>4. ASSUME ring' # <<>>
      PROVE  \E r \in rcvs : curs[r] <= ring'[1].sequence
  <2>1. Len(ring') >= 1
    BY <1>2, <1>4, EmptySeq
  <2>2. k < Len(ring) /\ ring'[1] = ring[k + 1]
    BY <1>2, <2>1
  <2>3. ring[k + 1].sequence \in Nat
    <3>1. k + 1 \in 1 .. Len(ring)
      BY <1>2, <2>2
    <3>2. ring[k + 1] \in Entry
      BY <3>1, ElementOfSeq DEF TypeOK
    <3>3. QED
      BY <3>2 DEF Entry
  <2>4. QED
    BY <1>1, <2>2, <2>3
<1>5. QED
  BY <1>2, <1>3, <1>4

\* Sending appends to the log, and to what is left of the ring.
LEMMA Sent ==
    ASSUME TypeOK, RingIsSuffix, NEW p \in Payload, Retain(p),
           log' = Append(log, p), nextSequence' = nextSequence + 1
    PROVE  /\ ring' \in Seq(Entry) /\ log' \in Seq(Payload)
           /\ RingIsSuffix'
           /\ ring # <<>> /\ ring' # <<>>
                => ring[1].sequence <= ring'[1].sequence
           /\ ring = <<>> /\ ring' # <<>> => ring'[1].sequence = nextSequence
<1>a. /\ Len(ring) \in Nat /\ nextSequence \in Nat /\ log \in Seq(Payload)
      /\ Len(log) = nextSequence
  BY LenProperties DEF TypeOK, RingIsSuffix
<1>b. /\ log' \in Seq(Payload) /\ Len(log') = nextSequence + 1
      /\ \A i \in 1 .. nextSequence : log'[i] = log[i]
      /\ log'[nextSequence + 1] = p
  BY <1>a, AppendProperties
<1>1. CASE MaxEvents = 0 \/ p.size > MaxBytes
  <2>1. ring' = <<>>
    BY <1>1 DEF Retain
  <2>2. ring' \in Seq(Entry) /\ Len(ring') = 0
    BY <2>1, EmptySeq
  <2>3. QED
    BY <1>a, <1>b, <2>1, <2>2 DEF RingIsSuffix
<1>2. CASE ~(MaxEvents = 0 \/ p.size > MaxBytes)
  <2> DEFINE e == [sequence |-> nextSequence, payload |-> p]
  <2>1. PICK k \in 0 .. Len(ring) : ring' = Append(DropFront(k), e)
    BY <1>2 DEF Retain
  <2>2. /\ DropFront(k) \in Seq(Entry) /\ Len(DropFront(k)) = Len(ring) - k
        /\ \A i \in 1 .. Len(ring) - k : DropFront(k)[i] = ring[k + i]
    BY Dropped
  <2>3. e \in Entry
    BY <1>a DEF Entry
  <2>4. /\ ring' \in Seq(Entry) /\ Len(ring') = Len(ring) - k + 1
        /\ \A i \in 1 .. Len(ring) - k : ring'[i] = ring[k + i]
        /\ ring'[Len(ring) - k + 1] = e
    BY <2>1, <2>2, <2>3, AppendProperties, <1>a
  <2>5. Len(ring') <= nextSequence'
    BY <2>4, <1>a DEF RingIsSuffix
  <2>6. ASSUME NEW i \in 1 .. Len(ring')
        PROVE  LET n == nextSequence' - Len(ring') + i IN
               ring'[i].sequence = n - 1 /\ ring'[i].payload = log'[n]
    <3>1. CASE i = Len(ring) - k + 1
      <4>1. ring'[i].sequence = nextSequence /\ ring'[i].payload = p
        BY <2>4, <3>1
      <4>2. nextSequence' - Len(ring') + i = nextSequence + 1
        BY <1>a, <2>4, <3>1
      <4>3. (nextSequence + 1) - 1 = nextSequence /\ log'[nextSequence + 1] = p
        BY <1>a, <1>b
      <4>4. QED
        BY <4>1, <4>2, <4>3, Zenon
    <3>2. CASE i \in 1 .. Len(ring) - k
      <4> DEFINE n == nextSequence - Len(ring) + (k + i)
      <4>1. /\ k + i \in 1 .. Len(ring) /\ n \in 1 .. nextSequence
            /\ n = nextSequence' - Len(ring') + i
        <5>1. k + i \in 1 .. Len(ring) /\ n \in 1 .. nextSequence
          BY <1>a, <3>2 DEF RingIsSuffix
        <5>2. Len(ring') = Len(ring) - k + 1 /\ nextSequence' = nextSequence + 1
          BY <2>4
        <5>3. n = nextSequence' - Len(ring') + i
          BY <1>a, <3>2, <5>2
        <5>4. QED
          BY <5>1, <5>3
      <4>2. ring[k + i].sequence = n - 1 /\ ring[k + i].payload = log[n]
        BY <4>1 DEF RingIsSuffix
      <4>3. QED
        BY <4>1, <4>2, <3>2, <2>4, <1>b
    <3>3. i = Len(ring) - k + 1 \/ i \in 1 .. Len(ring) - k
      <4>1. Len(ring') = Len(ring) - k + 1 /\ k \in Int /\ i \in Int
        BY <2>4, <1>a
      <4>2. QED
        BY <4>1, <1>a
    <3>4. QED
      BY <3>1, <3>2, <3>3
  <2>7. RingIsSuffix'
    <3>1. \A i \in 1 .. Len(ring') :
            LET n == nextSequence' - Len(ring') + i IN
            ring'[i].sequence = n - 1 /\ ring'[i].payload = log'[n]
      BY <2>6
    <3>2. Len(log') = nextSequence'
      BY <1>b
    <3>3. QED
      BY <2>5, <3>1, <3>2 DEF RingIsSuffix
  <2>8. ring = <<>> => k = 0 /\ Len(ring) = 0
    BY EmptySeq, <1>a
  <2>9. ring # <<>> => Len(ring) >= 1
    BY EmptySeq, <1>a DEF TypeOK
  <2>10. ring'[1].sequence = nextSequence' - Len(ring')
    <3>1. 1 \in 1 .. Len(ring') /\ Len(ring') \in Nat
      BY <2>4, <1>a
    <3>2. ring'[1].sequence = nextSequence' - Len(ring') + 1 - 1
      BY <3>1, <2>6
    <3>3. QED
      BY <3>1, <3>2, <1>a
  <2>11. ring # <<>> => ring[1].sequence = nextSequence - Len(ring)
    BY <2>9, <1>a DEF RingIsSuffix
  <2>12. QED
    BY <2>4, <2>7, <2>8, <2>10, <2>11, <1>a, <1>b
<1>3. QED
  BY <1>1, <1>2

\* In a ring that is the end of the log, Oldest is where it begins, and a cursor
\* between Oldest and the end points at its event.
LEMMA Indexed ==
    ASSUME TypeOK, RingIsSuffix
    PROVE  /\ Oldest = nextSequence - Len(ring) /\ Oldest \in Nat
           /\ Oldest <= nextSequence
           /\ \A c \in Oldest .. nextSequence - 1 :
                /\ c + 1 \in 1 .. Len(log)
                /\ ring[c - Oldest + 1].payload = log[c + 1]
                /\ ring[c - Oldest + 1].payload \in Payload
<1>1. Len(ring) \in Nat /\ nextSequence \in Nat /\ Len(ring) <= nextSequence
  BY LenProperties DEF TypeOK, RingIsSuffix
<1>2. ring = <<>> => Len(ring) = 0
  BY EmptySeq
<1>3. ring # <<>> => Len(ring) >= 1
  BY EmptySeq, <1>1 DEF TypeOK
<1>4. Oldest = nextSequence - Len(ring)
  BY <1>1, <1>2, <1>3 DEF RingIsSuffix, Oldest
<1>5. ASSUME NEW c \in Oldest .. nextSequence - 1
      PROVE  /\ c + 1 \in 1 .. Len(log)
             /\ ring[c - Oldest + 1].payload = log[c + 1]
             /\ ring[c - Oldest + 1].payload \in Payload
  <2>1. /\ c - Oldest + 1 \in 1 .. Len(ring)
        /\ nextSequence - Len(ring) + (c - Oldest + 1) = c + 1
    BY <1>1, <1>4
  <2>2. ring[c - Oldest + 1] \in Entry
    BY <2>1, ElementOfSeq DEF TypeOK
  <2>3. ring[c - Oldest + 1].payload = log[c + 1]
    BY <2>1 DEF RingIsSuffix
  <2>4. QED
    BY <2>2, <2>3, <1>1, <1>4 DEF RingIsSuffix, Entry
<1>6. QED
  BY <1>1, <1>4, <1>5

-----------------------------------------------------------------------------
(* The invariant *)

LEMMA InitInv == Init => BusInv
<1> SUFFICES ASSUME Init PROVE BusInv
  OBVIOUS
<1>1. Len(<<>>) = 0 /\ <<>> \in Seq(Entry) /\ <<>> \in Seq(Payload)
  BY EmptySeq
<1>2. TypeOK
  BY <1>1, SenderAssumption DEF Init, TypeOK, Outcome
<1>3. RingIsSuffix
  BY <1>1 DEF Init, RingIsSuffix
<1>4. QED
  BY <1>2, <1>3 DEF Init, BusInv, CursorsInLog, ReceivingIsSubscribed,
     NothingKeptUnread, NoLostWake

\* A step that leaves the ring, the log and the cursors of those who stay alone.
LEMMA RingUntouched ==
    ASSUME BusInv, UNCHANGED <<ring, log, nextSequence, cursor>>,
           receivers \subseteq receivers'
    PROVE  RingIsSuffix' /\ CursorsInLog' /\ NothingKeptUnread'
<1>1. RingIsSuffix'
  BY DEF BusInv, RingIsSuffix
<1>2. CursorsInLog'
  BY DEF BusInv, CursorsInLog
<1>3. QED
  BY <1>1, <1>2 DEF BusInv, NothingKeptUnread

LEMMA SendInv ==
    ASSUME BusInv, NEW s \in Senders, Send(s)
    PROVE  BusInv'
<1>1. PICK size \in Sizes :
        LET p == [number |-> Len(log), size |-> size] IN
        Retain(p) /\ log' = Append(log, p)
  BY DEF Send
<1> DEFINE p == [number |-> Len(log), size |-> size]
<1>2. p \in Payload
  BY LenProperties DEF Payload, BusInv, TypeOK
<1>3. /\ ring' \in Seq(Entry) /\ log' \in Seq(Payload)
      /\ RingIsSuffix'
      /\ ring # <<>> /\ ring' # <<>> => ring[1].sequence <= ring'[1].sequence
      /\ ring = <<>> /\ ring' # <<>> => ring'[1].sequence = nextSequence
  <2>1. Retain(p) /\ log' = Append(log, p) /\ nextSequence' = nextSequence + 1
    BY <1>1 DEF Send
  <2>2. QED
    BY <1>2, <2>1, Sent DEF BusInv
<1>4. UNCHANGED <<cursor, receivers, senders, rpc, notified, outcome>>
  BY DEF Send
<1>5. TypeOK'
  <2>1. spc' \in [Senders -> {"idle", "notify"}] /\ nextSequence' \in Nat
    BY DEF Send, BusInv, TypeOK
  <2>2. QED
    BY <1>3, <1>4, <2>1 DEF BusInv, TypeOK
<1>6. CursorsInLog'
  BY <1>4, <1>5 DEF Send, BusInv, TypeOK, CursorsInLog
<1>7. ReceivingIsSubscribed'
  BY <1>4 DEF BusInv, ReceivingIsSubscribed
<1>8. NothingKeptUnread'
  <2> SUFFICES ASSUME ring' # <<>>
               PROVE  \E r \in receivers' : cursor'[r] <= ring'[1].sequence
    BY DEF NothingKeptUnread
  <2>a. ring'[1].sequence \in Nat
    <3>1. Len(ring') \in Nat /\ Len(ring') # 0
      BY <1>3, EmptySeq, LenProperties
    <3>2. ring'[1] \in Entry
      BY <1>3, <3>1, ElementOfSeq
    <3>3. QED
      BY <3>2 DEF Entry
  <2>1. CASE ring = <<>>
    <3>1. PICK r \in receivers : r \in Receivers
      BY DEF Send, BusInv, TypeOK
    <3>2. cursor[r] <= nextSequence
      BY <3>1 DEF BusInv, CursorsInLog
    <3>3. QED
      BY <2>1, <1>3, <1>4, <3>1, <3>2
  <2>2. CASE ring # <<>>
    <3>1. PICK r \in receivers : cursor[r] <= ring[1].sequence
      BY <2>2 DEF BusInv, NothingKeptUnread
    <3>2. cursor[r] \in Nat
      BY <3>1 DEF BusInv, TypeOK
    <3>3. ring[1].sequence \in Nat
      <4>1. Len(ring) \in Nat /\ Len(ring) # 0
        BY <2>2, EmptySeq, LenProperties DEF BusInv, TypeOK
      <4>2. ring[1] \in Entry
        BY <4>1, ElementOfSeq DEF BusInv, TypeOK
      <4>3. QED
        BY <4>2 DEF Entry
    <3>4. cursor[r] <= ring'[1].sequence
      BY <2>2, <2>a, <3>1, <3>2, <3>3, <1>3
    <3>5. QED
      BY <3>1, <3>4, <1>4
  <2>3. QED
    BY <2>1, <2>2
<1>9. NoLostWake'
  <2>1. spc'[s] = "notify"
    BY DEF Send, BusInv, TypeOK
  <2>2. QED
    BY <2>1 DEF NoLostWake
<1>10. QED
  BY <1>3, <1>5, <1>6, <1>7, <1>8, <1>9 DEF BusInv

LEMMA NotifyInv ==
    ASSUME BusInv, NEW s \in Senders, Notify(s)
    PROVE  BusInv'
<1>1. TypeOK'
  BY DEF Notify, busVars, BusInv, TypeOK
<1>2. RingIsSuffix' /\ CursorsInLog' /\ NothingKeptUnread'
  BY RingUntouched DEF Notify, busVars
<1>3. ReceivingIsSubscribed'
  BY DEF Notify, busVars, BusInv, ReceivingIsSubscribed
<1>4. NoLostWake'
  BY DEF Notify, busVars, NoLostWake, Registered, BusInv, TypeOK
<1>5. QED
  BY <1>1, <1>2, <1>3, <1>4 DEF BusInv

LEMMA CloneSenderInv ==
    ASSUME BusInv, NEW s \in Senders, NEW t \in Senders, CloneSender(s, t)
    PROVE  BusInv'
<1>1. TypeOK'
  BY DEF CloneSender, BusInv, TypeOK
<1>2. RingIsSuffix' /\ CursorsInLog' /\ NothingKeptUnread'
  BY RingUntouched DEF CloneSender
<1>3. ReceivingIsSubscribed'
  BY DEF CloneSender, BusInv, ReceivingIsSubscribed
<1>4. NoLostWake'
  BY DEF CloneSender, BusInv, NoLostWake, HasNews
<1>5. QED
  BY <1>1, <1>2, <1>3, <1>4 DEF BusInv

LEMMA DropSenderInv ==
    ASSUME BusInv, NEW s \in Senders, DropSender(s)
    PROVE  BusInv'
<1>1. TypeOK'
  BY DEF DropSender, BusInv, TypeOK
<1>2. RingIsSuffix' /\ CursorsInLog' /\ NothingKeptUnread'
  BY RingUntouched DEF DropSender
<1>3. ReceivingIsSubscribed'
  BY DEF DropSender, BusInv, ReceivingIsSubscribed
<1>4. NoLostWake'
  <2>1. CASE senders = {s}
    <3>1. spc'[s] = "notify"
      BY <2>1 DEF DropSender, BusInv, TypeOK
    <3>2. QED
      BY <3>1 DEF NoLostWake
  <2>2. CASE senders # {s}
    <3>1. senders # {} /\ senders' # {}
      BY <2>2 DEF DropSender
    <3>2. spc' = spc
      BY <2>2 DEF DropSender, BusInv, TypeOK
    <3>3. QED
      BY <3>1, <3>2 DEF DropSender, BusInv, NoLostWake, HasNews
  <2>3. QED
    BY <2>1, <2>2
<1>5. QED
  BY <1>1, <1>2, <1>3, <1>4 DEF BusInv

LEMMA SubscribeInv ==
    ASSUME BusInv, NEW r \in Receivers, Subscribe(r)
    PROVE  BusInv'
<1>1. TypeOK'
  BY DEF Subscribe, BusInv, TypeOK, Outcome
<1>2. RingIsSuffix'
  BY DEF Subscribe, BusInv, RingIsSuffix
<1>3. CursorsInLog'
  BY DEF Subscribe, BusInv, TypeOK, CursorsInLog
<1>4. ReceivingIsSubscribed'
  BY DEF Subscribe, BusInv, ReceivingIsSubscribed
<1>5. NothingKeptUnread'
  BY DEF Subscribe, BusInv, TypeOK, NothingKeptUnread
<1>6. NoLostWake'
  <2>1. rpc[r] = "idle"
    BY DEF Subscribe, BusInv, ReceivingIsSubscribed
  <2>2. QED
    BY <2>1 DEF Subscribe, BusInv, TypeOK, NoLostWake, HasNews
<1>7. QED
  BY <1>1, <1>2, <1>3, <1>4, <1>5, <1>6 DEF BusInv

\* The steps of recv around try_recv.
LEMMA RecvInv ==
    ASSUME BusInv, NEW r \in Receivers,
           Recv(r) \/ LookEmpty(r) \/ FallAsleep(r) \/ Awake(r) \/ Cancel(r)
    PROVE  BusInv'
<1>1. TypeOK'
  <2>1. UNCHANGED <<busVars, spc, outcome, log>>
    BY DEF Recv, LookEmpty, FallAsleep, Awake, Cancel
  <2>2. /\ rpc' \in [Receivers -> {"idle", "look", "empty", "asleep"}]
        /\ notified' \in [Receivers -> BOOLEAN]
    BY DEF Recv, LookEmpty, FallAsleep, Awake, Cancel, BusInv, TypeOK
  <2>3. QED
    BY <2>1, <2>2 DEF busVars, BusInv, TypeOK
<1>2. UNCHANGED <<busVars, spc, outcome, log>>
  BY DEF Recv, LookEmpty, FallAsleep, Awake, Cancel
<1>3. RingIsSuffix' /\ CursorsInLog' /\ NothingKeptUnread'
  BY <1>2, RingUntouched DEF busVars
<1>4. r \in receivers
  BY DEF Recv, LookEmpty, FallAsleep, Awake, Cancel, BusInv,
     ReceivingIsSubscribed
<1>5. \A q \in Receivers : q # r => rpc'[q] = rpc[q] /\ notified'[q] = notified[q]
  BY DEF Recv, LookEmpty, FallAsleep, Awake, Cancel, BusInv, TypeOK
<1>6. ReceivingIsSubscribed'
  BY <1>2, <1>4, <1>5 DEF busVars, BusInv, ReceivingIsSubscribed
<1>7. NoLostWake'
  <2> SUFFICES ASSUME NEW q \in Receivers, rpc'[q] \in {"empty", "asleep"},
                      HasNews(q)', ~notified'[q]
               PROVE  \E s \in Senders : spc'[s] = "notify"
    BY DEF NoLostWake
  <2>1. HasNews(q)
    BY <1>2 DEF HasNews, busVars
  <2>2. CASE q # r
    BY <2>1, <2>2, <1>2, <1>5 DEF BusInv, NoLostWake
  <2>3. CASE q = r
    <3>1. CASE LookEmpty(r)
      \* The look found nothing: there is no news.
      <4>1. cursor[r] >= nextSequence /\ senders # {}
        BY <3>1 DEF LookEmpty, CaughtUp
      <4>2. QED
        BY <4>1, <2>1, <2>3 DEF HasNews, BusInv, TypeOK
    <3>2. CASE FallAsleep(r)
      BY <3>2, <2>1, <2>3, <1>2 DEF FallAsleep, BusInv, TypeOK, NoLostWake
    <3>3. CASE Recv(r) \/ Awake(r) \/ Cancel(r)
      BY <3>3, <2>3 DEF Recv, Awake, Cancel, BusInv, TypeOK
    <3>4. QED
      BY <3>1, <3>2, <3>3
  <2>4. QED
    BY <2>2, <2>3
<1>8. QED
  BY <1>1, <1>3, <1>6, <1>7 DEF BusInv

\* Whatever try_recv answers, its receiver has moved on through the log.
LEMMA Told_ ==
    ASSUME BusInv, NEW r \in receivers, NEW what \in Outcome,
           NEW next \in cursor[r] .. nextSequence, Told(r, what, next),
           UNCHANGED <<nextSequence, receivers, log>>
    PROVE  /\ ring' \in Seq(Entry)
           /\ cursor' \in [Receivers -> Nat]
           /\ outcome' \in [Receivers -> Outcome]
           /\ RingIsSuffix' /\ CursorsInLog' /\ NothingKeptUnread'
           /\ \A q \in Receivers : cursor[q] <= cursor'[q]
<1>1. next \in Nat /\ cursor[r] \in Nat /\ nextSequence \in Nat
      /\ r \in Receivers
  BY DEF BusInv, TypeOK
<1>2. /\ cursor' \in [Receivers -> Nat]
      /\ cursor' = [cursor EXCEPT ![r] = next]
      /\ outcome' \in [Receivers -> Outcome]
  BY <1>1 DEF Told, BusInv, TypeOK
<1>3. Reclaim(cursor', receivers)
  BY DEF Told
<1>4. /\ ring' \in Seq(Entry)
      /\ RingIsSuffix'
      /\ ring' # <<>> => \E q \in receivers : cursor'[q] <= ring'[1].sequence
  BY <1>2, <1>3, Reclaimed DEF BusInv, TypeOK
<1>5. NothingKeptUnread'
  BY <1>4 DEF NothingKeptUnread
<1>6. CursorsInLog' /\ \A q \in Receivers : cursor[q] <= cursor'[q]
  BY <1>1, <1>2 DEF BusInv, TypeOK, CursorsInLog
<1>7. QED
  BY <1>2, <1>4, <1>5, <1>6

LEMMA AnswerInv ==
    ASSUME BusInv, NEW r \in receivers, Answer(r)
    PROVE  /\ ring' \in Seq(Entry)
           /\ cursor' \in [Receivers -> Nat]
           /\ outcome' \in [Receivers -> Outcome]
           /\ RingIsSuffix' /\ CursorsInLog' /\ NothingKeptUnread'
           /\ \A q \in Receivers : cursor[q] <= cursor'[q]
<1>1. UNCHANGED <<nextSequence, receivers, senders, spc, log>>
  BY DEF Answer
<1>2. /\ Oldest = nextSequence - Len(ring) /\ Oldest \in Nat
      /\ Oldest <= nextSequence
      /\ \A c \in Oldest .. nextSequence - 1 :
            ring[c - Oldest + 1].payload \in Payload
  BY Indexed DEF BusInv
<1>3. cursor[r] \in Nat /\ cursor[r] <= nextSequence /\ nextSequence \in Nat
      /\ r \in Receivers
  BY DEF BusInv, TypeOK, CursorsInLog
<1>4. CASE TakeEvent(r)
  <2> DEFINE p == ring[cursor[r] - Oldest + 1].payload
  <2>1. cursor[r] \in Oldest .. nextSequence - 1
    BY <1>2, <1>3, <1>4 DEF TakeEvent
  <2>2. Event(p) \in Outcome
    BY <1>2, <2>1 DEF Event, Outcome
  <2>3. cursor[r] + 1 \in cursor[r] .. nextSequence
    BY <2>1, <1>2, <1>3
  <2>4. Told(r, Event(p), cursor[r] + 1)
    BY <1>4 DEF TakeEvent
  <2>5. QED
    BY <1>1, <2>2, <2>3, <2>4, Told_
<1>5. CASE SkipLost(r)
  <2>1. cursor[r] < Oldest
    BY <1>5 DEF SkipLost
  <2>2. Lagged(Oldest - cursor[r]) \in Outcome
    BY <1>2, <1>3, <2>1 DEF Lagged, Outcome
  <2>3. Oldest \in cursor[r] .. nextSequence
    BY <1>2, <1>3, <2>1
  <2>4. Told(r, Lagged(Oldest - cursor[r]), Oldest)
    BY <1>5 DEF SkipLost
  <2>5. QED
    BY <1>1, <2>2, <2>3, <2>4, Told_
<1>6. CASE SeeClosed(r)
  <2>1. UNCHANGED <<ring, cursor, receivers, nextSequence, log>>
    BY <1>1, <1>6 DEF SeeClosed
  <2>2. RingIsSuffix' /\ CursorsInLog' /\ NothingKeptUnread'
    BY <2>1, RingUntouched
  <2>3. outcome' \in [Receivers -> Outcome]
    BY <1>6 DEF SeeClosed, BusInv, TypeOK, Outcome
  <2>4. QED
    BY <2>1, <2>2, <2>3 DEF BusInv, TypeOK
<1>7. QED
  BY <1>4, <1>5, <1>6 DEF Answer

LEMMA TryRecvInv ==
    ASSUME BusInv, NEW r \in Receivers, TryRecv(r) \/ Look(r)
    PROVE  BusInv'
<1>1. r \in receivers /\ Answer(r)
  BY DEF TryRecv, Look, BusInv, ReceivingIsSubscribed
<1>2. /\ ring' \in Seq(Entry)
      /\ cursor' \in [Receivers -> Nat]
      /\ outcome' \in [Receivers -> Outcome]
      /\ RingIsSuffix' /\ CursorsInLog' /\ NothingKeptUnread'
      /\ \A q \in Receivers : cursor[q] <= cursor'[q]
  BY <1>1, AnswerInv
<1>3. UNCHANGED <<nextSequence, receivers, senders, spc, log>>
  BY <1>1 DEF Answer
<1>4. /\ notified' = notified
      /\ \A q \in Receivers : rpc'[q] = rpc[q] \/ rpc'[q] = "idle"
      /\ rpc' \in [Receivers -> {"idle", "look", "empty", "asleep"}]
  BY DEF TryRecv, Look, BusInv, TypeOK
<1>5. TypeOK'
  BY <1>2, <1>3, <1>4 DEF BusInv, TypeOK
<1>6. ReceivingIsSubscribed'
  BY <1>3, <1>4 DEF BusInv, ReceivingIsSubscribed
<1>7. NoLostWake'
  <2> SUFFICES ASSUME NEW q \in Receivers, rpc'[q] \in {"empty", "asleep"},
                      HasNews(q)', ~notified'[q]
               PROVE  \E s \in Senders : spc'[s] = "notify"
    BY DEF NoLostWake
  <2>1. rpc[q] \in {"empty", "asleep"} /\ ~notified[q]
    BY <1>4
  <2>2. HasNews(q)
    BY <1>2, <1>3 DEF HasNews, BusInv, TypeOK
  <2>3. QED
    BY <2>1, <2>2, <1>3 DEF BusInv, NoLostWake
<1>8. QED
  BY <1>2, <1>5, <1>6, <1>7 DEF BusInv

LEMMA DropReceiverInv ==
    ASSUME BusInv, NEW r \in Receivers, DropReceiver(r)
    PROVE  BusInv'
<1>1. UNCHANGED <<nextSequence, cursor, senders, spc, rpc, notified, outcome, log>>
  BY DEF DropReceiver
<1>2. /\ receivers' \in SUBSET Receivers
      /\ Reclaim(cursor, receivers') /\ cursor \in [Receivers -> Nat]
  BY DEF DropReceiver, BusInv, TypeOK
<1>3. /\ ring' \in Seq(Entry) /\ RingIsSuffix'
      /\ ring' # <<>> => \E q \in receivers' : cursor[q] <= ring'[1].sequence
  BY <1>1, <1>2, Reclaimed DEF BusInv
<1>4. TypeOK'
  BY <1>1, <1>2, <1>3 DEF BusInv, TypeOK
<1>5. CursorsInLog'
  BY <1>1 DEF BusInv, CursorsInLog
<1>6. ReceivingIsSubscribed'
  BY <1>1 DEF DropReceiver, BusInv, ReceivingIsSubscribed
<1>7. NothingKeptUnread'
  BY <1>1, <1>3 DEF NothingKeptUnread
<1>8. NoLostWake'
  BY <1>1 DEF BusInv, NoLostWake, HasNews
<1>9. QED
  BY <1>3, <1>4, <1>5, <1>6, <1>7, <1>8 DEF BusInv

LEMMA StepInv == BusInv /\ [Next]_vars => BusInv'
<1> SUFFICES ASSUME BusInv, [Next]_vars PROVE BusInv'
  OBVIOUS
<1>1. ASSUME NEW s \in Senders, SenderStep(s) PROVE BusInv'
  BY <1>1, SendInv, NotifyInv, CloneSenderInv, DropSenderInv DEF SenderStep
<1>2. ASSUME NEW r \in Receivers, ReceiverStep(r) PROVE BusInv'
  BY <1>2, SubscribeInv, RecvInv, TryRecvInv, DropReceiverInv DEF ReceiverStep
<1>3. CASE UNCHANGED vars
  <2>1. RingIsSuffix' /\ CursorsInLog' /\ NothingKeptUnread'
    BY <1>3, RingUntouched DEF vars, busVars
  <2>2. TypeOK' /\ ReceivingIsSubscribed' /\ NoLostWake'
    BY <1>3 DEF vars, busVars, BusInv, TypeOK, ReceivingIsSubscribed,
       NoLostWake, HasNews
  <2>3. QED
    BY <2>1, <2>2 DEF BusInv
<1>4. QED
  BY <1>1, <1>2, <1>3 DEF Next

\* The invariant holds throughout.
THEOREM BusInvariant == Spec => []BusInv
BY InitInv, StepInv, PTL DEF Spec

\* Every state of the bus has its type.
THEOREM BusTypes == Spec => []TypeOK
<1>1. BusInv => TypeOK
  BY DEF BusInv
<1>2. QED
  BY <1>1, BusInvariant, PTL

\* The ring is the end of what was sent, without a hole, whatever the budgets and
\* however many receivers reclaim its entries.
THEOREM RingIsAlwaysSuffix == Spec => []RingIsSuffix
<1>1. BusInv => RingIsSuffix
  BY DEF BusInv
<1>2. QED
  BY <1>1, BusInvariant, PTL

\* The ring keeps nothing that every receiver has read.
THEOREM NothingIsKeptUnread == Spec => []NothingKeptUnread
<1>1. BusInv => NothingKeptUnread
  BY DEF BusInv
<1>2. QED
  BY <1>1, BusInvariant, PTL

\* No receiver sleeps on news that nobody is going to wake it for.
THEOREM NoWakeIsLost == Spec => []NoLostWake
<1>1. BusInv => NoLostWake
  BY DEF BusInv
<1>2. QED
  BY <1>1, BusInvariant, PTL

-----------------------------------------------------------------------------
(* The bus implements EventFeed *)

LEMMA InitFeed == Init => Feed!FeedInit
BY SenderAssumption DEF Init, Feed!FeedInit, Nothing, Feed!Nothing

LEMMA SendPublishes ==
    ASSUME BusInv, NEW s \in Senders, Send(s)
    PROVE  Feed!Publish
<1>1. PICK p \in Payload : log' = Append(log, p)
  <2>1. PICK size \in Sizes :
          log' = Append(log, [number |-> Len(log), size |-> size])
    BY DEF Send
  <2>2. [number |-> Len(log), size |-> size] \in Payload
    BY LenProperties DEF Payload, BusInv, TypeOK
  <2>3. QED
    BY <2>1, <2>2
<1>2. /\ log \in Seq(Payload) /\ Len(log) \in Nat
      /\ log' \in Seq(Payload) /\ Len(log') = Len(log) + 1
      /\ log'[Len(log) + 1] = p
      /\ \A i \in 1 .. Len(log) : log'[i] = log[i]
  BY <1>1, AppendProperties, LenProperties DEF BusInv, TypeOK
<1>3. log = SubSeq(log', 1, Len(log))
  <2>1. \A i \in 1 .. Len(log) : log'[i] \in Payload
    BY <1>2, ElementOfSeq
  <2>2. /\ SubSeq(log', 1, Len(log)) \in Seq(Payload)
        /\ Len(SubSeq(log', 1, Len(log))) = Len(log)
        /\ \A i \in 1 .. Len(log) : SubSeq(log', 1, Len(log))[i] = log[i]
    BY <1>2, <2>1, SubSeqProperties
  <2>3. QED
    BY <1>2, <2>2, SeqEqual
<1>4. senders # {} /\ receivers # {}
      /\ UNCHANGED <<receivers, cursor, outcome, senders>>
  BY DEF Send
<1>5. QED
  BY <1>2, <1>3, <1>4 DEF Feed!Publish

LEMMA AnswerTells ==
    ASSUME BusInv, NEW r \in Receivers, TryRecv(r) \/ Look(r)
    PROVE  Feed!Hear(r) \/ Feed!Miss(r) \/ Feed!End(r)
<1>1. r \in receivers /\ Answer(r)
  BY DEF TryRecv, Look, BusInv, ReceivingIsSubscribed
<1>2. UNCHANGED <<log, receivers, senders>>
  BY <1>1 DEF Answer
<1>3. /\ Oldest \in Nat /\ Oldest <= nextSequence
      /\ \A c \in Oldest .. nextSequence - 1 :
            ring[c - Oldest + 1].payload = log[c + 1]
  BY Indexed DEF BusInv
<1>4. cursor[r] \in Nat /\ cursor[r] <= nextSequence /\ nextSequence \in Nat
      /\ Len(log) = nextSequence
  BY DEF BusInv, TypeOK, CursorsInLog, RingIsSuffix
<1>5. CASE TakeEvent(r)
  <2>1. cursor[r] \in Oldest .. nextSequence - 1
    BY <1>3, <1>4, <1>5 DEF TakeEvent
  <2>2. ring[cursor[r] - Oldest + 1].payload = log[cursor[r] + 1]
    BY <1>3, <2>1
  <2>3. /\ cursor' = [cursor EXCEPT ![r] = cursor[r] + 1]
        /\ outcome' = [outcome EXCEPT ![r] = Event(log[cursor[r] + 1])]
    BY <1>5, <2>2 DEF TakeEvent, Told
  <2>4. cursor[r] < Len(log) /\ cursor[r] + 1 <= Len(log)
    BY <1>3, <1>4, <2>1
  <2>5. UNCHANGED (senders # {})
    BY <1>2
  <2>6. Feed!Tell(r, Feed!Event(log[cursor[r] + 1]), 1)
    BY <1>1, <1>2, <2>3, <2>4, <2>5 DEF Feed!Tell, Feed!Event, Event
  <2>7. QED
    BY <2>4, <2>6 DEF Feed!Hear
<1>6. CASE SkipLost(r)
  <2> DEFINE n == Oldest - cursor[r]
  <2>1. n \in 1 .. Len(log) - cursor[r] /\ cursor[r] + n <= Len(log)
        /\ Oldest = cursor[r] + n
    BY <1>3, <1>4, <1>6 DEF SkipLost
  <2>2. /\ cursor' = [cursor EXCEPT ![r] = cursor[r] + n]
        /\ outcome' = [outcome EXCEPT ![r] = Lagged(n)]
    BY <1>6, <2>1 DEF SkipLost, Told
  <2>3. UNCHANGED (senders # {})
    BY <1>2
  <2>4. Feed!Tell(r, Feed!Missed(n), n)
    BY <1>1, <1>2, <2>1, <2>2, <2>3 DEF Feed!Tell, Feed!Missed, Lagged
  <2>5. QED
    BY <2>1, <2>4 DEF Feed!Miss
<1>7. CASE SeeClosed(r)
  <2>1. cursor[r] = Len(log) /\ senders = {}
    BY <1>3, <1>4, <1>7 DEF SeeClosed, CaughtUp
  <2>2. cursor' = [cursor EXCEPT ![r] = cursor[r] + 0]
    BY <1>7, <1>4 DEF SeeClosed, BusInv, TypeOK
  <2>3. UNCHANGED (senders # {})
    BY <1>2
  <2>4. outcome' = [outcome EXCEPT ![r] = Closed]
    BY <1>7 DEF SeeClosed
  <2>5. cursor[r] + 0 <= Len(log)
    BY <2>1, <1>4
  <2>6. Feed!Tell(r, Feed!Closed, 0)
    BY <1>1, <1>2, <2>2, <2>3, <2>4, <2>5 DEF Feed!Tell, Feed!Closed, Closed
  <2>7. QED
    BY <2>1, <2>6 DEF Feed!End
<1>8. QED
  BY <1>1, <1>5, <1>6, <1>7 DEF Answer

LEMMA StepFeed ==
    BusInv /\ [Next]_vars => [Feed!FeedNext]_(Feed!feedVars)
<1> SUFFICES ASSUME BusInv, [Next]_vars
             PROVE  Feed!FeedNext \/ UNCHANGED Feed!feedVars
  OBVIOUS
<1>1. ASSUME NEW s \in Senders, SenderStep(s)
      PROVE  Feed!FeedNext \/ UNCHANGED Feed!feedVars
  <2>1. CASE Send(s)
    BY <2>1, SendPublishes DEF Feed!FeedNext
  <2>2. CASE Notify(s)
    BY <2>2 DEF Notify, busVars, Feed!feedVars
  <2>3. CASE DropSender(s)
    <3>1. UNCHANGED <<log, receivers, cursor, outcome>>
      BY <2>3 DEF DropSender
    <3>2. CASE senders' = {}
      BY <3>1, <3>2 DEF Feed!FeedNext, Feed!Close
    <3>3. CASE senders' # {}
      BY <2>3, <3>1, <3>3 DEF DropSender, Feed!feedVars
    <3>4. QED
      BY <3>2, <3>3
  <2>4. ASSUME NEW t \in Senders, CloneSender(s, t)
        PROVE  UNCHANGED Feed!feedVars
    BY <2>4 DEF CloneSender, Feed!feedVars
  <2>5. QED
    BY <1>1, <2>1, <2>2, <2>3, <2>4 DEF SenderStep
<1>2. ASSUME NEW r \in Receivers, ReceiverStep(r)
      PROVE  Feed!FeedNext \/ UNCHANGED Feed!feedVars
  <2>1. CASE Subscribe(r)
    <3>1. Len(log) = nextSequence
      BY DEF BusInv, RingIsSuffix
    <3>2. Feed!Join(r)
      BY <2>1, <3>1 DEF Subscribe, Feed!Join, Feed!Nothing, Nothing
    <3>3. QED
      BY <3>2 DEF Feed!FeedNext
  <2>2. CASE TryRecv(r) \/ Look(r)
    BY <2>2, AnswerTells DEF Feed!FeedNext
  <2>3. CASE Recv(r) \/ LookEmpty(r) \/ FallAsleep(r) \/ Awake(r) \/ Cancel(r)
    BY <2>3 DEF Recv, LookEmpty, FallAsleep, Awake, Cancel, busVars, Feed!feedVars
  <2>4. CASE DropReceiver(r)
    <3>1. Feed!Leave(r)
      BY <2>4 DEF DropReceiver, Feed!Leave
    <3>2. QED
      BY <3>1 DEF Feed!FeedNext
  <2>5. QED
    BY <1>2, <2>1, <2>2, <2>3, <2>4 DEF ReceiverStep
<1>3. CASE UNCHANGED vars
  BY <1>3 DEF vars, busVars, Feed!feedVars
<1>4. QED
  BY <1>1, <1>2, <1>3 DEF Next

\* The bus keeps the promise of EventFeed: a receiver walks the log in order, with
\* every event heard or counted as missed, for any ring and any budgets.
THEOREM BusImplementsFeed == Spec => FeedImplemented
<1>1. Spec => [][Feed!FeedNext]_(Feed!feedVars)
  <2>1. BusInv /\ BusInv' /\ [Next]_vars => [Feed!FeedNext]_(Feed!feedVars)
    BY StepFeed
  <2>2. QED
    BY <2>1, BusInvariant, PTL DEF Spec
<1>2. Spec => Feed!FeedInit
  BY InitFeed DEF Spec
<1>3. QED
  BY <1>1, <1>2, PTL DEF FeedImplemented, Feed!FeedSpec

-----------------------------------------------------------------------------
(* Sums.  The library's induction takes the formula as a parameter; these  *)
(* take it as the set of numbers that satisfy it.                          *)

LEMMA LeastNat ==
    ASSUME NEW T \in SUBSET Nat, T # {}
    PROVE  \E x \in T : \A y \in T : x <= y
<1> DEFINE R == OpToRel(<, Nat)
<1>1. IsWellFoundedOn(R, Nat)
  BY NatLessThanWellFounded
<1>2. \A x, y \in Nat : y < x => <<y, x>> \in R
  BY DEF OpToRel
<1> HIDE DEF R
<1>3. PICK x \in T : \A y \in T : ~(<<y, x>> \in R)
  BY <1>1, WFMin
<1>4. ASSUME NEW y \in T PROVE x <= y
  <2>1. x \in Nat /\ y \in Nat /\ ~(y < x)
    BY <1>2, <1>3
  <2>2. QED
    BY <2>1
<1>5. QED
  BY <1>4

\* What holds of 0 and is handed on up to n holds of all up to n.
LEMMA UpTo ==
    ASSUME NEW n \in Nat, NEW S, 0 \in S, \A i \in 0 .. n - 1 : i \in S => i + 1 \in S
    PROVE  \A i \in 0 .. n : i \in S
<1> SUFFICES ASSUME NEW j \in 0 .. n, j \notin S PROVE FALSE
  OBVIOUS
<1> DEFINE T == {i \in 0 .. n : i \notin S}
<1>1. PICK x \in T : \A y \in T : x <= y
  <2>1. T \in SUBSET Nat /\ T # {}
    OBVIOUS
  <2>2. QED
    BY <2>1, LeastNat
<1>2. x # 0 /\ x - 1 \in 0 .. n - 1
  BY <1>1
<1>3. x - 1 \in S
  BY <1>1, <1>2
<1>4. QED
  BY <1>1, <1>2, <1>3

Sized(s) == Len(s) \in Nat /\ \A i \in 1 .. Len(s) : s[i].payload.size \in Nat

\* The recursion defines a function: it begins at 0 and adds the sizes up.
LEMMA TotalsAdd ==
    ASSUME NEW s, Sized(s)
    PROVE  /\ Totals(s)[0] = 0
           /\ \A i \in 1 .. Len(s) : Totals(s)[i] = Totals(s)[i - 1] + s[i].payload.size
           /\ \A i \in 0 .. Len(s) : Totals(s)[i] \in Nat
<1> DEFINE n == Len(s)
           Adds(m, h) == /\ h \in [0 .. m -> Nat] /\ h[0] = 0
                         /\ \A i \in 1 .. m : h[i] = h[i - 1] + s[i].payload.size
           Step(h) == [i \in 0 .. n |-> IF i = 0 THEN 0 ELSE h[i - 1] + s[i].payload.size]
           S == {m \in 0 .. n : \E h : Adds(m, h)}
<1>1. n \in Nat /\ \A i \in 1 .. n : s[i].payload.size \in Nat
  BY DEF Sized
<1> HIDE DEF n
<1>2. 0 \in S
  <2>1. Adds(0, [i \in 0 .. 0 |-> 0])
    OBVIOUS
  <2> HIDE DEF Adds
  <2>2. 0 \in 0 .. n /\ \E h : Adds(0, h)
    BY <1>1, <2>1
  <2>3. QED
    BY <2>2
<1>3. ASSUME NEW m \in 0 .. n - 1, m \in S PROVE m + 1 \in S
  <2>1. PICK h : Adds(m, h)
    BY <1>3
  <2> DEFINE more == [i \in 0 .. m + 1 |->
                        IF i = m + 1 THEN h[m] + s[m + 1].payload.size ELSE h[i]]
  <2>2. m \in Nat /\ m + 1 \in 1 .. n /\ s[m + 1].payload.size \in Nat /\ h[m] \in Nat
    BY <1>1, <2>1
  <2>3. more \in [0 .. m + 1 -> Nat] /\ more[0] = 0
    BY <2>1, <2>2
  <2>4. ASSUME NEW i \in 1 .. m + 1 PROVE more[i] = more[i - 1] + s[i].payload.size
    <3>1. CASE i = m + 1
      BY <2>2, <3>1
    <3>2. CASE i # m + 1
      <4>1. i \in 1 .. m /\ i - 1 \in 0 .. m + 1 /\ i - 1 # m + 1
        BY <2>2, <3>2
      <4>2. QED
        BY <2>1, <4>1
    <3>3. QED
      BY <3>1, <3>2
  <2>5. Adds(m + 1, more)
    BY <2>3, <2>4
  <2> HIDE DEF Adds, more
  <2>6. m + 1 \in 0 .. n
    BY <1>1
  <2>7. QED
    BY <2>5, <2>6
<1>4. n \in S
  <2> HIDE DEF S
  <2>1. \A m \in 0 .. n : m \in S
    BY <1>1, <1>2, <1>3, UpTo
  <2>2. QED
    BY <1>1, <2>1
<1>5. PICK h : Adds(n, h)
  <2> HIDE DEF Adds
  <2>1. QED
    BY <1>4
<1>6. h = Step(h)
  BY <1>1, <1>5
<1> DEFINE t == Totals(s)
<1>7. t = CHOOSE g : g = Step(g)
  BY DEF Totals, n
<1> HIDE DEF t
<1>8. t = Step(t)
  BY <1>6, <1>7
<1>9. t[0] = 0 /\ \A i \in 1 .. n : t[i] = t[i - 1] + s[i].payload.size
  BY <1>1, <1>8
<1> DEFINE N == {i \in 0 .. n : t[i] \in Nat}
<1>10. \A i \in 0 .. n : i \in N
  <2>1. 0 \in N
    BY <1>1, <1>9
  <2>2. ASSUME NEW i \in 0 .. n - 1, i \in N PROVE i + 1 \in N
    <3>1. i + 1 \in 1 .. n /\ i + 1 - 1 = i
      BY <1>1
    <3>2. t[i + 1] = t[i] + s[i + 1].payload.size
      BY <1>9, <3>1
    <3>3. QED
      BY <1>1, <2>2, <3>1, <3>2
  <2> HIDE DEF N
  <2>3. QED
    BY <1>1, <2>1, <2>2, UpTo
<1>11. QED
  BY <1>9, <1>10 DEF t, n

\* A part of s has, up to each of its entries, what s gains from its beginning.
LEMMA PartAdds ==
    ASSUME NEW s, NEW t, Sized(s), Sized(t), NEW k \in Nat, k + Len(t) <= Len(s),
           \A i \in 1 .. Len(t) : t[i].payload.size = s[k + i].payload.size
    PROVE  \A i \in 0 .. Len(t) : Totals(t)[i] = Totals(s)[k + i] - Totals(s)[k]
<1> DEFINE T == Totals(t)
           U == Totals(s)
           S == {i \in 0 .. Len(t) : T[i] = U[k + i] - U[k]}
<1>1. /\ Len(t) \in Nat /\ Len(s) \in Nat
      /\ \A i \in 1 .. Len(s) : s[i].payload.size \in Nat
  BY DEF Sized
<1>2. /\ T[0] = 0 /\ \A i \in 1 .. Len(t) : T[i] = T[i - 1] + t[i].payload.size
      /\ \A i \in 1 .. Len(s) : U[i] = U[i - 1] + s[i].payload.size
      /\ \A i \in 0 .. Len(s) : U[i] \in Nat
  BY TotalsAdd
<1> HIDE DEF T, U
<1>3. 0 \in S
  BY <1>1, <1>2
<1>4. ASSUME NEW i \in 0 .. Len(t) - 1, i \in S PROVE i + 1 \in S
  <2>1. /\ i + 1 \in 1 .. Len(t) /\ i + 1 - 1 = i
        /\ k + (i + 1) \in 1 .. Len(s) /\ k + (i + 1) - 1 = k + i
        /\ k + i \in 0 .. Len(s) /\ k \in 0 .. Len(s)
    BY <1>1
  <2>2. T[i + 1] = T[i] + t[i + 1].payload.size
    BY <1>2, <2>1
  <2>3. U[k + (i + 1)] = U[k + i] + s[k + (i + 1)].payload.size
    BY <1>2, <2>1
  <2>4. t[i + 1].payload.size = s[k + (i + 1)].payload.size
    BY <2>1
  <2>5. U[k + i] \in Nat /\ U[k] \in Nat /\ s[k + (i + 1)].payload.size \in Nat
    BY <1>1, <1>2, <2>1
  <2>6. T[i] = U[k + i] - U[k]
    BY <1>4
  <2>7. T[i + 1] = U[k + (i + 1)] - U[k]
    <3>1. T[i + 1] = (U[k + i] - U[k]) + s[k + (i + 1)].payload.size
      BY <2>2, <2>4, <2>6
    <3>2. U[k + (i + 1)] - U[k] = (U[k + i] - U[k]) + s[k + (i + 1)].payload.size
      <4> DEFINE a == U[k]  b == U[k + i]  c == s[k + (i + 1)].payload.size
      <4>1. a \in Int /\ b \in Int /\ c \in Int /\ U[k + (i + 1)] = b + c
        BY <2>3, <2>5
      <4> HIDE DEF a, b, c
      <4>2. U[k + (i + 1)] - a = (b - a) + c
        BY <4>1
      <4>3. QED
        BY <4>2 DEF a, b, c
    <3>3. QED
      BY <3>1, <3>2, Zenon
  <2>8. QED
    BY <1>1, <2>7
<1>5. \A i \in 0 .. Len(t) : i \in S
  <2> HIDE DEF S
  <2>1. QED
    BY <1>1, <1>3, <1>4, UpTo
<1>6. QED
  BY <1>5 DEF T, U

LEMMA TotalsGrow ==
    ASSUME NEW s, Sized(s), NEW i \in 0 .. Len(s), NEW j \in i .. Len(s)
    PROVE  Totals(s)[i] <= Totals(s)[j]
<1> DEFINE U == Totals(s)
           S == {m \in 0 .. Len(s) - i : U[i] <= U[i + m]}
<1>1. /\ Len(s) \in Nat /\ \A m \in 1 .. Len(s) : s[m].payload.size \in Nat
  BY DEF Sized
<1>2. /\ \A m \in 1 .. Len(s) : U[m] = U[m - 1] + s[m].payload.size
      /\ \A m \in 0 .. Len(s) : U[m] \in Nat
  BY TotalsAdd
<1> HIDE DEF U
<1>3. 0 \in S
  BY <1>1, <1>2
<1>4. ASSUME NEW m \in 0 .. (Len(s) - i) - 1, m \in S PROVE m + 1 \in S
  <2>1. i + (m + 1) \in 1 .. Len(s) /\ i + (m + 1) - 1 = i + m /\ i + m \in 0 .. Len(s)
    BY <1>1
  <2>2. U[i + (m + 1)] = U[i + m] + s[i + (m + 1)].payload.size
    BY <1>2, <2>1
  <2>3. U[i] \in Nat /\ U[i + m] \in Nat /\ s[i + (m + 1)].payload.size \in Nat
    BY <1>1, <1>2, <2>1
  <2>4. U[i] <= U[i + (m + 1)]
    <3>1. U[i] <= U[i + m]
      BY <1>4
    <3>2. QED
      BY <2>2, <2>3, <3>1
  <2>5. QED
    BY <1>1, <2>4
<1>5. j - i \in 0 .. Len(s) - i /\ Len(s) - i \in Nat /\ i + (j - i) = j
  BY <1>1
<1>6. j - i \in S
  <2> HIDE DEF S
  <2>1. QED
    BY <1>3, <1>4, <1>5, UpTo
<1>7. QED
  BY <1>5, <1>6 DEF U

-----------------------------------------------------------------------------
(* Whose lag means that he has fallen behind the budgets himself.          *)

History == [i \in 1 .. Len(log) |-> [payload |-> log[i]]]
Spent(i) == Totals(History)[i]
Start == nextSequence - Len(ring)

\* The budget is spent on the ring, and what a receiver that lags has not read
\* exceeds it, be it in the ring or lost.
BytesOK == bytes = Spent(nextSequence) - Spent(Start)
Overflowing ==
    \A r \in receivers :
        cursor[r] < Start =>
            \/ nextSequence - cursor[r] > MaxEvents
            \/ Spent(nextSequence) - Spent(cursor[r]) > MaxBytes
LagInv == BytesOK /\ Overflowing

LEMMA HistorySized ==
    ASSUME TypeOK, RingIsSuffix
    PROVE  /\ Len(History) = nextSequence /\ Sized(History)
           /\ \A i \in 1 .. nextSequence : History[i].payload = log[i] /\ log[i] \in Payload
<1>1. Len(log) = nextSequence /\ nextSequence \in Nat /\ log \in Seq(Payload)
  BY DEF TypeOK, RingIsSuffix
<1>2. \A i \in 1 .. nextSequence : log[i] \in Payload
  BY <1>1, ElementOfSeq
<1>3. \A i \in 1 .. nextSequence : History[i].payload = log[i]
  BY <1>1 DEF History
<1>4. Len(History) = nextSequence
  BY <1>1 DEF History
<1>5. \A i \in 1 .. nextSequence : log[i].size \in Nat
  BY <1>2, SizeAssumption DEF Payload
<1>6. QED
  BY <1>1, <1>2, <1>3, <1>4, <1>5 DEF Sized

LEMMA SpentIs ==
    ASSUME TypeOK, RingIsSuffix
    PROVE  /\ \A i \in 0 .. nextSequence : Spent(i) \in Nat
           /\ \A i \in 0 .. nextSequence : \A j \in i .. nextSequence : Spent(i) <= Spent(j)
  BY HistorySized, TotalsAdd, TotalsGrow DEF Spent

\* The first k entries of the ring have the bytes of their part of the history.
LEMMA PrefixSize ==
    ASSUME TypeOK, RingIsSuffix, NEW k \in 0 .. Len(ring)
    PROVE  SizeOf(SubSeq(ring, 1, k)) = Spent(Start + k) - Spent(Start)
<1> DEFINE t == SubSeq(ring, 1, k)
<1>1. /\ Len(ring) \in Nat /\ nextSequence \in Nat /\ Len(ring) <= nextSequence
      /\ \A i \in 1 .. Len(ring) : ring[i] \in Entry
  BY LenProperties, ElementOfSeq DEF TypeOK, RingIsSuffix
<1>2. Len(t) = k /\ \A i \in 1 .. k : t[i] = ring[i]
  BY <1>1, SubSeqProperties DEF TypeOK
<1>3. /\ Len(History) = nextSequence /\ Sized(History)
      /\ \A i \in 1 .. nextSequence : History[i].payload = log[i] /\ log[i] \in Payload
  BY HistorySized
<1>4. ASSUME NEW i \in 1 .. k
      PROVE  /\ t[i].payload.size = History[Start + i].payload.size
             /\ t[i].payload.size \in Nat
  <2>1. i \in 1 .. Len(ring) /\ Start + i \in 1 .. nextSequence
    BY <1>1 DEF Start
  <2>2. ring[i].payload = log[Start + i]
    BY <2>1 DEF RingIsSuffix, Start
  <2>3. log[Start + i].size \in Nat
    BY <1>3, <2>1, SizeAssumption DEF Payload
  <2>4. QED
    BY <1>2, <1>3, <2>1, <2>2, <2>3
<1>5. Sized(t)
  BY <1>2, <1>4 DEF Sized
<1>6. Start \in Nat /\ Start + k <= nextSequence
  BY <1>1 DEF Start
<1> HIDE DEF t
<1>7. Totals(t)[k] = Totals(History)[Start + k] - Totals(History)[Start]
  <2>1. Start + Len(t) <= Len(History) /\ \A i \in 1 .. Len(t) :
            t[i].payload.size = History[Start + i].payload.size
    BY <1>2, <1>3, <1>4, <1>6
  <2>2. \A i \in 0 .. Len(t) :
            Totals(t)[i] = Totals(History)[Start + i] - Totals(History)[Start]
    <3>1. Sized(History) /\ Start \in Nat
      BY <1>3, <1>6
    <3>2. /\ Start + Len(t) <= Len(History)
          /\ \A i \in 1 .. Len(t) : t[i].payload.size = History[Start + i].payload.size
      BY <2>1
    <3>3. QED
      BY <1>5, <3>1, <3>2, PartAdds
  <2>3. k \in 0 .. Len(t)
    BY <1>1, <1>2
  <2>4. QED
    BY <2>2, <2>3
<1>8. QED
  BY <1>2, <1>7 DEF SizeOf, Spent, t

\* A payload that is sent costs its size, and the past costs what it did.
LEMMA HistoryGrows ==
    ASSUME TypeOK, RingIsSuffix, TypeOK', RingIsSuffix', NEW p \in Payload,
           log' = Append(log, p), nextSequence' = nextSequence + 1
    PROVE  /\ \A i \in 0 .. nextSequence : Spent(i)' = Spent(i)
           /\ Spent(nextSequence)' = Spent(nextSequence) + p.size
<1> DEFINE n == nextSequence
           s == History
           t == History'
<1>1. n \in Nat /\ Len(log) = n /\ log \in Seq(Payload)
  BY DEF TypeOK, RingIsSuffix
<1>2. Len(log') = n + 1 /\ log'[n + 1] = p /\ \A i \in 1 .. n : log'[i] = log[i]
  BY <1>1, AppendProperties
<1>3. /\ Len(s) = n /\ Sized(s)
      /\ \A i \in 1 .. n : s[i].payload = log[i] /\ log[i] \in Payload
  BY HistorySized
<1>4. /\ Len(t) = n + 1 /\ \A i \in 1 .. n + 1 : t[i].payload = log'[i]
  BY <1>1, <1>2 DEF History
<1>5. /\ t[n + 1].payload.size = p.size
      /\ \A i \in 1 .. n : t[i].payload.size = s[i].payload.size
  BY <1>1, <1>2, <1>3, <1>4
<1>6. Sized(t)
  <2>1. p.size \in Nat
    BY SizeAssumption DEF Payload
  <2>2. QED
    BY <1>1, <1>3, <1>4, <1>5, <2>1 DEF Sized
<1> HIDE DEF n, s, t
<1>7. /\ Totals(t)[0] = 0
      /\ Totals(t)[n + 1] = Totals(t)[n] + p.size
      /\ \A i \in 0 .. n : Totals(t)[i] \in Nat
  <2>1. n + 1 \in 1 .. Len(t) /\ n + 1 - 1 = n
    BY <1>1, <1>4
  <2>2. QED
    BY <1>1, <1>4, <1>5, <1>6, <2>1, TotalsAdd
<1>8. \A i \in 0 .. n : Totals(s)[i] = Totals(t)[0 + i] - Totals(t)[0]
  <2>1. \A i \in 1 .. Len(s) : s[i].payload.size = t[0 + i].payload.size
    BY <1>1, <1>3, <1>5
  <2>2. 0 + Len(s) <= Len(t) /\ 0 \in Nat
    BY <1>1, <1>3, <1>4
  <2>3. QED
    BY <1>3, <1>6, <2>1, <2>2, PartAdds
<1>9. \A i \in 0 .. n : Totals(t)[i] = Totals(s)[i]
  BY <1>1, <1>7, <1>8
<1>10. Totals(t)[n + 1] = Totals(s)[n] + p.size
  BY <1>1, <1>7, <1>9
<1>11. QED
  BY <1>1, <1>9, <1>10 DEF n, s, t, Spent

LEMMA ReclaimLag ==
    ASSUME BusInv, BytesOK, NEW curs \in [Receivers -> Nat],
           NEW rcvs \in SUBSET Receivers, Reclaim(curs, rcvs),
           UNCHANGED <<log, nextSequence>>
    PROVE  BytesOK' /\ \A r \in rcvs : curs[r] < Start' => Start' = Start
<1> USE DEF BusInv
<1>1. PICK k \in 0 .. Len(ring) :
        /\ \A i \in 1 .. k : \A r \in rcvs : ring[i].sequence < curs[r]
        /\ ring' = DropFront(k)
        /\ bytes' = bytes - SizeOf(SubSeq(ring, 1, k))
  BY DEF Reclaim
<1>2. /\ Len(ring) \in Nat /\ nextSequence \in Nat /\ Len(ring) <= nextSequence
  BY LenProperties DEF TypeOK, RingIsSuffix
<1>3. Len(ring') = Len(ring) - k
  BY <1>1, Dropped
<1>4. /\ Start' = Start + k /\ Start \in 0 .. nextSequence
      /\ Start + k \in 0 .. nextSequence
  BY <1>2, <1>3 DEF Start
<1>5. SizeOf(SubSeq(ring, 1, k)) = Spent(Start + k) - Spent(Start)
  BY PrefixSize
<1>6. /\ Spent(Start) \in Nat /\ Spent(Start + k) \in Nat /\ Spent(nextSequence) \in Nat
  BY <1>2, <1>4, SpentIs
<1>7. bytes' = Spent(nextSequence) - Spent(Start + k)
  BY <1>1, <1>5, <1>6 DEF BytesOK
<1>8. History' = History
  BY DEF History
<1>9. BytesOK'
  BY <1>4, <1>7, <1>8 DEF BytesOK, Spent
<1>10. ASSUME NEW r \in rcvs, curs[r] < Start' PROVE k = 0
  <2>1. SUFFICES ASSUME k # 0 PROVE FALSE
    OBVIOUS
  <2>2. k \in 1 .. k /\ k \in 1 .. Len(ring)
    BY <1>2, <2>1
  <2>3. ring[k].sequence = Start + k - 1
    BY <1>2, <2>2 DEF RingIsSuffix, Start
  <2>4. ring[k].sequence < curs[r] /\ curs[r] \in Nat
    BY <1>1, <2>2
  <2>5. QED
    BY <1>2, <1>4, <1>10, <2>3, <2>4
<1>11. QED
  BY <1>2, <1>4, <1>9, <1>10

LEMMA SendLag ==
    ASSUME BusInv, LagInv, BusInv', NEW s \in Senders, Send(s)
    PROVE  LagInv'
<1> DEFINE n == nextSequence
           o == Start
<1>1. PICK p \in Payload : Retain(p) /\ log' = Append(log, p)
  <2>1. PICK size \in Sizes :
          LET q == [number |-> Len(log), size |-> size] IN
          Retain(q) /\ log' = Append(log, q)
    BY DEF Send
  <2>2. [number |-> Len(log), size |-> size] \in Payload
    BY LenProperties DEF Payload, BusInv, TypeOK
  <2>3. QED
    BY <2>1, <2>2
<1>2. nextSequence' = n + 1 /\ UNCHANGED <<cursor, receivers>>
  BY DEF Send
<1>3. /\ \A i \in 0 .. n : Spent(i)' = Spent(i)
      /\ Spent(nextSequence)' = Spent(n) + p.size
  BY <1>1, <1>2, HistoryGrows DEF BusInv
<1>4. /\ \A i \in 0 .. n : Spent(i) \in Nat
      /\ \A i \in 0 .. n : \A j \in i .. n : Spent(i) <= Spent(j)
  BY SpentIs DEF BusInv
<1>5. /\ Len(ring) \in Nat /\ n \in Nat /\ Len(ring) <= n /\ p.size \in Nat
      /\ MaxEvents \in Nat /\ MaxBytes \in Nat
  BY LenProperties, SizeAssumption DEF BusInv, TypeOK, RingIsSuffix, Payload
<1>6. \A r \in receivers : cursor[r] \in 0 .. n
  BY <1>5 DEF BusInv, TypeOK, CursorsInLog
<1>7. o \in 0 .. n /\ bytes = Spent(n) - Spent(o)
  BY <1>5 DEF Start, LagInv, BytesOK
<1>8. CASE MaxEvents = 0 \/ p.size > MaxBytes
  <2>1. ring' = <<>> /\ bytes' = 0
    BY <1>1, <1>8 DEF Retain
  <2>2. Start' = n + 1
    BY <1>2, <1>5, <2>1, EmptySeq DEF Start
  <2>3. BytesOK'
    <3>1. Spent(nextSequence)' = Spent(Start)'
      BY <1>2, <2>2
    <3>2. Spent(nextSequence)' \in Nat
      BY <1>3, <1>4, <1>5
    <3>3. QED
      BY <2>1, <3>1, <3>2 DEF BytesOK
  <2>4. ASSUME NEW r \in receivers
        PROVE  \/ nextSequence' - cursor[r] > MaxEvents
               \/ Spent(nextSequence)' - Spent(cursor[r])' > MaxBytes
    <3>1. Spent(cursor[r])' = Spent(cursor[r])
      BY <1>2, <1>3, <1>6
    <3>2. Spent(cursor[r]) <= Spent(n) /\ Spent(cursor[r]) \in Nat /\ Spent(n) \in Nat
      BY <1>4, <1>5, <1>6
    <3>3. n + 1 - cursor[r] > 0
      BY <1>5, <1>6
    <3>4. CASE MaxEvents = 0
      <4>1. nextSequence' - cursor[r] > MaxEvents
        BY <1>2, <1>5, <1>6, <3>3, <3>4
      <4>2. QED
        BY ONLY <4>1
    <3>5. CASE p.size > MaxBytes
      <4>1. Spent(n) + p.size - Spent(cursor[r]) > MaxBytes
        BY <1>5, <3>2, <3>5
      <4>2. Spent(nextSequence)' - Spent(cursor[r])' > MaxBytes
        BY <1>3, <3>1, <4>1, <1>4, <1>5, <3>2
      <4>3. QED
        BY ONLY <4>2
    <3>6. QED
      BY <1>8, <3>4, <3>5
  <2>5. Overflowing'
    BY <1>2, <2>4 DEF Overflowing
  <2>6. QED
    BY <2>3, <2>5 DEF LagInv
<1>9. CASE ~(MaxEvents = 0 \/ p.size > MaxBytes)
  <2> DEFINE e == [sequence |-> nextSequence, payload |-> p]
  <2>1. PICK k \in 0 .. Len(ring) :
            /\ \A j \in 0 .. k - 1 : ~Fits(j, p.size)
            /\ ring' = Append(DropFront(k), e)
            /\ bytes' = bytes - SizeOf(SubSeq(ring, 1, k)) + p.size
    BY <1>1, <1>9 DEF Retain
  <2>2. Len(ring') = Len(ring) - k + 1
    <3>1. DropFront(k) \in Seq(Entry) /\ Len(DropFront(k)) = Len(ring) - k
      BY Dropped DEF BusInv
    <3>2. e \in Entry
      BY <1>5 DEF Entry
    <3>3. QED
      BY <2>1, <3>1, <3>2, AppendProperties
  <2> HIDE DEF e
  <2>3. Start' = o + k /\ o + k \in 0 .. n
    BY <1>2, <1>5, <2>2 DEF Start
  <2>4. SizeOf(SubSeq(ring, 1, k)) = Spent(o + k) - Spent(o)
    BY PrefixSize DEF BusInv
  <2>5. Spent(Start)' = Spent(o + k)
    BY <1>3, <2>3
  <2>6. Spent(o) \in Nat /\ Spent(o + k) \in Nat /\ Spent(n) \in Nat
    BY <1>4, <1>5, <1>7, <2>3
  <2>7. BytesOK'
    <3>1. bytes' = bytes - (Spent(o + k) - Spent(o)) + p.size
      BY <2>1, <2>4
    <3>2. bytes = Spent(n) - Spent(o) /\ p.size \in Nat
      BY <1>5, <1>7
    <3>3. bytes' = Spent(n) + p.size - Spent(o + k)
      BY <2>6, <3>1, <3>2
    <3>4. Spent(nextSequence)' = Spent(n) + p.size
      BY <1>3
    <3>5. bytes' = Spent(nextSequence)' - Spent(Start)'
      BY <2>5, <2>6, <3>2, <3>3, <3>4
    <3>6. QED
      BY <3>5 DEF BytesOK
  <2>8. ASSUME NEW r \in receivers, cursor[r] < o + k
        PROVE  \/ nextSequence' - cursor[r] > MaxEvents
               \/ Spent(nextSequence)' - Spent(cursor[r])' > MaxBytes
    <3>1. Spent(cursor[r])' = Spent(cursor[r]) /\ Spent(cursor[r]) \in Nat
      BY <1>2, <1>3, <1>4, <1>6
    <3>2. CASE k = 0
      <4>1. cursor[r] < Start
        BY <1>5, <1>7, <2>8, <3>2
      <4>2. \/ n - cursor[r] > MaxEvents
            \/ Spent(n) - Spent(cursor[r]) > MaxBytes
        BY <4>1 DEF LagInv, Overflowing
      <4>3. CASE n - cursor[r] > MaxEvents
        BY <1>2, <1>5, <1>6, <4>3
      <4>4. CASE Spent(n) - Spent(cursor[r]) > MaxBytes
        <5>1. Spent(n) + p.size - Spent(cursor[r]) > MaxBytes
          BY <1>5, <2>6, <3>1, <4>4
        <5>2. Spent(nextSequence)' - Spent(cursor[r])' > MaxBytes
          BY <1>3, <3>1, <5>1, <1>4, <1>5, <2>6
        <5>3. QED
          BY ONLY <5>2
      <4>5. QED
        BY <4>2, <4>3, <4>4
    <3>3. CASE k # 0
      <4> DEFINE last == o + (k - 1)
      <4>1. k - 1 \in 0 .. k - 1 /\ k - 1 \in 0 .. Len(ring)
        BY <1>5, <3>3
      <4>2. \/ Len(ring) - (k - 1) >= MaxEvents
            \/ bytes - SizeOf(SubSeq(ring, 1, k - 1)) > MaxBytes - p.size
        <5>1. SizeOf(SubSeq(ring, 1, k - 1)) = Spent(last) - Spent(o)
          BY <4>1, PrefixSize DEF BusInv
        <5>2. Spent(last) \in Nat
          BY <1>4, <1>5, <1>7, <2>3, <4>1
        <5>3. ~Fits(k - 1, p.size)
          BY <2>1, <4>1
        <5>4. ~(Len(ring) - (k - 1) < MaxEvents)
              \/ ~(bytes - SizeOf(SubSeq(ring, 1, k - 1)) <= MaxBytes - p.size)
          BY <5>3 DEF Fits
        <5>5. Len(ring) - (k - 1) \in Int /\ bytes - SizeOf(SubSeq(ring, 1, k - 1)) \in Int
          BY <1>5, <1>7, <2>6, <4>1, <5>1, <5>2
        <5>6. MaxBytes - p.size \in Int /\ MaxEvents \in Int
          BY <1>5
        <5>7. QED
          BY <5>4, <5>5, <5>6
      <4>3. SizeOf(SubSeq(ring, 1, k - 1)) = Spent(last) - Spent(o)
        BY <4>1, PrefixSize DEF BusInv
      <4>4. last \in 0 .. n /\ last \in cursor[r] .. n /\ n - last = Len(ring) - (k - 1)
        BY <1>5, <1>6, <1>7, <2>3, <2>8, <3>3 DEF Start
      <4>5. Spent(last) \in Nat /\ Spent(cursor[r]) <= Spent(last)
        BY <1>4, <1>6, <4>4
      <4> HIDE DEF last
      <4>6. CASE Len(ring) - (k - 1) >= MaxEvents
        <5>1. n - last >= MaxEvents /\ last >= cursor[r] /\ cursor[r] \in Int /\ last \in Int
          BY <1>6, <4>4, <4>6
        <5>2. n + 1 - cursor[r] > MaxEvents
          BY <1>5, <5>1
        <5>3. nextSequence' - cursor[r] > MaxEvents
          BY <1>2, <1>5, <1>6, <5>2
        <5>4. QED
          BY ONLY <5>3
      <4>7. CASE bytes - SizeOf(SubSeq(ring, 1, k - 1)) > MaxBytes - p.size
        <5>2. Spent(n) - Spent(last) > MaxBytes - p.size
          BY <1>7, <2>6, <4>3, <4>5, <4>7
        <5>3. Spent(n) + p.size - Spent(cursor[r]) > MaxBytes
          BY <1>5, <2>6, <3>1, <4>5, <5>2
        <5>4. Spent(nextSequence)' - Spent(cursor[r])' > MaxBytes
          BY <1>3, <3>1, <5>3, <1>4, <1>5, <2>6
        <5>5. QED
          BY ONLY <5>4
      <4>8. QED
        BY <4>2, <4>6, <4>7
    <3>4. QED
      BY <3>2, <3>3
  <2>9. Overflowing'
    BY <1>2, <2>3, <2>8 DEF Overflowing
  <2>10. QED
    BY <2>7, <2>9 DEF LagInv
<1>10. QED
  BY <1>8, <1>9

\* A step that leaves the ring, the log and the cursors of those who stay alone.
LEMMA LagUntouched ==
    ASSUME LagInv, UNCHANGED <<ring, bytes, log, nextSequence, cursor, receivers>>
    PROVE  LagInv'
  BY DEF LagInv, BytesOK, Overflowing, Spent, Start, History

LEMMA SubscribeLag ==
    ASSUME BusInv, LagInv, NEW r \in Receivers, Subscribe(r)
    PROVE  LagInv'
<1>1. /\ UNCHANGED <<ring, bytes, log, nextSequence>>
      /\ receivers' = receivers \cup {r}
      /\ cursor'[r] = nextSequence /\ \A q \in receivers : q # r => cursor'[q] = cursor[q]
  BY DEF Subscribe, BusInv, TypeOK
<1>2. Start <= nextSequence
  BY LenProperties DEF Start, BusInv, TypeOK
<1>3. Start' = Start /\ History' = History
  BY <1>1 DEF Start, History
<1>4. BytesOK'
  BY <1>1, <1>3 DEF LagInv, BytesOK, Spent
<1>5. r \notin receivers
  BY DEF Subscribe
<1>6. nextSequence \in Nat /\ Start \in Int
  BY LenProperties DEF Start, BusInv, TypeOK
<1>7. ASSUME NEW q \in receivers', cursor'[q] < Start' PROVE q \in receivers /\ q # r
  BY <1>1, <1>2, <1>3, <1>6, <1>7
<1>8. ASSUME NEW q \in receivers', cursor'[q] < Start'
      PROVE  \/ nextSequence' - cursor'[q] > MaxEvents
             \/ Spent(nextSequence)' - Spent(cursor[q])' > MaxBytes
  <2>1. q \in receivers /\ cursor'[q] = cursor[q] /\ cursor[q] < Start
    BY <1>1, <1>3, <1>7, <1>8
  <2>2. QED
    BY <1>1, <1>3, <2>1 DEF LagInv, Overflowing, Spent
<1>9. Overflowing'
  BY <1>8 DEF Overflowing
<1>10. QED
  BY <1>4, <1>9 DEF LagInv

LEMMA AnswerLag ==
    ASSUME BusInv, LagInv, NEW r \in receivers, Answer(r)
    PROVE  LagInv'
<1>1. UNCHANGED <<nextSequence, receivers, log>> /\ History' = History
  BY DEF Answer, History
<1>2. CASE SeeClosed(r)
  BY <1>1, <1>2, LagUntouched DEF SeeClosed
<1>3. ASSUME NEW what, NEW next \in Nat, Told(r, what, next), next >= Start
      PROVE  LagInv'
  <2>1. r \in Receivers /\ receivers \in SUBSET Receivers
    BY DEF BusInv, TypeOK
  <2>2. /\ cursor' = [cursor EXCEPT ![r] = next] /\ Reclaim(cursor', receivers)
        /\ cursor' \in [Receivers -> Nat] /\ cursor'[r] = next
        /\ \A q \in receivers : q # r => cursor'[q] = cursor[q]
    BY <1>3, <2>1 DEF Told, BusInv, TypeOK
  <2>3. BytesOK' /\ \A q \in receivers : cursor'[q] < Start' => Start' = Start
    BY <1>1, <2>1, <2>2, ReclaimLag DEF LagInv
  <2>4. Start \in Nat
    BY LenProperties DEF Start, BusInv, TypeOK, RingIsSuffix
  <2>5. Overflowing'
    BY <1>1, <1>3, <2>2, <2>3, <2>4 DEF LagInv, Overflowing, Spent
  <2>6. QED
    BY <2>3, <2>5 DEF LagInv
<1>4. Oldest = Start /\ Oldest \in Nat /\ cursor[r] \in Nat
  BY Indexed DEF BusInv, TypeOK, Start
<1>5. CASE TakeEvent(r)
  BY <1>3, <1>4, <1>5 DEF TakeEvent
<1>6. CASE SkipLost(r)
  BY <1>3, <1>4, <1>6 DEF SkipLost
<1>7. QED
  BY <1>2, <1>5, <1>6 DEF Answer

LEMMA DropReceiverLag ==
    ASSUME BusInv, LagInv, NEW r \in Receivers, DropReceiver(r)
    PROVE  LagInv'
<1>1. /\ UNCHANGED <<nextSequence, cursor, log>> /\ History' = History
      /\ receivers' \subseteq receivers
  BY DEF DropReceiver, History
<1>2. /\ receivers' \in SUBSET Receivers
      /\ Reclaim(cursor, receivers') /\ cursor \in [Receivers -> Nat]
  BY DEF DropReceiver, BusInv, TypeOK
<1>3. BytesOK' /\ \A q \in receivers' : cursor[q] < Start' => Start' = Start
  BY <1>1, <1>2, ReclaimLag DEF LagInv
<1>4. Overflowing'
  BY <1>1, <1>3 DEF LagInv, Overflowing, Spent
<1>5. QED
  BY <1>3, <1>4 DEF LagInv

LEMMA StepLag == BusInv /\ LagInv /\ [Next]_vars => LagInv'
<1> SUFFICES ASSUME BusInv, LagInv, [Next]_vars PROVE LagInv'
  OBVIOUS
<1>1. BusInv'
  BY StepInv
<1>2. ASSUME NEW s \in Senders, SenderStep(s) PROVE LagInv'
  <2>1. CASE Send(s)
    BY <1>1, <2>1, SendLag
  <2>2. CASE Notify(s) \/ DropSender(s) \/ \E t \in Senders : CloneSender(s, t)
    BY <2>2, LagUntouched DEF Notify, DropSender, CloneSender, busVars
  <2>3. QED
    BY <1>2, <2>1, <2>2 DEF SenderStep
<1>3. ASSUME NEW r \in Receivers, ReceiverStep(r) PROVE LagInv'
  <2>1. CASE TryRecv(r) \/ Look(r)
    <3>1. r \in receivers /\ Answer(r)
      BY <2>1 DEF TryRecv, Look, BusInv, ReceivingIsSubscribed
    <3>2. QED
      BY <3>1, AnswerLag
  <2>2. CASE Recv(r) \/ LookEmpty(r) \/ FallAsleep(r) \/ Awake(r) \/ Cancel(r)
    BY <2>2, LagUntouched DEF Recv, LookEmpty, FallAsleep, Awake, Cancel, busVars
  <2>3. QED
    BY <1>3, <2>1, <2>2, SubscribeLag, DropReceiverLag DEF ReceiverStep
<1>4. CASE UNCHANGED vars
  BY <1>4, LagUntouched DEF vars, busVars
<1>5. QED
  BY <1>2, <1>3, <1>4 DEF Next

\* Only who has fallen behind the budgets himself is told of a lag: whatever fits
\* is kept for a receiver, however slow the others are.
THEOREM OnlyOverflowLags == Spec => []LagMeansOverflow
<1>1. Init => LagInv
  <2> SUFFICES ASSUME Init PROVE LagInv
    OBVIOUS
  <2>1. /\ nextSequence = 0 /\ bytes = 0 /\ receivers = {}
        /\ ring = <<>>
    BY DEF Init
  <2>2. Start = 0
    <3>1. Len(ring) = 0
      BY <2>1, EmptySeq
    <3>2. nextSequence = 0
      BY <2>1
    <3>3. QED
      BY <3>1, <3>2 DEF Start
  <2>3. Spent(0) \in Nat
    BY InitInv, SpentIs, <2>1 DEF BusInv
  <2>4. QED
    BY <2>1, <2>2, <2>3 DEF LagInv, BytesOK, Overflowing
<1>2. BusInv /\ LagInv => LagMeansOverflow
  <2> SUFFICES ASSUME BusInv, LagInv, NEW r \in receivers
               PROVE  LET unread == [i \in 1 .. nextSequence - cursor[r] |->
                                        [payload |-> log[cursor[r] + i]]] IN
                      (Len(unread) <= MaxEvents /\ SizeOf(unread) <= MaxBytes)
                          => cursor[r] >= Oldest
    BY DEF LagMeansOverflow
  <2> DEFINE unread == [i \in 1 .. nextSequence - cursor[r] |->
                          [payload |-> log[cursor[r] + i]]]
             c == cursor[r]
             n == nextSequence
  <2>1. c \in 0 .. n /\ n \in Nat /\ Oldest = Start /\ Oldest \in Nat
    BY Indexed DEF BusInv, TypeOK, CursorsInLog, Start
  <2>2. Len(unread) = n - c
    BY <2>1
  <2>3. /\ Len(History) = n /\ Sized(History)
        /\ \A i \in 1 .. n : History[i].payload = log[i] /\ log[i] \in Payload
    BY HistorySized DEF BusInv
  <2>4. ASSUME NEW i \in 1 .. n - c
        PROVE  /\ unread[i].payload.size = History[c + i].payload.size
               /\ unread[i].payload.size \in Nat
    <3>1. c + i \in 1 .. n
      BY <2>1
    <3>2. unread[i].payload = log[c + i]
      OBVIOUS
    <3>3. log[c + i].size \in Nat
      BY <2>3, <3>1, SizeAssumption DEF Payload
    <3>4. QED
      BY <2>3, <3>1, <3>2, <3>3
  <2> HIDE DEF unread, c, n
  <2>5. Sized(unread)
    <3>1. Len(unread) \in Nat
      BY <2>1, <2>2
    <3>2. \A i \in 1 .. Len(unread) : unread[i].payload.size \in Nat
      BY <2>2, <2>4
    <3>3. QED
      BY <3>1, <3>2 DEF Sized
  <2>6. SizeOf(unread) = Spent(n) - Spent(c)
    <3>a. /\ c \in Nat /\ c + Len(unread) <= Len(History)
          /\ \A i \in 1 .. Len(unread) :
                unread[i].payload.size = History[c + i].payload.size
      <4>1. c \in Nat /\ c + Len(unread) <= Len(History)
        BY <2>1, <2>2, <2>3
      <4>2. \A i \in 1 .. Len(unread) :
                unread[i].payload.size = History[c + i].payload.size
        BY <2>2, <2>4
      <4>3. QED
        BY <4>1, <4>2
    <3>b. Sized(History)
      BY <2>3
    <3>1. \A i \in 0 .. Len(unread) :
            Totals(unread)[i] = Totals(History)[c + i] - Totals(History)[c]
      BY <2>5, <3>a, <3>b, PartAdds
    <3>2. Len(unread) \in 0 .. Len(unread) /\ c + Len(unread) = n
      BY <2>1, <2>2
    <3>3. Totals(unread)[Len(unread)] = Totals(History)[n] - Totals(History)[c]
      BY <3>1, <3>2
    <3>4. QED
      BY <3>3 DEF SizeOf, Spent
  <2>7. Spent(n) \in Nat /\ Spent(c) \in Nat
    BY <2>1, SpentIs DEF BusInv, n, c
  <2>8. (Len(unread) <= MaxEvents /\ SizeOf(unread) <= MaxBytes) => c >= Oldest
    BY <2>1, <2>2, <2>6, <2>7, SizeAssumption DEF LagInv, Overflowing, n, c
  <2>9. QED
    BY <2>8 DEF unread, n, c
<1>3. QED
  BY <1>1, <1>2, StepLag, BusInvariant, PTL DEF Spec
=============================================================================
