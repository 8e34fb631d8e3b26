---------------------- MODULE EventStream_replay_proofs ----------------------
(***************************************************************************)
(* What TLAPS proves about one stream of EventStream, for all bounds, page *)
(* sizes and limits: a replay that goes over to the bus sends nothing      *)
(* twice but what it has shed, leaves out nothing of the journal unless it *)
(* was pruned meanwhile, and nothing that was broadcast since it           *)
(* subscribed.                                                             *)
(***************************************************************************)
EXTENDS EventStream_proofs, FiniteSetTheorems

(* Events: ids are given once, and the bus carries each once *)

EventTypes ==
    /\ bus \in Seq(Events) /\ stored \subseteq persisted
    /\ IsFiniteSet(rows) /\ IsFiniteSet(persisted)

IdsBelow ==
    /\ \A e \in persisted \cup Pending : e.id < made
    /\ \A i \in 1 .. Len(bus) : bus[i].id < made

IdsUnique == \A e, f \in persisted \cup Pending : e.id = f.id => e = f

BusOnce ==
    /\ \A i, j \in 1 .. Len(bus) : bus[i].id = bus[j].id => i = j
    /\ writing \cap stored = {}
    /\ \A e \in writing \cup stored, i \in 1 .. Len(bus) : bus[i].id # e.id

EventInv == EventTypes /\ IdsBelow /\ IdsUnique /\ BusOnce

(* The replay: how far it is, and what it has sent *)

Replaying == phase \in {"seek", "read"}

Cursory ==
    /\ phase \in {"floor", "seek", "read"} => at = start
    /\ phase \in {"off", "floor"} => sent = <<>>
    /\ phase = "floor" => cursor = asked
    /\ Replaying \/ phase = "live" => known \in Nat /\ known <= floor
    /\ Replaying => asked \in Nat /\ known <= from
    /\ phase = "read" => \A s \in page : s > from

\* What the replay has sent is stored at or below its cursor; a live stream has
\* sent that, and what the bus carried up to its place.
SentFrom ==
    /\ replayed \subseteq Range(sent) /\ IsFiniteSet(replayed)
    /\ Replaying =>
          \A i \in DOMAIN sent :
             /\ sent[i] \in replayed \cup shed
             /\ \E e \in persisted : e.id = sent[i] /\ e.seq <= from
    /\ phase = "live" =>
          \A i \in DOMAIN sent :
             sent[i] \in replayed \cup shed \/ \E j \in 1 .. at : bus[j].id = sent[i]

\* A row wanted is above the cursor asked for, and goes only when the floor passes it.
WantedRows ==
    /\ asked = NoCursor => wanted = {}
    /\ \A r \in wanted :
          /\ r.seq \in Nat /\ (asked # NoCursor => r.seq > asked)
          /\ r.seq > floor => r \in rows

\* Until the floor moves: the rows wanted at or below the cursor of the replay have
\* been sent; one above is on the page that is being read, or above all of it.
WantedSent ==
    known = floor =>
       /\ Replaying => \A r \in wanted :
             r.seq > known /\ r.seq <= from => r.id \in Range(sent)
       /\ phase = "read" =>
             /\ page \subseteq Seqs(rows)
             /\ \A r \in wanted :
                   r.seq > from => \/ r.seq \in page
                                   \/ page # {} /\ \A s \in page : s < r.seq

-----------------------------------------------------------------------------
(* Sequences in order *)

\* A finite set in the order of its sequences: each element is there, once.
LEMMA InOrderIs ==
    ASSUME NEW S, IsFiniteSet(S), \A x \in S : x.seq \in Nat, NEW s \in InOrder(S)
    PROVE  /\ s \in Seq(S) /\ DOMAIN s = 1 .. Len(s) /\ Len(s) \in Nat
           /\ \A i \in DOMAIN s : s[i] \in S
           /\ Range(s) = S
           /\ \A i, j \in DOMAIN s : s[i].seq = s[j].seq => i = j
<1> DEFINE n == Cardinality(S)
<1>1. n \in Nat
  BY FS_CardinalityType
<1>2. s \in [1 .. n -> S] /\ \A i, j \in DOMAIN s : i < j => s[i].seq < s[j].seq
  BY DEF InOrder
<1>3. s \in Seq(S) /\ DOMAIN s = 1 .. Len(s) /\ Len(s) = n
  BY <1>1, <1>2, IsASeq, LenProperties
<1>4. \A i, j \in DOMAIN s : s[i].seq = s[j].seq => i = j
  <2>1. ASSUME NEW i \in DOMAIN s, NEW j \in DOMAIN s, s[i].seq = s[j].seq
        PROVE  i = j
    <3>1. s[i].seq \in Nat /\ s[j].seq \in Nat /\ i \in Int /\ j \in Int
      BY <1>2, <1>1
    <3>2. ~(i < j) /\ ~(j < i)
      BY <1>2, <2>1, <3>1
    <3>3. QED
      BY <3>1, <3>2
  <2>2. QED
    BY <2>1
<1>5. s \in Injection(1 .. n, S)
  BY <1>2, <1>4 DEF Injection, IsInjective
<1>6. IsFiniteSet(1 .. n) /\ Cardinality(1 .. n) = n
  BY <1>1, FS_Interval
<1>7. s \in Surjection(1 .. n, S)
  BY <1>5, <1>6, FS_Injection
<1>8. Range(s) = S
  BY <1>2, <1>7 DEF Surjection, Range
<1>9. QED
  BY <1>1, <1>2, <1>3, <1>4, <1>8

LEMMA ImageFinite ==
    ASSUME NEW S, IsFiniteSet(S), NEW f, DOMAIN f = S
    PROVE  IsFiniteSet({f[x] : x \in S})
<1> DEFINE g == [x \in S |-> f[x]]
           T == {f[x] : x \in S}
<1>1. g \in Surjection(S, T)
  BY DEF Surjection
<1>2. QED
  BY <1>1, FS_Surjection

\* The first of a finite set of naturals: whatever is not among them comes after
\* all of them, and there is one.
LEMMA FirstOnes ==
    ASSUME NEW L \in SUBSET Nat, IsFiniteSet(L), NEW s \in L, NEW k \in Nat \ {0},
           s \notin {x \in L : Cardinality({t \in L : t < x}) < k}
    PROVE  LET P == {x \in L : Cardinality({t \in L : t < x}) < k} IN
           P # {} /\ \A x \in P : x < s
<1> DEFINE Below(x) == {t \in L : t < x}
           P == {x \in L : Cardinality(Below(x)) < k}
<1>1. \A x \in L : IsFiniteSet(Below(x)) /\ Cardinality(Below(x)) \in Nat
  <2>1. ASSUME NEW x \in L PROVE IsFiniteSet(Below(x)) /\ Cardinality(Below(x)) \in Nat
    <3>1. Below(x) \in SUBSET L
      OBVIOUS
    <3>2. IsFiniteSet(Below(x))
      BY <3>1, FS_Subset
    <3>3. QED
      BY <3>2, FS_CardinalityType
  <2>2. QED
    BY <2>1
<1>2. P # {}
  <2>1. L \subseteq Nat /\ L # {}
    OBVIOUS
  <2>2. PICK m \in L : \A e \in L : ~(<<e, m>> \in OpToRel(<, Nat))
    BY <2>1, NatLessThanWellFounded, WFMin
  <2>3. \A e \in L : ~(e < m)
    BY <2>2 DEF OpToRel
  <2>4. Below(m) = {}
    BY <2>3
  <2>5. Cardinality(Below(m)) = 0
    BY <2>4, FS_EmptySet
  <2>6. m \in P
    BY <2>5
  <2>7. QED
    BY <2>6
<1>3. ASSUME NEW x \in P PROVE x < s
  <2>1. x \in L /\ x \in Nat /\ s \in Nat /\ Cardinality(Below(x)) < k
    OBVIOUS
  <2>2. SUFFICES ASSUME s <= x PROVE FALSE
    BY <2>1
  <2>3. Below(s) \in SUBSET Below(x)
    <3>1. ASSUME NEW t \in L, t < s PROVE t < x
      <4>1. t \in Nat
        OBVIOUS
      <4>2. QED
        BY <4>1, <3>1, <2>1, <2>2
    <3>2. QED
      BY <3>1
  <2>4. Cardinality(Below(s)) <= Cardinality(Below(x))
    BY <2>3, <1>1, <2>1, FS_Subset
  <2>5. Cardinality(Below(s)) < k
    BY <2>4, <1>1, <2>1
  <2>6. QED
    BY <2>5
<1>4. QED
  BY <1>2, <1>3

-----------------------------------------------------------------------------
(* Events *)

LEMMA PendingAre ==
    ASSUME JournalInv
    PROVE  Pending \subseteq Events /\ persisted \subseteq Events /\ made \in Nat
<1>1. Range(queue) \subseteq Events
  BY ElementOfSeq, LenProperties DEF Range, JournalInv, JournalTypes
<1>2. QED
  BY <1>1 DEF JournalInv, JournalTypes, Pending

\* The steps of the publisher, the writer and retention that neither stamp nor
\* store only drop events that are pending.
LEMMA PendingShrinks ==
    ASSUME JournalInv,
           \/ \E e \in handing : Enqueue(e)
           \/ \E e \in writing : CommitFails(e)
           \/ WriteFails \/ Age \/ FindExpired \/ Prune \/ PruneGivesUp
           \/ Connect \/ ReadFloor \/ Seek \/ ReadPage \/ Deliver \/ Disconnect
           \/ UNCHANGED vars
    PROVE  /\ Pending' \subseteq Pending /\ writing' \subseteq writing
           /\ rows' \subseteq rows
           /\ UNCHANGED <<bus, stored, persisted, made>>
<1>1. /\ writing' \subseteq writing /\ rows' \subseteq rows
      /\ UNCHANGED <<bus, stored, persisted, made>>
  BY DEF Enqueue, CommitFails, WriteFails, Age, FindExpired, Prune, PruneGivesUp,
     Connect, ReadFloor, Seek, ReadPage, Deliver, Disconnect, vars, process,
     journal, counters
<1>2. CASE \E e \in handing : Enqueue(e)
  <2>1. PICK e \in handing : Enqueue(e)
    BY <1>2
  <2>2. Range(Append(queue, e)) = Range(queue) \cup {e}
    BY RangeAppend DEF JournalInv, JournalTypes
  <2>3. handing' = handing \ {e} /\ queue' = Append(queue, e)
    BY <2>1 DEF Enqueue
  <2>4. QED
    BY <1>1, <2>2, <2>3 DEF Pending
<1>3. CASE WriteFails
  <2>1. Range(Tail(queue)) \subseteq Range(queue)
    BY <1>3, RangeTail DEF WriteFails, JournalInv, JournalTypes
  <2>2. handing' = handing /\ queue' = Tail(queue)
    BY <1>3 DEF WriteFails
  <2>3. QED
    BY <1>1, <2>1, <2>2 DEF Pending
<1>4. CASE ~WriteFails /\ ~(\E e \in handing : Enqueue(e))
  <2>1. handing' = handing /\ queue' = queue
    BY <1>4 DEF CommitFails, Age, FindExpired, Prune, PruneGivesUp, Connect,
       ReadFloor, Seek, ReadPage, Deliver, Disconnect, vars, process
  <2>2. QED
    BY <1>1, <2>1 DEF Pending
<1>5. QED
  BY <1>1, <1>2, <1>3, <1>4

LEMMA EventShuffle ==
    ASSUME EventInv,
           Pending' \subseteq Pending, writing' \subseteq writing,
           rows' \subseteq rows, UNCHANGED <<bus, stored, persisted, made>>
    PROVE  EventInv'
<1>1. IsFiniteSet(rows')
  BY FS_Subset DEF EventInv, EventTypes
<1>2. EventTypes'
  BY <1>1 DEF EventInv, EventTypes
<1>3. IdsBelow' /\ IdsUnique'
  BY DEF EventInv, IdsBelow, IdsUnique
<1>4. BusOnce'
  BY DEF EventInv, BusOnce
<1>5. QED
  BY <1>2, <1>3, <1>4 DEF EventInv

\* A bus that ends in one more event.
LEMMA BusAppend ==
    ASSUME bus \in Seq(Events), NEW e \in Events, bus' = Append(bus, e)
    PROVE  /\ bus' \in Seq(Events) /\ Len(bus) \in Nat /\ Len(bus') = Len(bus) + 1
           /\ \A i \in 1 .. Len(bus) : i \in 1 .. Len(bus') /\ bus'[i] = bus[i]
           /\ bus'[Len(bus')] = e
           /\ \A i \in 1 .. Len(bus') : i \in 1 .. Len(bus) \/ i = Len(bus')
<1>1. /\ bus' \in Seq(Events) /\ Len(bus') = Len(bus) + 1
      /\ \A i \in 1 .. Len(bus) : bus'[i] = bus[i]
      /\ bus'[Len(bus) + 1] = e
  BY AppendProperties
<1>2. Len(bus) \in Nat
  BY LenProperties
<1>3. QED
  BY <1>1, <1>2

\* The bus stays without repetition when an event joins it that is not on it and
\* not waiting to be broadcast.
LEMMA BusOnceMore ==
    ASSUME EventInv, NEW e \in Events, bus' = Append(bus, e),
           \A i \in 1 .. Len(bus) : bus[i].id # e.id,
           writing' \cap stored' = {},
           \A f \in writing' \cup stored' : f.id # e.id /\ f \in writing \cup stored
    PROVE  BusOnce'
<1>1. /\ Len(bus) \in Nat /\ Len(bus') = Len(bus) + 1
      /\ \A i \in 1 .. Len(bus) : bus'[i] = bus[i]
      /\ bus'[Len(bus')] = e
      /\ \A i \in 1 .. Len(bus') : i \in 1 .. Len(bus) \/ i = Len(bus')
  BY BusAppend DEF EventInv, EventTypes
<1>2. ASSUME NEW i \in 1 .. Len(bus'), NEW j \in 1 .. Len(bus'), bus'[i].id = bus'[j].id
      PROVE  i = j
  <2>1. CASE i \in 1 .. Len(bus) /\ j \in 1 .. Len(bus)
    BY <2>1, <1>1, <1>2 DEF EventInv, BusOnce
  <2>2. CASE i = Len(bus') /\ j \in 1 .. Len(bus)
    BY <2>2, <1>1, <1>2
  <2>3. CASE i \in 1 .. Len(bus) /\ j = Len(bus')
    BY <2>3, <1>1, <1>2
  <2>4. QED
    BY <2>1, <2>2, <2>3, <1>1
<1>3. ASSUME NEW f \in writing' \cup stored', NEW i \in 1 .. Len(bus')
      PROVE  bus'[i].id # f.id
  <2>1. CASE i \in 1 .. Len(bus)
    BY <2>1, <1>1 DEF EventInv, BusOnce
  <2>2. CASE i = Len(bus')
    BY <2>2, <1>1
  <2>3. QED
    BY <2>1, <2>2, <1>1
<1>4. QED
  BY <1>2, <1>3 DEF BusOnce

LEMMA EventsStamped ==
    ASSUME JournalInv, EventInv, Publish \/ PublishLive \/ Allocate
    PROVE  EventInv'
<1>1. /\ made \in Nat /\ made' = made + 1 /\ Stamped \in Events /\ Stamped.id = made
      /\ UNCHANGED <<rows, persisted, stored>>
  BY PendingAre
     DEF Publish, PublishLive, Allocate, Stamp, Stamped, Events, journal, JournalInv,
         JournalTypes
<1>2. /\ handing' \subseteq handing \cup {Stamped}
      /\ writing' \subseteq writing \cup {Stamped} /\ queue' = queue
  BY DEF Publish, PublishLive, Allocate
<1>3. Pending' \subseteq Pending \cup {Stamped}
  BY <1>2 DEF Pending
<1>4. \A e \in persisted \cup Pending : e \in Events /\ e.id \in Nat /\ e.id < made
  BY PendingAre DEF EventInv, IdsBelow, Events
<1>5. \A i \in 1 .. Len(bus) : bus[i] \in Events /\ bus[i].id \in Nat /\ bus[i].id < made
  <2>1. \A i \in 1 .. Len(bus) : bus[i] \in Events
    BY ElementOfSeq DEF EventInv, EventTypes
  <2>2. QED
    BY <2>1 DEF EventInv, IdsBelow, Events
<1>6. writing \subseteq Pending /\ stored \subseteq persisted
  BY DEF Pending, EventInv, EventTypes
<1>7. IdsUnique'
  <2>1. ASSUME NEW e \in persisted' \cup Pending', NEW f \in persisted' \cup Pending',
               e.id = f.id
        PROVE  e = f
    <3>1. e \in persisted \cup Pending \/ e = Stamped
      BY <1>1, <1>3
    <3>2. f \in persisted \cup Pending \/ f = Stamped
      BY <1>1, <1>3
    <3>3. CASE e \in persisted \cup Pending /\ f \in persisted \cup Pending
      BY <3>3, <2>1 DEF EventInv, IdsUnique
    <3>4. CASE e \in persisted \cup Pending /\ f = Stamped
      BY <3>4, <2>1, <1>1, <1>4
    <3>5. CASE e = Stamped /\ f \in persisted \cup Pending
      BY <3>5, <2>1, <1>1, <1>4
    <3>6. QED
      BY <3>1, <3>2, <3>3, <3>4, <3>5
  <2>2. QED
    BY <2>1 DEF IdsUnique
<1>8. \A e \in persisted' \cup Pending' : e.id < made'
  <2>1. ASSUME NEW e \in persisted' \cup Pending' PROVE e.id < made'
    <3>1. e \in persisted \cup Pending \/ e = Stamped
      BY <1>1, <1>3
    <3>2. QED
      BY <3>1, <1>1, <1>4
  <2>2. QED
    BY <2>1
<1>9. CASE Allocate
  <2>1. bus' = bus
    BY <1>9 DEF Allocate
  <2>2. EventTypes'
    BY <1>1, <2>1 DEF EventInv, EventTypes
  <2>3. \A i \in 1 .. Len(bus') : bus'[i].id < made'
    BY <2>1, <1>1, <1>5
  <2>4. writing' \cap stored' = {}
    <3>1. Stamped \notin stored
      BY <1>1, <1>4, <1>6
    <3>2. QED
      BY <3>1, <1>1, <1>2 DEF EventInv, BusOnce
  <2>5. ASSUME NEW e \in writing' \cup stored', NEW i \in 1 .. Len(bus')
        PROVE  bus'[i].id # e.id
    <3>1. CASE e = Stamped
      BY <3>1, <2>1, <1>1, <1>5
    <3>2. CASE e \in writing \cup stored
      BY <3>2, <2>1 DEF EventInv, BusOnce
    <3>3. QED
      BY <3>1, <3>2, <1>1, <1>2
  <2>6. BusOnce'
    BY <2>1, <2>4, <2>5 DEF EventInv, BusOnce
  <2>7. QED
    BY <2>2, <2>3, <2>6, <1>7, <1>8 DEF EventInv, IdsBelow
<1>10. CASE Publish \/ PublishLive
  <2>1. bus' = Append(bus, Stamped) /\ writing' = writing
    BY <1>10 DEF Publish, PublishLive
  <2>2. /\ bus' \in Seq(Events)
        /\ \A i \in 1 .. Len(bus) : bus'[i] = bus[i]
        /\ bus'[Len(bus')] = Stamped
        /\ \A i \in 1 .. Len(bus') : i \in 1 .. Len(bus) \/ i = Len(bus')
    BY <2>1, <1>1, BusAppend DEF EventInv, EventTypes
  <2>3. EventTypes'
    BY <1>1, <2>2 DEF EventInv, EventTypes
  <2>4. ASSUME NEW i \in 1 .. Len(bus') PROVE bus'[i].id < made'
    <3>1. CASE i \in 1 .. Len(bus)
      BY <3>1, <2>2, <1>1, <1>5
    <3>2. CASE i = Len(bus')
      BY <3>2, <2>2, <1>1
    <3>3. QED
      BY <3>1, <3>2, <2>2
  <2>5. \A f \in writing' \cup stored' : f.id # Stamped.id /\ f \in writing \cup stored
    BY <2>1, <1>1, <1>4, <1>6
  <2>6. \A i \in 1 .. Len(bus) : bus[i].id # Stamped.id
    BY <1>1, <1>5
  <2>7. writing' \cap stored' = {}
    BY <2>1, <1>1 DEF EventInv, BusOnce
  <2>8. BusOnce'
    BY <2>1, <2>5, <2>6, <2>7, <1>1, BusOnceMore
  <2>9. QED
    BY <2>3, <2>4, <2>8, <1>7, <1>8 DEF EventInv, IdsBelow
<1>11. QED
  BY <1>9, <1>10

LEMMA EventsStored ==
    ASSUME JournalInv, EventInv, Write \/ \E e \in writing : Commit(e)
    PROVE  EventInv'
<1>1. PICK e \in Pending :
         /\ Store(e) /\ Pending' \subseteq Pending
         /\ UNCHANGED <<bus, made>>
         /\ writing' \subseteq writing
         /\ \/ stored' = stored
            \/ e \in writing /\ stored' = stored \cup {e} /\ writing' = writing \ {e}
  <2>1. CASE Write
    <3>1. /\ Head(queue) \in Range(queue) /\ Range(Tail(queue)) \subseteq Range(queue)
      BY <2>1, RangeTail DEF Write, JournalInv, JournalTypes
    <3>2. /\ Store(Head(queue)) /\ queue' = Tail(queue)
          /\ UNCHANGED <<handing, writing, stored, bus, made>>
      BY <2>1 DEF Write, counters
    <3>3. Head(queue) \in Pending /\ Pending' \subseteq Pending
      BY <3>1, <3>2 DEF Pending
    <3>4. QED
      BY <3>2, <3>3
  <2>2. CASE \E e \in writing : Commit(e)
    <3>1. PICK e \in writing : Commit(e)
      BY <2>2
    <3>2. /\ Store(e) /\ writing' = writing \ {e} /\ stored' = stored \cup {e}
          /\ UNCHANGED <<handing, queue, bus, made>>
      BY <3>1 DEF Commit, counters
    <3>3. e \in Pending /\ Pending' \subseteq Pending
      BY <3>1, <3>2 DEF Pending
    <3>4. QED
      BY <3>1, <3>2, <3>3
  <2>3. QED
    BY <2>1, <2>2
<1>2. persisted' = persisted \cup {e}
  BY <1>1 DEF Store
<1>3. IsFiniteSet(rows') /\ IsFiniteSet(persisted')
  <2>1. PICK row : rows' = rows \cup {row}
    BY <1>1 DEF Store
  <2>2. QED
    BY <2>1, <1>2, FS_AddElement DEF EventInv, EventTypes
<1>4. EventTypes'
  BY <1>1, <1>2, <1>3 DEF EventInv, EventTypes
<1>5. persisted' \cup Pending' \subseteq persisted \cup Pending
  BY <1>1, <1>2
<1>6. IdsBelow' /\ IdsUnique'
  BY <1>1, <1>5 DEF EventInv, IdsBelow, IdsUnique
<1>7. writing' \cap stored' = {} /\ writing' \cup stored' \subseteq writing \cup stored
  BY <1>1 DEF EventInv, BusOnce
<1>8. BusOnce'
  BY <1>1, <1>7 DEF EventInv, BusOnce
<1>9. QED
  BY <1>4, <1>6, <1>8 DEF EventInv

LEMMA EventsBroadcast ==
    ASSUME JournalInv, EventInv, NEW e \in stored, Broadcast(e)
    PROVE  EventInv'
<1>1. /\ stored' = stored \ {e} /\ bus' = Append(bus, e)
      /\ UNCHANGED <<handing, queue, writing, rows, persisted, made>>
  BY DEF Broadcast, journal, counters
<1>2. e \in persisted /\ e \in Events /\ stored \subseteq persisted
  BY PendingAre DEF EventInv, EventTypes
<1>3. Pending' = Pending /\ writing \subseteq Pending
  BY <1>1 DEF Pending
<1>4. /\ bus' \in Seq(Events)
      /\ \A i \in 1 .. Len(bus) : bus'[i] = bus[i]
      /\ bus'[Len(bus')] = e
      /\ \A i \in 1 .. Len(bus') : i \in 1 .. Len(bus) \/ i = Len(bus')
  BY <1>1, <1>2, BusAppend DEF EventInv, EventTypes
<1>5. EventTypes'
  BY <1>1, <1>4 DEF EventInv, EventTypes
<1>6. IdsUnique'
  BY <1>1, <1>3 DEF EventInv, IdsUnique
<1>7. \A i \in 1 .. Len(bus') : bus'[i].id < made'
  BY <1>1, <1>2, <1>4 DEF EventInv, IdsBelow
<1>8. IdsBelow'
  BY <1>1, <1>3, <1>7 DEF EventInv, IdsBelow
<1>9. \A f \in writing' \cup stored' : f.id # e.id /\ f \in writing \cup stored
  BY <1>1, <1>2, <1>3 DEF EventInv, IdsUnique, BusOnce
<1>10. BusOnce'
  BY <1>1, <1>2, <1>9, BusOnceMore DEF EventInv, BusOnce
<1>11. QED
  BY <1>5, <1>6, <1>8, <1>10 DEF EventInv

LEMMA EventsRestart ==
    ASSUME EventInv, Restart
    PROVE  EventInv'
<1>1. /\ handing' = {} /\ queue' = <<>> /\ writing' = {} /\ stored' = {} /\ bus' = <<>>
      /\ UNCHANGED <<rows, persisted, made>>
  BY DEF Restart, journal
<1>2. Pending' = {} /\ Len(bus') = 0 /\ bus' \in Seq(Events)
  BY <1>1, EmptySeq DEF Pending, Range
<1>3. 1 .. Len(bus') = {}
  BY <1>2
<1>4. QED
  BY <1>1, <1>2, <1>3 DEF EventInv, EventTypes, IdsBelow, IdsUnique, BusOnce

LEMMA EventStep == JournalInv /\ EventInv /\ [Next]_vars => EventInv'
BY PendingShrinks, EventShuffle, EventsStamped, EventsStored, EventsBroadcast,
   EventsRestart DEF Next

LEMMA EventInit == Init => EventInv
<1> SUFFICES ASSUME Init PROVE EventInv
  OBVIOUS
<1>1. Pending = {} /\ Len(bus) = 0 /\ bus \in Seq(Events)
  BY EmptySeq DEF Init, Pending, Range
<1>2. 1 .. Len(bus) = {}
  BY <1>1
<1>3. QED
  BY <1>1, <1>2, FS_EmptySet
     DEF Init, EventInv, EventTypes, IdsBelow, IdsUnique, BusOnce

-----------------------------------------------------------------------------
(* Steps that are not the stream's *)

Grows ==
    /\ persisted \subseteq persisted'
    /\ Len(bus) <= Len(bus') /\ \A i \in 1 .. Len(bus) : bus'[i] = bus[i]
    /\ floor \in Nat /\ floor' \in Nat /\ floor <= floor'
    /\ \A r \in rows : r.seq > floor' => r \in rows'

\* The bus and the store grow; what retention takes is below the floor.
LEMMA Elsewhere ==
    ASSUME JournalInv, EventInv, JournalInv',
           \/ Publish \/ PublishLive \/ Write \/ WriteFails \/ Allocate
           \/ \E e \in handing : Enqueue(e)
           \/ \E e \in writing : Commit(e) \/ CommitFails(e)
           \/ \E e \in stored : Broadcast(e)
           \/ Age \/ FindExpired \/ Prune \/ PruneGivesUp \/ UNCHANGED vars
    PROVE  Grows /\ UNCHANGED <<stream, client>>
<1>1. UNCHANGED <<stream, client>>
  BY DEF Publish, PublishLive, Write, WriteFails, Allocate, Enqueue, Commit,
     CommitFails, Broadcast, Age, FindExpired, Prune, PruneGivesUp, vars
<1>2. Len(bus) <= Len(bus') /\ \A i \in 1 .. Len(bus) : bus'[i] = bus[i]
  <2>1. CASE bus' = bus
    <3>1. Len(bus) \in Nat
      BY LenProperties DEF EventInv, EventTypes
    <3>2. QED
      BY <2>1, <3>1
  <2>2. CASE \E e \in Events : bus' = Append(bus, e)
    BY <2>2, BusAppend DEF EventInv, EventTypes
  <2>3. bus' = bus \/ \E e \in Events : bus' = Append(bus, e)
    <3>1. made \in Nat /\ sequence \in Nat /\ stored \subseteq Events
      BY PendingAre DEF JournalInv, JournalTypes, EventInv, EventTypes
    <3>2. Stamped \in Events
      BY <3>1 DEF Stamped, Events
    <3>3. QED
      BY <3>1, <3>2
         DEF Publish, PublishLive, Write, WriteFails, Allocate, Enqueue, Commit,
             CommitFails, Broadcast, Age, FindExpired, Prune, PruneGivesUp, vars,
             process
  <2>4. QED
    BY <2>1, <2>2, <2>3
<1>3. floor \in Nat /\ floor' \in Nat
  BY DEF JournalInv, JournalTypes
<1>4. CASE Prune
  <2>1. /\ floor' = Max({floor, pruning}) /\ persisted' = persisted
        /\ rows' = {r \in rows : r.seq <= floor \/ r.seq > pruning}
    BY <1>4 DEF Prune
  <2>2. pruning \in Nat
    BY DEF JournalInv, JournalTypes
  <2>3. floor <= floor' /\ pruning <= floor'
    BY <2>1, <2>2, <1>3, MaxOfTwo
  <2>4. ASSUME NEW r \in rows, r.seq > floor' PROVE r \in rows'
    <3>1. r.seq \in Nat
      BY DEF JournalInv, JournalTypes
    <3>2. r.seq > pruning
      BY <3>1, <2>2, <2>3, <2>4, <1>3
    <3>3. QED
      BY <3>2, <2>1
  <2>5. QED
    BY <2>1, <2>3, <2>4, <1>1, <1>2, <1>3 DEF Grows
<1>5. CASE ~Prune
  <2>1. floor' = floor /\ rows \subseteq rows' /\ persisted \subseteq persisted'
    BY <1>5
       DEF Publish, PublishLive, Write, WriteFails, Allocate, Enqueue, Commit,
           CommitFails, Broadcast, Age, FindExpired, PruneGivesUp, vars, journal, Store
  <2>2. QED
    BY <2>1, <1>1, <1>2, <1>3 DEF Grows
<1>6. QED
  BY <1>4, <1>5

-----------------------------------------------------------------------------
(* Types *)

\* What a client hears leaves its cursor, its memory and its application typed.
LEMMA HeardTypes ==
    ASSUME TypeOK, NEW news, IsFiniteSet(news), NEW most \in Nat,
           \A n \in news : /\ n.envelope \in {"row", "live"} \X Nat
                           /\ n.id \in Nat /\ n.seq \in Nat /\ n.seq <= most,
           Receive(news)
    PROVE  /\ cursor' \in Cursors /\ seen' \subseteq {"row", "live"} \X Nat
           /\ app' \in Seq(Nat) /\ excused' = excused
<1> DEFINE S == {n \in news : n.envelope \notin seen}
<1>1. PICK fresh \in InOrder(S) :
         /\ seen' = seen \cup {n.envelope : n \in news}
         /\ app' = app \o [i \in DOMAIN fresh |-> fresh[i].id]
         /\ cursor' = IF fresh = <<>> THEN cursor
                      ELSE Max((IF cursor = NoCursor THEN {} ELSE {cursor})
                               \cup Seqs(Range(fresh)))
         /\ excused' = excused
  BY DEF Receive
<1>2. IsFiniteSet(S) /\ \A x \in S : x \in news /\ x.seq \in Nat
  <2>1. S \in SUBSET news
    OBVIOUS
  <2>2. QED
    BY <2>1, FS_Subset
<1>3. /\ fresh \in Seq(S) /\ DOMAIN fresh = 1 .. Len(fresh) /\ Len(fresh) \in Nat
      /\ \A i \in DOMAIN fresh : fresh[i] \in S
      /\ Range(fresh) = S
  BY <1>2, InOrderIs
<1>4. seen' \subseteq {"row", "live"} \X Nat
  BY <1>1 DEF TypeOK
<1>5. app' \in Seq(Nat)
  <2> DEFINE ids == [i \in DOMAIN fresh |-> fresh[i].id]
  <2>1. \A i \in 1 .. Len(fresh) : fresh[i].id \in Nat
    BY <1>3
  <2>2. ids \in Seq(Nat)
    BY <1>3, <2>1, IsASeq
  <2>3. app \in Seq(Nat)
    BY DEF TypeOK
  <2>4. app \o ids \in Seq(Nat)
    BY <2>2, <2>3, ConcatProperties
  <2>5. QED
    BY <1>1, <2>4
<1>6. cursor' \in Cursors
  <2>1. cursor \in Cursors
    BY DEF TypeOK
  <2>2. CASE fresh = <<>>
    BY <2>1, <2>2, <1>1
  <2>3. CASE fresh # <<>>
    <3> DEFINE old == IF cursor = NoCursor THEN {} ELSE {cursor}
               T == old \cup Seqs(S)
               b == IF cursor = NoCursor THEN most ELSE cursor + most
    <3>1. old \subseteq Nat
      BY <2>1 DEF Cursors
    <3>2. \A x \in S : x.seq \in Nat /\ x.seq <= most
      OBVIOUS
    <3>3. Seqs(S) \subseteq Nat /\ \A t \in Seqs(S) : t <= most
      BY <3>2 DEF Seqs
    <3>4. b \in Nat /\ \A t \in T : t <= b
      BY <3>1, <3>3, <2>1 DEF Cursors
    <3>5. T # {}
      <4>1. S # {}
        <5>1. Len(fresh) # 0
          BY <2>3, <1>3, EmptySeq
        <5>2. 1 \in DOMAIN fresh
          BY <5>1, <1>3
        <5>3. QED
          BY <5>2, <1>3
      <4>2. QED
        BY <4>1 DEF Seqs
    <3>6. T \in SUBSET Nat
      BY <3>1, <3>3
    <3>7. Max(T) \in T
      BY <3>4, <3>5, <3>6, MaxBounded
    <3>8. cursor' = Max(T)
      BY <2>3, <1>1, <1>3
    <3>9. QED
      BY <3>6, <3>7, <3>8 DEF Cursors
  <2>4. QED
    BY <2>2, <2>3
<1>7. QED
  BY <1>1, <1>4, <1>5, <1>6

LEMMA TypesInit == Init => TypeOK
<1> SUFFICES ASSUME Init PROVE TypeOK
  OBVIOUS
<1>1. <<>> \in Seq(Events) /\ <<>> \in Seq(Nat)
  BY EmptySeq
<1>2. cursor \in Cursors
  BY CursorAssumption DEF Init, Cursors
<1>3. QED
  BY <1>1, <1>2 DEF Init, TypeOK, Cursors

\* The half of the types that the server's processes and the journal make up.
ServerTypes ==
    /\ {sequence, pruning, highWater, floor, cutoff} \subseteq Nat
    /\ {handing, writing, stored, persisted} \subseteq SUBSET Events
    /\ queue \in Seq(Events) /\ bus \in Seq(Events) /\ rows \subseteq Row

LEMMA ServerTyped ==
    ASSUME TypeOK, EventInv, JournalInv', EventInv', [Next]_vars
    PROVE  ServerTypes'
<1>1. /\ {sequence', pruning', highWater', floor'} \subseteq Nat
      /\ handing' \subseteq Events /\ writing' \subseteq Events
      /\ persisted' \subseteq Events /\ queue' \in Seq(Events)
  BY DEF JournalInv, JournalTypes
<1>2. stored' \subseteq Events /\ bus' \in Seq(Events)
  BY <1>1 DEF EventInv, EventTypes
<1>3. cutoff' \in Nat
  <2>1. cutoff' \in {cutoff, cutoff + 1} /\ cutoff \in Nat
    BY DEF Next, TypeOK, Publish, PublishLive, Write, WriteFails, Allocate, Enqueue,
       Commit, CommitFails, Broadcast, Age, FindExpired, Prune, PruneGivesUp, Restart,
       Connect, ReadFloor, Seek, ReadPage, Deliver, Disconnect, vars, journal, Store
  <2>2. QED
    BY <2>1
<1>4. rows' \subseteq Row
  <2>1. \A e \in Events : Store(e) => rows' \subseteq Row
    <3>1. Cardinality(persisted) \in Nat
      BY FS_CardinalityType DEF EventInv, EventTypes
    <3>2. rows \subseteq Row
      BY DEF TypeOK
    <3>3. QED
      BY <3>1, <3>2 DEF Store, Row, Events
  <2>2. Write => Head(queue) \in Events /\ Store(Head(queue))
    BY RangeTail DEF Write, TypeOK
  <2>3. \A e \in writing : Commit(e) => e \in Events /\ Store(e)
    BY DEF Commit, TypeOK
  <2>4. (Write \/ \E e \in writing : Commit(e)) => rows' \subseteq Row
    BY <2>1, <2>2, <2>3
  <2>5. ~(Write \/ \E e \in writing : Commit(e)) => rows' \subseteq rows
    BY DEF Next, Publish, PublishLive, WriteFails, Allocate, Enqueue,
       CommitFails, Broadcast, Age, FindExpired, Prune, PruneGivesUp, Restart,
       Connect, ReadFloor, Seek, ReadPage, Deliver, Disconnect, vars, journal
  <2>6. QED
    BY <2>4, <2>5 DEF TypeOK
<1>5. QED
  BY <1>1, <1>2, <1>3, <1>4 DEF ServerTypes

StreamTypes ==
    /\ {at, start} \subseteq Nat
    /\ phase \in {"off", "floor", "seek", "read", "live"}
    /\ phase # "off" => start <= at /\ at <= Len(bus)
    /\ asked \in Cursors /\ from \in Nat
    /\ page \subseteq Nat /\ replayed \subseteq Nat /\ shed \subseteq Nat
    /\ sent \in Seq(Nat)

ClientTypes ==
    /\ excused \in Nat
    /\ cursor \in Cursors /\ app \in Seq(Nat) /\ seen \subseteq {"row", "live"} \X Nat

LEMMA TypesTogether == TypeOK <=> ServerTypes /\ StreamTypes /\ ClientTypes
BY DEF TypeOK, ServerTypes, StreamTypes, ClientTypes

\* The rows of a page: their number, their sequences and their ids.
LEMMA RowsRead ==
    ASSUME JournalInv, EventInv, TypeOK, NEW S \in SUBSET rows, NEW read \in InOrder(S)
    PROVE  /\ read \in Seq(S) /\ DOMAIN read = 1 .. Len(read) /\ Len(read) \in Nat
           /\ \A i \in DOMAIN read : read[i] \in S
           /\ Range(read) = S
           /\ \A i, j \in DOMAIN read : read[i].seq = read[j].seq => i = j
           /\ [i \in DOMAIN read |-> read[i].id] \in Seq(Nat)
           /\ \A r \in S : /\ r.id \in Nat /\ r.seq \in Nat /\ r.seq <= sequence
                           /\ Entry(r) \in persisted
           /\ IsFiniteSet(S)
<1>1. IsFiniteSet(S)
  BY FS_Subset DEF EventInv, EventTypes
<1>2. \A r \in S : /\ r.id \in Nat /\ r.seq \in Nat /\ r.seq <= sequence
                   /\ Entry(r) \in persisted
  <2>1. ASSUME NEW r \in S
        PROVE  /\ r.id \in Nat /\ r.seq \in Nat /\ r.seq <= sequence
               /\ Entry(r) \in persisted
    <3>1. r \in Row
      BY DEF TypeOK
    <3>2. Entry(r) \in persisted
      BY DEF JournalInv, JournalTypes
    <3>3. Entry(r).seq <= sequence
      BY <3>2 DEF JournalInv, SequencesGiven
    <3>4. QED
      BY <3>1, <3>2, <3>3 DEF Row, Entry
  <2>2. QED
    BY <2>1
<1>3. /\ read \in Seq(S) /\ DOMAIN read = 1 .. Len(read) /\ Len(read) \in Nat
      /\ \A i \in DOMAIN read : read[i] \in S
      /\ Range(read) = S
      /\ \A i, j \in DOMAIN read : read[i].seq = read[j].seq => i = j
  BY <1>1, <1>2, InOrderIs
<1>4. \A i \in 1 .. Len(read) : read[i].id \in Nat
  BY <1>2, <1>3
<1>5. [i \in DOMAIN read |-> read[i].id] \in Seq(Nat)
  BY <1>3, <1>4, IsASeq
<1>6. QED
  BY <1>1, <1>2, <1>3, <1>5

-----------------------------------------------------------------------------
(* The stream *)

StreamOK ==
    /\ StreamTypes /\ ClientTypes /\ Cursory
    /\ SentFrom /\ OncePerStream /\ NothingSkipped
    /\ WantedRows /\ WantedSent /\ ReplayComplete

LEMMA StreamUnaffected ==
    ASSUME JournalInv, EventInv, StreamOK, Grows, UNCHANGED <<stream, client>>
    PROVE  StreamOK'
<1>1. UNCHANGED <<phase, at, asked, from, page, replayed, sent, shed, start, wanted, known>>
      /\ UNCHANGED <<cursor, seen, app, excused>>
  BY DEF stream, client
<1>2. Len(bus) \in Nat /\ Len(bus') \in Nat
  <2>1. Len(bus) \in Nat
    BY LenProperties DEF EventInv, EventTypes
  <2>2. CASE bus' = bus
    BY <2>1, <2>2
  <2>3. QED
    BY <2>1 DEF Grows
<1>3. StreamTypes' /\ ClientTypes'
  BY <1>1, <1>2 DEF StreamOK, StreamTypes, ClientTypes, Grows
<1>4. Cursory'
  BY <1>1 DEF StreamOK, Cursory, Replaying, Grows
<1>5. \A j \in 1 .. at : phase # "off" => bus'[j] = bus[j]
  BY <1>2 DEF StreamOK, StreamTypes, Grows
<1>6. SentFrom'
  BY <1>1, <1>5 DEF StreamOK, SentFrom, Replaying, Grows
<1>7. OncePerStream'
  BY <1>1 DEF StreamOK, OncePerStream
<1>8. NothingSkipped'
  <2>1. ASSUME phase = "live", NEW i \in start + 1 .. at PROVE bus'[i].id \in Range(sent)
    <3>1. i \in 1 .. at
      BY <2>1 DEF StreamOK, StreamTypes
    <3>2. QED
      BY <2>1, <3>1, <1>5 DEF StreamOK, NothingSkipped
  <2>2. QED
    BY <2>1, <1>1 DEF NothingSkipped
<1>9. WantedRows'
  BY <1>1 DEF StreamOK, WantedRows, Grows
<1>10. (Replaying \/ phase = "live") /\ known = floor' => known = floor
  BY DEF StreamOK, Cursory, Grows
<1>11. WantedSent'
  <2>1. ASSUME phase = "read", known = floor' PROVE page \subseteq Seqs(rows')
    <3>1. known = floor
      BY <2>1, <1>10 DEF Replaying
    <3>2. ASSUME NEW s \in page PROVE s \in Seqs(rows')
      <4>1. PICK r \in rows : s = r.seq
        BY <2>1, <3>1 DEF StreamOK, WantedSent, Seqs
      <4>2. s \in Nat /\ from \in Nat /\ s > from /\ known <= from /\ known \in Nat
        BY <2>1 DEF StreamOK, StreamTypes, Cursory, Replaying
      <4>3. r.seq > floor'
        BY <2>1, <4>1, <4>2
      <4>4. QED
        BY <4>1, <4>3 DEF Grows, Seqs
    <3>3. QED
      BY <3>2
  <2>2. QED
    BY <1>1, <1>10, <2>1 DEF StreamOK, WantedSent, Replaying
<1>12. ReplayComplete'
  BY <1>1, <1>10 DEF StreamOK, ReplayComplete
<1>13. QED
  BY <1>3, <1>4, <1>6, <1>7, <1>8, <1>9, <1>11, <1>12 DEF StreamOK

LEMMA StreamEnded ==
    ASSUME StreamEnds, ClientTypes, UNCHANGED client
    PROVE  StreamOK'
<1>1. /\ phase' = "off" /\ at' = 0 /\ asked' = 0 /\ from' = 0
      /\ page' = {} /\ replayed' = {} /\ sent' = <<>> /\ shed' = {}
      /\ start' = 0 /\ wanted' = {} /\ known' = 0
  BY DEF StreamEnds
<1>2. sent' \in Seq(Nat) /\ DOMAIN sent' = {}
  BY <1>1, EmptySeq
<1>3. StreamTypes' /\ ClientTypes'
  BY <1>1, <1>2 DEF StreamTypes, ClientTypes, client, Cursors
<1>4. QED
  BY <1>1, <1>2, <1>3, FS_EmptySet
     DEF StreamOK, Cursory, SentFrom, OncePerStream, NothingSkipped, WantedRows,
         WantedSent, ReplayComplete, Replaying

LEMMA StreamConnects ==
    ASSUME JournalInv, EventInv, StreamOK, Connect
    PROVE  StreamOK'
<1>1. /\ phase' = "floor" /\ asked' = cursor
      /\ at' = Len(bus) /\ start' = Len(bus)
      /\ replayed' = {} /\ sent' = <<>> /\ shed' = {}
      /\ wanted' = {r \in rows : cursor # NoCursor /\ r.seq > cursor}
      /\ UNCHANGED <<bus, rows, floor, persisted, from, page, known, cursor, seen,
                     app, excused>>
  BY DEF Connect, Subscribed, process, journal
<1>2. Len(bus) \in Nat /\ sent' \in Seq(Nat) /\ DOMAIN sent' = {}
  BY <1>1, EmptySeq, LenProperties DEF EventInv, EventTypes
<1>3. StreamTypes' /\ ClientTypes'
  BY <1>1, <1>2 DEF StreamOK, StreamTypes, ClientTypes
<1>4. Cursory' /\ SentFrom' /\ OncePerStream' /\ NothingSkipped'
  BY <1>1, <1>2, FS_EmptySet
     DEF Cursory, SentFrom, OncePerStream, NothingSkipped, Replaying
<1>5. WantedRows'
  BY <1>1 DEF WantedRows, JournalInv, JournalTypes
<1>6. WantedSent' /\ ReplayComplete'
  BY <1>1 DEF WantedSent, ReplayComplete, Replaying
<1>7. QED
  BY <1>3, <1>4, <1>5, <1>6 DEF StreamOK

LEMMA StreamReadsFloor ==
    ASSUME JournalInv, EventInv, StreamOK, ReadFloor
    PROVE  StreamOK'
<1>1. /\ phase = "floor" /\ known' \in {floor, 0}
      /\ UNCHANGED <<bus, rows, floor, persisted, at, asked, page, replayed, sent,
                     shed, start, wanted, seen, app>>
      /\ \/ phase' = "live" /\ asked = NoCursor /\ UNCHANGED <<from, cursor, excused>>
         \/ /\ phase' = "seek" /\ asked # NoCursor /\ asked >= known' /\ from' = asked
            /\ UNCHANGED <<cursor, excused>>
         \/ /\ phase' = "seek" /\ asked # NoCursor /\ asked < known' /\ from' = known'
            /\ excused' = known' /\ cursor' = Max({cursor, known'})
  BY DEF ReadFloor, process, journal, client
<1>2. floor \in Nat /\ known' \in Nat /\ sent = <<>> /\ DOMAIN sent = {} /\ at = start
  BY <1>1, EmptySeq DEF JournalInv, JournalTypes, StreamOK, Cursory
<1>3. cursor' \in Cursors /\ excused' \in Nat
  <2>1. CASE UNCHANGED <<cursor, excused>>
    BY <2>1 DEF StreamOK, ClientTypes
  <2>2. CASE asked # NoCursor /\ excused' = known' /\ cursor' = Max({cursor, known'})
    <3>1. cursor \in Nat
      BY <2>2, <1>1 DEF StreamOK, Cursory, ClientTypes, Cursors
    <3>2. QED
      BY <3>1, <2>2, <1>2, MaxOfTwo DEF Cursors
  <2>3. QED
    BY <2>1, <2>2, <1>1
<1>4. StreamTypes' /\ ClientTypes'
  BY <1>1, <1>2, <1>3 DEF StreamOK, StreamTypes, ClientTypes, Cursors
<1>5. Cursory'
  BY <1>1, <1>2 DEF StreamOK, StreamTypes, Cursory, Replaying, Cursors
<1>6. SentFrom' /\ OncePerStream'
  BY <1>1, <1>2 DEF StreamOK, SentFrom, OncePerStream
<1>7. NothingSkipped'
  <2>1. start \in Nat /\ at = start
    BY <1>2 DEF StreamOK, StreamTypes
  <2>2. start + 1 .. at = {}
    BY <2>1
  <2>3. QED
    BY <2>2, <1>1 DEF NothingSkipped
<1>8. WantedRows'
  BY <1>1 DEF StreamOK, WantedRows
<1>9. WantedSent'
  <2>1. ASSUME NEW r \in wanted, phase' = "seek", r.seq > known', r.seq <= from'
        PROVE  FALSE
    <3>1. r.seq \in Nat /\ r.seq > asked /\ asked \in Nat
      BY <1>1, <2>1 DEF StreamOK, StreamTypes, WantedRows, Cursors
    <3>2. from' = asked \/ from' = known'
      BY <1>1, <2>1
    <3>3. QED
      BY <2>1, <3>1, <3>2, <1>2
  <2>2. QED
    BY <1>1, <2>1 DEF WantedSent, Replaying
<1>10. ReplayComplete'
  BY <1>1 DEF StreamOK, WantedRows, ReplayComplete
<1>11. QED
  BY <1>4, <1>5, <1>6, <1>7, <1>8, <1>9, <1>10 DEF StreamOK

LEMMA StreamSeeks ==
    ASSUME JournalInv, EventInv, StreamOK, Seek
    PROVE  StreamOK'
<1> DEFINE later == {s \in Seqs(rows) : s > from}
<1>1. /\ phase = "seek" /\ phase' = "read"
      /\ page' = {s \in later : Cardinality({t \in later : t < s}) < PageSize}
      /\ UNCHANGED <<bus, rows, floor, persisted, at, asked, from, replayed, sent,
                     shed, start, wanted, known, client>>
  BY DEF Seek, process, journal
<1>2. \A r \in rows : r.seq \in Nat
  BY DEF JournalInv, JournalTypes
<1>3. later \in SUBSET Nat /\ from \in Nat
  BY <1>2 DEF Seqs, StreamOK, StreamTypes
<1>4. IsFiniteSet(later)
  <2>1. sequence \in Nat /\ \A r \in rows : r.seq <= Latest(rows) /\ Latest(rows) <= sequence
        /\ Latest(rows) \in Nat
    BY LatestRow DEF JournalInv, JournalTypes
  <2>2. \A s \in later : s <= sequence
    BY <2>1, <1>2 DEF Seqs
  <2>3. QED
    BY <2>1, <2>2, <1>3, FS_BoundedSetOfNaturals
<1>5. page' \subseteq later
  BY <1>1
<1>6. StreamTypes' /\ ClientTypes'
  BY <1>1, <1>3, <1>5 DEF StreamOK, StreamTypes, ClientTypes, client
<1>7. Cursory'
  BY <1>1, <1>5 DEF StreamOK, Cursory, Replaying
<1>8. SentFrom' /\ OncePerStream' /\ NothingSkipped' /\ WantedRows' /\ ReplayComplete'
  BY <1>1 DEF StreamOK, SentFrom, OncePerStream, NothingSkipped, WantedRows,
     ReplayComplete, Replaying
<1>9. ASSUME known = floor, NEW r \in wanted, r.seq > from
      PROVE  r.seq \in page' \/ (page' # {} /\ \A s \in page' : s < r.seq)
  <2>1. r.seq \in later
    <3>1. known \in Nat /\ known <= from /\ r.seq \in Nat
      BY <1>1 DEF StreamOK, Cursory, Replaying, WantedRows
    <3>2. r \in rows
      BY <3>1, <1>3, <1>9 DEF StreamOK, WantedRows
    <3>3. QED
      BY <3>2, <1>9 DEF Seqs
  <2>2. PageSize \in Nat \ {0}
    BY PageAssumption
  <2>3. ASSUME r.seq \notin page' PROVE page' # {} /\ \A s \in page' : s < r.seq
    <3> DEFINE First == {s \in later : Cardinality({t \in later : t < s}) < PageSize}
    <3>1. r.seq \notin First
      BY <2>3, <1>1
    <3>2. First # {} /\ \A x \in First : x < r.seq
      BY <2>1, <2>2, <3>1, <1>3, <1>4, FirstOnes
    <3>3. QED
      BY <3>2, <1>1
  <2>4. QED
    BY <2>3
<1>10. WantedSent'
  BY <1>1, <1>5, <1>9 DEF StreamOK, WantedSent, Replaying
<1>11. QED
  BY <1>6, <1>7, <1>8, <1>10 DEF StreamOK

\* A page without rows: what was to be found on it has been pruned, or the journal
\* has nothing more.
LEMMA ReplayEnds ==
    ASSUME JournalInv, EventInv, StreamOK,
           phase = "read", {r \in rows : r.seq \in page} = {}, phase' = "live",
           page' = {},
           UNCHANGED <<bus, rows, floor, persisted, at, asked, from, replayed, sent,
                       shed, start, wanted, known, client>>
    PROVE  StreamOK'
<1>1. StreamTypes' /\ ClientTypes'
  BY DEF StreamOK, StreamTypes, ClientTypes, client
<1>2. Cursory' /\ SentFrom' /\ OncePerStream' /\ WantedRows' /\ WantedSent'
  BY DEF StreamOK, Cursory, SentFrom, OncePerStream, WantedRows, WantedSent, Replaying
<1>3. NothingSkipped'
  <2>1. start \in Nat /\ at = start
    BY DEF StreamOK, StreamTypes, Cursory
  <2>2. start + 1 .. at = {}
    BY <2>1
  <2>3. QED
    BY <2>2 DEF NothingSkipped
<1>4. ReplayComplete'
  <2>1. ASSUME known = floor, NEW r \in wanted, r.seq > known
        PROVE  r.id \in Range(sent)
    <3>1. page = {}
      <4>1. page \subseteq Seqs(rows)
        BY <2>1 DEF StreamOK, WantedSent
      <4>2. QED
        BY <4>1 DEF Seqs
    <3>2. r.seq \in Nat /\ from \in Nat
      BY DEF StreamOK, StreamTypes, WantedRows
    <3>3. r.seq <= from
      BY <2>1, <3>1, <3>2 DEF StreamOK, WantedSent
    <3>4. QED
      BY <2>1, <3>3 DEF StreamOK, WantedSent, Replaying
  <2>2. QED
    BY <2>1 DEF ReplayComplete
<1>5. QED
  BY <1>1, <1>2, <1>3, <1>4 DEF StreamOK

\* What is sent after the events of a page: those before it, and its own.
LEMMA SentAfter ==
    ASSUME sent \in Seq(Nat), NEW ids \in Seq(Nat), sent' = sent \o ids
    PROVE  /\ sent' \in Seq(Nat) /\ Len(sent) \in Nat /\ Len(ids) \in Nat
           /\ DOMAIN sent = 1 .. Len(sent) /\ DOMAIN ids = 1 .. Len(ids)
           /\ DOMAIN sent' = 1 .. Len(sent) + Len(ids)
           /\ \A i \in DOMAIN sent : i \in DOMAIN sent' /\ sent'[i] = sent[i]
           /\ \A i \in DOMAIN sent' :
                 \/ i \in DOMAIN sent
                 \/ i - Len(sent) \in DOMAIN ids /\ sent'[i] = ids[i - Len(sent)]
           /\ Range(sent') = Range(sent) \cup Range(ids)
<1>1. /\ sent' \in Seq(Nat) /\ Len(sent') = Len(sent) + Len(ids)
      /\ \A i \in 1 .. Len(sent) + Len(ids) :
            sent'[i] = IF i <= Len(sent) THEN sent[i] ELSE ids[i - Len(sent)]
  BY ConcatProperties
<1>2. /\ Len(sent) \in Nat /\ Len(ids) \in Nat
      /\ DOMAIN sent = 1 .. Len(sent) /\ DOMAIN ids = 1 .. Len(ids)
      /\ DOMAIN sent' = 1 .. Len(sent) + Len(ids)
  BY <1>1, LenProperties
<1>3. Range(sent') = Range(sent) \cup Range(ids)
  BY RangeConcatenation
<1>4. QED
  BY <1>1, <1>2, <1>3

\* What is remembered and what is shed make up all that the replay has sent.
LEMMA ShedIs ==
    ASSUME replayed \in SUBSET Nat, IsFiniteSet(replayed), NEW ids \in Seq(Nat)
    PROVE  /\ Shed(ids) \subseteq Nat /\ Remember(ids) \subseteq replayed \cup Range(ids)
           /\ replayed \cup Range(ids) \subseteq Remember(ids) \cup Shed(ids)
           /\ IsFiniteSet(Remember(ids)) /\ Range(ids) \subseteq Nat
<1> DEFINE keep == MaxReplayed - Cardinality(replayed)
<1>1. /\ Len(ids) \in Nat /\ DOMAIN ids = 1 .. Len(ids)
      /\ \A i \in 1 .. Len(ids) : ids[i] \in Nat
  BY LenProperties, ElementOfSeq
<1>2. keep \in Int
  BY FS_CardinalityType, PageAssumption
<1>3. Shed(ids) \subseteq Nat
  <2>1. CASE Len(ids) <= keep
    BY <2>1 DEF Shed
  <2>2. CASE ~(Len(ids) <= keep)
    <3> HIDE DEF keep
    <3>1. \A i \in 1 .. keep : ids[i] \in Nat
      BY <2>2, <1>1, <1>2
    <3>2. {ids[i] : i \in 1 .. keep} \subseteq Nat
      BY <3>1
    <3>3. Shed(ids) = replayed \cup {ids[i] : i \in 1 .. keep}
      BY <2>2 DEF Shed, keep
    <3>4. QED
      BY <3>2, <3>3
  <2>3. QED
    BY <2>1, <2>2
<1>4. Range(ids) \subseteq Nat
  BY <1>1 DEF Range
<1>5. IsFiniteSet(Remember(ids))
  <2>1. IsFiniteSet(DOMAIN ids)
    BY <1>1, FS_Interval
  <2>2. IsFiniteSet(Range(ids))
    <3>1. IsFiniteSet({ids[x] : x \in DOMAIN ids})
      BY <2>1, ImageFinite
    <3>2. QED
      BY <3>1 DEF Range
  <2>3. IsFiniteSet(replayed \cup Range(ids))
    BY <2>2, FS_Union
  <2>4. Remember(ids) \in SUBSET (replayed \cup Range(ids))
    BY DEF Remember
  <2>5. QED
    BY <2>3, <2>4, FS_Subset
<1>6. QED
  BY <1>3, <1>4, <1>5 DEF Remember

\* The events of a page, stored above the cursor and up to `last`, have not been
\* sent before.
LEMMA PageSent ==
    ASSUME JournalInv, EventInv, StreamOK, phase = "read",
           NEW ids \in Seq(Nat), NEW last \in Nat, from < last,
           \A j \in DOMAIN ids : \E e \in persisted :
              e.id = ids[j] /\ from < e.seq /\ e.seq <= last,
           \A i, j \in DOMAIN ids : ids[i] = ids[j] => i = j,
           phase' = "seek", from' = last,
           replayed' = Remember(ids), shed' = shed \cup Shed(ids),
           sent' = sent \o ids, persisted' = persisted
    PROVE  SentFrom' /\ OncePerStream'
<1>1. /\ from \in Nat /\ sent \in Seq(Nat)
      /\ replayed \in SUBSET Nat /\ IsFiniteSet(replayed) /\ replayed \subseteq Range(sent)
      /\ \A i \in DOMAIN sent :
            /\ sent[i] \in replayed \cup shed
            /\ \E e \in persisted : e.id = sent[i] /\ e.seq <= from
  BY DEF StreamOK, StreamTypes, SentFrom, Replaying
<1>2. /\ replayed' \subseteq replayed \cup Range(ids)
      /\ replayed \cup Range(ids) \subseteq replayed' \cup shed'
      /\ shed \subseteq shed' /\ IsFiniteSet(replayed')
  BY <1>1, ShedIs
<1>3. /\ Len(sent) \in Nat /\ Len(ids) \in Nat
      /\ DOMAIN sent' = 1 .. Len(sent) + Len(ids)
      /\ \A i \in DOMAIN sent : i \in DOMAIN sent' /\ sent'[i] = sent[i]
      /\ \A i \in DOMAIN sent' :
            \/ i \in DOMAIN sent
            \/ i - Len(sent) \in DOMAIN ids /\ sent'[i] = ids[i - Len(sent)]
      /\ Range(sent') = Range(sent) \cup Range(ids)
  BY <1>1, SentAfter
<1>4. \A e \in persisted : e.seq \in Nat
  BY PendingAre DEF Events
<1>5. \A e, f \in persisted : e.id = f.id => e = f
  BY DEF EventInv, IdsUnique
<1>6. ASSUME NEW i \in DOMAIN sent'
      PROVE  /\ sent'[i] \in replayed' \cup shed'
             /\ \E e \in persisted : e.id = sent'[i] /\ e.seq <= last
  <2>1. CASE i \in DOMAIN sent
    <3>1. PICK e \in persisted : e.id = sent[i] /\ e.seq <= from
      BY <2>1, <1>1
    <3>2. e.seq <= last
      BY <3>1, <1>1, <1>4
    <3>3. sent'[i] = sent[i] /\ sent[i] \in replayed' \cup shed'
      BY <2>1, <1>1, <1>2, <1>3
    <3>4. QED
      BY <3>1, <3>2, <3>3
  <2>2. CASE i - Len(sent) \in DOMAIN ids /\ sent'[i] = ids[i - Len(sent)]
    <3>1. PICK e \in persisted : e.id = ids[i - Len(sent)] /\ e.seq <= last
      BY <2>2
    <3>2. ids[i - Len(sent)] \in Range(ids)
      BY <2>2 DEF Range
    <3>3. QED
      BY <2>2, <3>1, <3>2, <1>2
  <2>3. QED
    BY <2>1, <2>2, <1>3
<1>7. SentFrom'
  BY <1>1, <1>2, <1>3, <1>6 DEF SentFrom, Replaying
<1>8. ASSUME NEW i \in DOMAIN sent, NEW j \in DOMAIN ids PROVE sent[i] # ids[j]
  <2>1. PICK e \in persisted : e.id = sent[i] /\ e.seq <= from
    BY <1>1
  <2>2. PICK f \in persisted : f.id = ids[j] /\ from < f.seq
    OBVIOUS
  <2>3. e # f
    BY <2>1, <2>2, <1>1, <1>4
  <2>4. QED
    BY <2>1, <2>2, <2>3, <1>5
<1>9. ASSUME NEW i \in DOMAIN sent', NEW j \in DOMAIN sent', sent'[i] = sent'[j]
      PROVE  i = j \/ sent'[i] \in shed'
  <2>1. i \in Int /\ j \in Int
    BY <1>3
  <2>2. CASE i \in DOMAIN sent /\ j \in DOMAIN sent
    BY <2>2, <1>2, <1>3, <1>9 DEF StreamOK, OncePerStream
  <2>3. CASE i \in DOMAIN sent /\ j \notin DOMAIN sent
    BY <2>3, <1>3, <1>8, <1>9
  <2>4. CASE i \notin DOMAIN sent /\ j \in DOMAIN sent
    BY <2>4, <1>3, <1>8, <1>9
  <2>5. CASE i \notin DOMAIN sent /\ j \notin DOMAIN sent
    <3>1. i - Len(sent) = j - Len(sent)
      BY <2>5, <1>3, <1>9
    <3>2. QED
      BY <2>1, <3>1, <1>3
  <2>6. QED
    BY <2>2, <2>3, <2>4, <2>5
<1>10. OncePerStream'
  BY <1>9 DEF OncePerStream
<1>11. QED
  BY <1>7, <1>10

\* A page that is read: its rows are above the cursor and sent, and the cursor goes
\* to the last of them.
LEMMA PageRead ==
    ASSUME JournalInv, EventInv, TypeOK, StreamOK, phase = "read",
           NEW last \in Seqs({r \in rows : r.seq \in page}),
           NEW read \in InOrder({r \in rows : r.seq \in page /\ r.seq <= last}),
           NEW ids, ids = [i \in DOMAIN read |-> read[i].id],
           phase' = "seek", from' = last, page' = {},
           replayed' = Remember(ids), shed' = shed \cup Shed(ids),
           sent' = sent \o ids,
           UNCHANGED <<bus, rows, floor, persisted, at, asked, start, wanted, known>>,
           ClientTypes'
    PROVE  StreamOK'
<1> DEFINE S == {r \in rows : r.seq \in page /\ r.seq <= last}
<1>1. /\ DOMAIN read = 1 .. Len(read) /\ Len(read) \in Nat
      /\ \A i \in DOMAIN read : read[i] \in S
      /\ Range(read) = S
      /\ \A i, j \in DOMAIN read : read[i].seq = read[j].seq => i = j
      /\ ids \in Seq(Nat)
      /\ \A r \in S : r.id \in Nat /\ r.seq \in Nat /\ Entry(r) \in persisted
  <2>1. S \in SUBSET rows
    OBVIOUS
  <2>2. QED
    BY <2>1, RowsRead
<1>2. /\ from \in Nat /\ known \in Nat /\ known <= from /\ sent \in Seq(Nat)
      /\ page \subseteq Nat /\ \A s \in page : s > from
      /\ replayed \in SUBSET Nat /\ IsFiniteSet(replayed) /\ shed \subseteq Nat
  BY DEF StreamOK, StreamTypes, Cursory, Replaying, SentFrom
<1>3. last \in page /\ last \in Nat /\ from < last
  <2>1. last \in page
    BY DEF Seqs
  <2>2. QED
    BY <2>1, <1>2
<1>4. DOMAIN ids = DOMAIN read /\ \A i \in DOMAIN ids : ids[i] = read[i].id
  OBVIOUS
<1>5. ASSUME NEW j \in DOMAIN ids
      PROVE  /\ Entry(read[j]) \in persisted /\ Entry(read[j]).id = ids[j]
             /\ Entry(read[j]).seq = read[j].seq
             /\ from < read[j].seq /\ read[j].seq <= last
  <2>1. read[j] \in S
    BY <1>1, <1>4
  <2>2. read[j].seq \in page /\ read[j].seq <= last /\ Entry(read[j]) \in persisted
    BY <2>1, <1>1
  <2>3. QED
    BY <2>2, <1>2, <1>4 DEF Entry
<1>6. \A i, j \in DOMAIN ids : ids[i] = ids[j] => i = j
  <2>1. ASSUME NEW i \in DOMAIN ids, NEW j \in DOMAIN ids, ids[i] = ids[j] PROVE i = j
    <3>1. Entry(read[i]) = Entry(read[j])
      BY <2>1, <1>5 DEF EventInv, IdsUnique
    <3>2. read[i].seq = read[j].seq
      BY <3>1, <1>5
    <3>3. QED
      BY <3>2, <1>1, <1>4
  <2>2. QED
    BY <2>1
<1>7. \A j \in DOMAIN ids : \E e \in persisted :
         e.id = ids[j] /\ from < e.seq /\ e.seq <= last
  <2>1. ASSUME NEW j \in DOMAIN ids
        PROVE  \E e \in persisted : e.id = ids[j] /\ from < e.seq /\ e.seq <= last
    <3>1. QED
      BY <1>5
  <2>2. QED
    BY <2>1
<1>8. SentFrom' /\ OncePerStream'
  BY <1>1, <1>3, <1>6, <1>7, PageSent
<1>9. sent' \in Seq(Nat) /\ Range(sent') = Range(sent) \cup Range(ids)
  BY <1>1, <1>2, SentAfter
<1>10. StreamTypes'
  <2>1. replayed' \subseteq Nat /\ shed' \subseteq Nat
    BY <1>1, <1>2, ShedIs
  <2>2. QED
    BY <2>1, <1>3, <1>9 DEF StreamOK, StreamTypes
<1>11. Cursory'
  BY <1>2, <1>3 DEF StreamOK, Cursory, Replaying
<1>12. WantedSent'
  <2>1. ASSUME known = floor, NEW r \in wanted, r.seq > known, r.seq <= last
        PROVE  r.id \in Range(sent')
    <3>1. CASE r.seq <= from
      BY <2>1, <3>1, <1>9 DEF StreamOK, WantedSent, Replaying
    <3>2. CASE ~(r.seq <= from)
      <4>1. r.seq \in Nat /\ r \in rows
        BY <2>1 DEF StreamOK, WantedRows
      <4>2. r.seq > from
        BY <3>2, <4>1, <1>2
      <4>3. ~(last < r.seq)
        BY <2>1, <4>1, <1>3
      <4>4. r.seq \in page
        BY <2>1, <4>2, <4>3, <1>3 DEF StreamOK, WantedSent
      <4>5. r \in Range(read)
        BY <2>1, <4>1, <4>4, <1>1
      <4>6. PICK j \in DOMAIN read : r = read[j]
        BY <4>5 DEF Range
      <4>7. r.id \in Range(ids)
        BY <4>6, <1>4 DEF Range
      <4>8. QED
        BY <4>7, <1>9
    <3>3. QED
      BY <3>1, <3>2
  <2>2. QED
    BY <2>1 DEF WantedSent, Replaying
<1>13. NothingSkipped' /\ WantedRows' /\ ReplayComplete'
  BY DEF StreamOK, NothingSkipped, WantedRows, ReplayComplete
<1>14. QED
  BY <1>8, <1>10, <1>11, <1>12, <1>13 DEF StreamOK

LEMMA StreamReadsPage ==
    ASSUME JournalInv, EventInv, TypeOK, StreamOK, ReadPage
    PROVE  StreamOK'
<1> DEFINE there == {r \in rows : r.seq \in page}
<1>1. /\ phase = "read" /\ page' = {}
      /\ UNCHANGED <<bus, rows, floor, persisted, at, asked, start, wanted, known>>
  BY DEF ReadPage, process, journal
<1>2. CASE there = {} /\ phase' = "live" /\ UNCHANGED <<from, replayed, sent, shed, client>>
  BY <1>1, <1>2, ReplayEnds
<1>3. ASSUME NEW last \in Seqs(there),
             NEW read \in InOrder({r \in there : r.seq <= last}),
             LET ids == [i \in DOMAIN read |-> read[i].id] IN
             /\ phase' = "seek" /\ from' = ContinueAfter(last)
             /\ replayed' = Remember(ids) /\ shed' = shed \cup Shed(ids)
             /\ sent' = sent \o ids
             /\ Receive({[envelope |-> <<"row", r.seq>>, id |-> r.id, seq |-> r.seq]
                         : r \in Range(read)})
      PROVE  StreamOK'
  <2> DEFINE S == {r \in rows : r.seq \in page /\ r.seq <= last}
             f == [r \in S |-> [envelope |-> <<"row", r.seq>>, id |-> r.id, seq |-> r.seq]]
             news == {f[r] : r \in S}
             ids == [i \in DOMAIN read |-> read[i].id]
  <2>1. {r \in there : r.seq <= last} = S
    OBVIOUS
  <2>2. read \in InOrder(S) /\ S \in SUBSET rows
    BY <2>1
  <2>3. /\ Range(read) = S /\ IsFiniteSet(S)
        /\ \A r \in S : r.id \in Nat /\ r.seq \in Nat /\ r.seq <= sequence
    BY <2>2, RowsRead
  <2>4. IsFiniteSet(news)
    <3>1. IsFiniteSet(S) /\ DOMAIN f = S
      BY <2>3
    <3> HIDE DEF S, f
    <3>2. QED
      BY <3>1, ImageFinite
  <2>5. news = {[envelope |-> <<"row", r.seq>>, id |-> r.id, seq |-> r.seq]
                : r \in Range(read)}
    BY <2>3
  <2>6. Receive(news)
    BY <1>3, <2>5
  <2>7. \A n \in news : /\ n.envelope \in {"row", "live"} \X Nat
                        /\ n.id \in Nat /\ n.seq \in Nat /\ n.seq <= sequence
    <3>1. ASSUME NEW n \in news
          PROVE  /\ n.envelope \in {"row", "live"} \X Nat
                 /\ n.id \in Nat /\ n.seq \in Nat /\ n.seq <= sequence
      <4>1. PICK r \in S : n = f[r]
        OBVIOUS
      <4>2. n = [envelope |-> <<"row", r.seq>>, id |-> r.id, seq |-> r.seq]
        BY <4>1
      <4>3. r.id \in Nat /\ r.seq \in Nat /\ r.seq <= sequence
        BY <2>3
      <4> HIDE DEF S
      <4>4. QED
        BY <4>2, <4>3
    <3>2. QED
      BY <3>1
  <2>8. ClientTypes'
    <3> HIDE DEF news
    <3>1. sequence \in Nat
      BY DEF TypeOK
    <3>2. /\ cursor' \in Cursors /\ seen' \subseteq {"row", "live"} \X Nat
          /\ app' \in Seq(Nat) /\ excused' = excused
      BY <2>4, <2>6, <2>7, <3>1, HeardTypes
    <3>3. QED
      BY <3>2 DEF StreamOK, ClientTypes
  <2>9. /\ phase' = "seek" /\ from' = last
        /\ replayed' = Remember(ids) /\ shed' = shed \cup Shed(ids)
        /\ sent' = sent \o ids
    BY <1>3 DEF ContinueAfter
  <2>10. last \in Seqs({r \in rows : r.seq \in page})
    OBVIOUS
  <2> HIDE DEF ids
  <2>11. ids = [i \in DOMAIN read |-> read[i].id]
    BY DEF ids
  <2>12. QED
    BY <1>1, <2>2, <2>8, <2>9, <2>10, <2>11, PageRead
<1>4. QED
  BY <1>2, <1>3 DEF ReadPage

\* The next event of the bus is dropped if the replay has sent it, and sent otherwise.
LEMMA StreamDelivers ==
    ASSUME JournalInv, EventInv, TypeOK, StreamOK, Deliver
    PROVE  StreamOK'
<1> DEFINE e == bus[at + 1]
<1>1. /\ phase = "live" /\ at < Len(bus) /\ at' = at + 1
      /\ UNCHANGED <<bus, rows, floor, persisted, phase, asked, from, page, shed,
                     start, wanted, known>>
      /\ \/ /\ e.id \in replayed /\ replayed' = replayed \ {e.id}
            /\ sent' = sent /\ UNCHANGED client
         \/ /\ e.id \notin replayed /\ replayed' = replayed
            /\ sent' = Append(sent, e.id)
            /\ Receive({[envelope |-> <<"live", e.id>>, id |-> e.id, seq |-> e.seq]})
  BY DEF Deliver, Overlap, process, journal
<1>2. /\ at \in Nat /\ start \in Nat /\ start <= at /\ at <= Len(bus) /\ Len(bus) \in Nat
      /\ sent \in Seq(Nat) /\ replayed \subseteq Range(sent)
      /\ replayed \subseteq Nat /\ IsFiniteSet(replayed)
      /\ \A i \in DOMAIN sent :
            sent[i] \in replayed \cup shed \/ \E j \in 1 .. at : bus[j].id = sent[i]
  BY <1>1, LenProperties DEF StreamOK, StreamTypes, SentFrom, EventInv, EventTypes
<1>3. e \in Events /\ at + 1 \in 1 .. Len(bus)
  <2>1. at + 1 \in 1 .. Len(bus)
    BY <1>1, <1>2
  <2>2. QED
    BY <2>1, ElementOfSeq DEF EventInv, EventTypes
<1>4. e.id \in Nat /\ e.seq \in Nat
  BY <1>3 DEF Events
<1>5. \A i, j \in 1 .. Len(bus) : bus[i].id = bus[j].id => i = j
  BY DEF EventInv, BusOnce
<1>6. Cursory' /\ WantedRows' /\ WantedSent'
  BY <1>1 DEF StreamOK, Cursory, WantedRows, WantedSent, Replaying
<1>7. ASSUME Range(sent) \subseteq Range(sent'), e.id \in Range(sent')
      PROVE  NothingSkipped' /\ ReplayComplete'
  <2>1. ASSUME NEW i \in start + 1 .. at + 1 PROVE bus[i].id \in Range(sent')
    <3>1. CASE i = at + 1
      BY <3>1, <1>7
    <3>2. CASE i # at + 1
      <4>1. i \in start + 1 .. at
        BY <3>2, <1>2
      <4>2. QED
        BY <4>1, <1>1, <1>7 DEF StreamOK, NothingSkipped
    <3>3. QED
      BY <3>1, <3>2
  <2>2. NothingSkipped'
    BY <2>1, <1>1 DEF NothingSkipped
  <2>3. ReplayComplete'
    BY <1>1, <1>7 DEF StreamOK, ReplayComplete
  <2>4. QED
    BY <2>2, <2>3
<1>8. at' \in Nat /\ start' <= at' /\ at' <= Len(bus')
  BY <1>1, <1>2
<1>9. CASE e.id \in replayed /\ replayed' = replayed \ {e.id}
           /\ sent' = sent /\ UNCHANGED client
  <2>1. StreamTypes' /\ ClientTypes'
    <3>1. replayed' \subseteq Nat
      BY <1>2, <1>9
    <3>2. StreamTypes'
      BY <1>1, <1>8, <1>9, <3>1 DEF StreamOK, StreamTypes
    <3>3. ClientTypes'
      BY <1>9 DEF StreamOK, ClientTypes, client
    <3>4. QED
      BY <3>2, <3>3
  <2>2. IsFiniteSet(replayed') /\ replayed' \subseteq Range(sent')
    BY <1>2, <1>9, FS_RemoveElement
  <2>3. ASSUME NEW i \in DOMAIN sent
        PROVE  sent[i] \in replayed' \cup shed \/ \E j \in 1 .. at + 1 : bus[j].id = sent[i]
    <3>1. CASE sent[i] = e.id
      BY <3>1, <1>2
    <3>2. CASE \E j \in 1 .. at : bus[j].id = sent[i]
      BY <3>2, <1>2
    <3>3. CASE sent[i] \in replayed \cup shed /\ sent[i] # e.id
      BY <3>3, <1>9
    <3>4. QED
      BY <3>1, <3>2, <3>3, <1>2
  <2>4. SentFrom'
    BY <2>2, <2>3, <1>1, <1>9 DEF SentFrom, Replaying
  <2>5. OncePerStream'
    BY <1>1, <1>9 DEF StreamOK, OncePerStream
  <2>6. NothingSkipped' /\ ReplayComplete'
    BY <1>2, <1>7, <1>9
  <2>7. QED
    BY <2>1, <2>4, <2>5, <2>6, <1>6 DEF StreamOK
<1>10. CASE /\ e.id \notin replayed /\ replayed' = replayed
           /\ sent' = Append(sent, e.id)
           /\ Receive({[envelope |-> <<"live", e.id>>, id |-> e.id, seq |-> e.seq]})
  <2>1. /\ sent' \in Seq(Nat) /\ Len(sent) \in Nat
        /\ DOMAIN sent = 1 .. Len(sent) /\ DOMAIN sent' = 1 .. Len(sent) + 1
        /\ \A i \in DOMAIN sent : i \in DOMAIN sent' /\ sent'[i] = sent[i]
        /\ Len(sent) + 1 \in DOMAIN sent' /\ sent'[Len(sent) + 1] = e.id
        /\ \A i \in DOMAIN sent' : i \in DOMAIN sent \/ i = Len(sent) + 1
    <3>1. /\ sent' \in Seq(Nat) /\ Len(sent') = Len(sent) + 1
          /\ \A i \in 1 .. Len(sent) : sent'[i] = sent[i]
          /\ sent'[Len(sent) + 1] = e.id
      BY <1>2, <1>4, <1>10, AppendProperties
    <3>2. Len(sent) \in Nat /\ DOMAIN sent = 1 .. Len(sent) /\ DOMAIN sent' = 1 .. Len(sent')
      BY <1>2, <3>1, LenProperties
    <3>3. QED
      BY <3>1, <3>2
  <2>2. Range(sent) \subseteq Range(sent') /\ e.id \in Range(sent')
    BY <2>1 DEF Range
  <2>3. ClientTypes'
    <3> DEFINE news == {[envelope |-> <<"live", e.id>>, id |-> e.id, seq |-> e.seq]}
    <3>1. IsFiniteSet(news)
      BY FS_Singleton
    <3>2. e.seq <= e.seq
      BY <1>4
    <3>3. \A n \in news : /\ n.envelope \in {"row", "live"} \X Nat
                          /\ n.id \in Nat /\ n.seq \in Nat /\ n.seq <= e.seq
      BY <3>2, <1>4
    <3>4. Receive(news)
      BY <1>10
    <3> HIDE DEF news
    <3>5. /\ cursor' \in Cursors /\ seen' \subseteq {"row", "live"} \X Nat
          /\ app' \in Seq(Nat) /\ excused' = excused
      BY <3>1, <3>3, <3>4, <1>4, HeardTypes
    <3>6. QED
      BY <3>5 DEF StreamOK, ClientTypes
  <2>4. StreamTypes'
    BY <1>1, <1>8, <1>10, <2>1 DEF StreamOK, StreamTypes
  <2>5. ASSUME NEW i \in DOMAIN sent'
        PROVE  sent'[i] \in replayed \cup shed \/ \E j \in 1 .. at + 1 : bus[j].id = sent'[i]
    <3>1. CASE i \in DOMAIN sent
      <4>1. sent'[i] = sent[i]
        BY <3>1, <2>1
      <4>2. CASE \E j \in 1 .. at : bus[j].id = sent[i]
        BY <4>1, <4>2, <1>2
      <4>3. QED
        BY <3>1, <4>1, <4>2, <1>2
    <3>2. CASE i = Len(sent) + 1
      BY <3>2, <2>1, <1>2
    <3>3. QED
      BY <3>1, <3>2, <2>1
  <2>6. SentFrom'
    BY <2>2, <2>5, <1>1, <1>2, <1>10 DEF SentFrom, Replaying
  <2>7. ASSUME NEW i \in DOMAIN sent, sent[i] = e.id PROVE sent[i] \in shed
    <3>1. CASE \E j \in 1 .. at : bus[j].id = sent[i]
      <4>1. PICK j \in 1 .. at : bus[j].id = e.id
        BY <3>1, <2>7
      <4>2. j \in 1 .. Len(bus) /\ j # at + 1
        BY <1>2
      <4>3. QED
        BY <4>1, <4>2, <1>3, <1>5
    <3>2. CASE sent[i] \in replayed \cup shed
      BY <3>2, <2>7, <1>10
    <3>3. QED
      BY <3>1, <3>2, <1>2
  <2>8. ASSUME NEW i \in DOMAIN sent', NEW j \in DOMAIN sent', sent'[i] = sent'[j]
        PROVE  i = j \/ sent'[i] \in shed
    <3>1. CASE i \in DOMAIN sent /\ j \in DOMAIN sent
      BY <3>1, <2>1, <2>8 DEF StreamOK, OncePerStream
    <3>2. CASE i \in DOMAIN sent /\ j = Len(sent) + 1
      BY <3>2, <2>1, <2>7, <2>8
    <3>3. CASE i = Len(sent) + 1 /\ j \in DOMAIN sent
      BY <3>3, <2>1, <2>7, <2>8
    <3>4. QED
      BY <3>1, <3>2, <3>3, <2>1
  <2>9. OncePerStream'
    BY <2>8, <1>1 DEF OncePerStream
  <2>10. NothingSkipped' /\ ReplayComplete'
    BY <1>7, <2>2
  <2>11. QED
    BY <2>3, <2>4, <2>6, <2>9, <2>10, <1>6 DEF StreamOK
<1>11. QED
  BY <1>1, <1>9, <1>10

-----------------------------------------------------------------------------
(* The invariant *)

ReplayInv == JournalInv /\ EventInv /\ TypeOK /\ StreamOK

LEMMA ReplayInit == Init => ReplayInv
<1> SUFFICES ASSUME Init PROVE ReplayInv
  OBVIOUS
<1>1. sent \in Seq(Nat) /\ DOMAIN sent = {} /\ Len(bus) = 0
  BY EmptySeq DEF Init
<1>2. JournalInv /\ EventInv /\ TypeOK
  BY InitInv, EventInit, TypesInit
<1>3. StreamTypes /\ ClientTypes
  BY <1>2, TypesTogether
<1>4. StreamOK
  BY <1>1, <1>3, FS_EmptySet
     DEF Init, StreamOK, Cursory, SentFrom, OncePerStream, NothingSkipped, WantedRows,
         WantedSent, ReplayComplete, Replaying
<1>5. QED
  BY <1>2, <1>4 DEF ReplayInv

\* The stream's own steps and those that end it, one by one; the others let the bus
\* and the store grow.
LEMMA ReplayStep == ReplayInv /\ [Next]_vars => ReplayInv'
<1> SUFFICES ASSUME ReplayInv, [Next]_vars PROVE ReplayInv'
  OBVIOUS
<1>1. JournalInv /\ EventInv /\ TypeOK /\ StreamOK
  BY DEF ReplayInv
<1>2. JournalInv' /\ EventInv'
  BY <1>1, StepInv, EventStep
<1>3. StreamOK'
  <2>1. CASE Connect
    BY <2>1, <1>1, StreamConnects
  <2>2. CASE ReadFloor
    BY <2>2, <1>1, StreamReadsFloor
  <2>3. CASE Seek
    BY <2>3, <1>1, StreamSeeks
  <2>4. CASE ReadPage
    BY <2>4, <1>1, StreamReadsPage
  <2>5. CASE Deliver
    BY <2>5, <1>1, StreamDelivers
  <2>6. CASE Disconnect \/ Restart
    <3>1. StreamEnds /\ UNCHANGED client
      BY <2>6 DEF Disconnect, Restart
    <3>2. QED
      BY <3>1, <1>1, StreamEnded DEF StreamOK
  <2>7. CASE \/ Publish \/ PublishLive \/ Write \/ WriteFails \/ Allocate
             \/ \E e \in handing : Enqueue(e)
             \/ \E e \in writing : Commit(e) \/ CommitFails(e)
             \/ \E e \in stored : Broadcast(e)
             \/ Age \/ FindExpired \/ Prune \/ PruneGivesUp \/ UNCHANGED vars
    <3>1. Grows /\ UNCHANGED <<stream, client>>
      BY <2>7, <1>1, <1>2, Elsewhere
    <3>2. QED
      BY <3>1, <1>1, StreamUnaffected
  <2>8. QED
    BY <2>1, <2>2, <2>3, <2>4, <2>5, <2>6, <2>7 DEF Next
<1>4. TypeOK'
  <2>1. ServerTypes'
    BY <1>1, <1>2, ServerTyped
  <2>2. StreamTypes' /\ ClientTypes'
    BY <1>3 DEF StreamOK
  <2>3. QED
    BY <2>1, <2>2 DEF TypeOK, ServerTypes, StreamTypes, ClientTypes
<1>5. QED
  BY <1>2, <1>3, <1>4 DEF ReplayInv

\* The invariant of a stream: what its replay has sent, what it still owes, and
\* what the bus may bring twice.
THEOREM ReplayInvariant == Spec => []ReplayInv
BY ReplayInit, ReplayStep, PTL DEF Spec

\* TypeOK: every variable stays in its type, and the stream on the bus.
THEOREM TypesHold == Spec => []TypeOK
<1>1. ReplayInv => TypeOK
  BY DEF ReplayInv
<1>2. QED
  BY <1>1, ReplayInvariant, PTL

\* OncePerStream: no event is sent twice on one stream, from the journal and from the
\* bus, unless the replay has shed its id.
THEOREM SentOncePerStream == Spec => []OncePerStream
<1>1. ReplayInv => OncePerStream
  BY DEF ReplayInv, StreamOK
<1>2. QED
  BY <1>1, ReplayInvariant, PTL

\* NothingSkipped: a live stream has sent everything the bus carried since it
\* subscribed, whatever the replay took for an overlap.
THEOREM NothingIsSkipped == Spec => []NothingSkipped
<1>1. ReplayInv => NothingSkipped
  BY DEF ReplayInv, StreamOK
<1>2. QED
  BY <1>1, ReplayInvariant, PTL

\* ReplayComplete: unless the journal was pruned meanwhile, the replay has sent every
\* row there was above the client's cursor and the floor, whatever the pages.
THEOREM ReplayIsComplete == Spec => []ReplayComplete
<1>1. ReplayInv => ReplayComplete
  BY DEF ReplayInv, StreamOK
<1>2. QED
  BY <1>1, ReplayInvariant, PTL
=============================================================================
