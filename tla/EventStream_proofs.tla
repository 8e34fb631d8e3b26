------------------------- MODULE EventStream_proofs -------------------------
(***************************************************************************)
(* What TLAPS proves about EventStream, for all bounds and page sizes: the *)
(* wire sequence never repeats one that was stored, across restarts and    *)
(* retention, and the journal holds everything above its floor.            *)
(***************************************************************************)
EXTENDS EventStream, SequenceTheorems, WellFoundedInduction, TLAPS

Pending == handing \cup Range(queue) \cup writing
Entry(r) == [id |-> r.id, seq |-> r.seq]

JournalTypes ==
    /\ {sequence, pruning, highWater, floor, made} \subseteq Nat
    /\ handing \subseteq Events /\ writing \subseteq Events
    /\ persisted \subseteq Events /\ queue \in Seq(Events)
    /\ \A r \in rows : r.seq \in Nat /\ Entry(r) \in persisted

SequencesGiven == \A e \in persisted \cup Pending : e.seq <= sequence
SequencesUnique == \A e, f \in persisted \cup Pending : e.seq = f.seq => e = f

MarksOrdered ==
    /\ floor <= highWater /\ highWater <= sequence
    /\ pruning # 0 => \E r \in rows : r.seq = pruning

JournalInv ==
    /\ JournalTypes
    /\ SequencesGiven
    /\ SequencesUnique
    /\ FloorHonest
    /\ MarksOrdered

-----------------------------------------------------------------------------
(* The latest of a set of events *)

\* A bounded set of naturals has a maximum.
LEMMA MaxBounded ==
    ASSUME NEW T \in SUBSET Nat, T # {}, NEW b \in Nat, \A t \in T : t <= b
    PROVE  Max(T) \in T /\ \A t \in T : t <= Max(T)
<1> DEFINE D == {b - t : t \in T}
<1>1. D \subseteq Nat /\ D # {}
  <2>1. PICK t \in T : TRUE
    OBVIOUS
  <2>2. b - t \in D
    BY <2>1
  <2>3. \A t_1 \in T : b - t_1 \in Nat
    OBVIOUS
  <2>4. QED
    BY <2>2, <2>3
<1>2. PICK d \in D : \A e \in D : ~(<<e, d>> \in OpToRel(<, Nat))
  BY <1>1, NatLessThanWellFounded, WFMin
<1>3. \A e \in D : ~(e < d)
  BY <1>1, <1>2 DEF OpToRel
<1>4. PICK m \in T : d = b - m
  OBVIOUS
<1>5. \A t \in T : m >= t
  <2>1. ASSUME NEW t \in T PROVE m >= t
    <3>1. b - t \in D
      OBVIOUS
    <3>2. ~(b - t < b - m)
      BY <1>3, <1>4, <3>1
    <3>3. QED
      BY <3>2
  <2>2. QED
    BY <2>1
<1>6. Max(T) \in T /\ \A t \in T : Max(T) >= t
  BY <1>5 DEF Max
<1>7. QED
  BY <1>6

LEMMA LatestIs ==
    ASSUME NEW S, NEW b \in Nat, \A e \in S : e.seq \in Nat /\ e.seq <= b
    PROVE  /\ Latest(S) \in Nat /\ Latest(S) <= b
           /\ \A e \in S : e.seq <= Latest(S)
           /\ Latest(S) # 0 => \E e \in S : e.seq = Latest(S)
<1> DEFINE T == {0} \cup Seqs(S)
<1>1. T \in SUBSET Nat /\ T # {} /\ \A t \in T : t <= b
  BY DEF Seqs
<1>2. Max(T) \in T /\ \A t \in T : t <= Max(T)
  BY <1>1, MaxBounded
<1>3. Latest(S) = Max(T)
  BY DEF Latest
<1>4. \A e \in S : e.seq \in T
  BY DEF Seqs
<1>5. Max(T) # 0 => \E e \in S : e.seq = Max(T)
  BY <1>2 DEF Seqs
<1>6. QED
  BY <1>1, <1>2, <1>3, <1>4, <1>5

LEMMA MaxOfTwo ==
    ASSUME NEW m \in Nat, NEW n \in Nat
    PROVE  /\ Max({m, n}) \in {m, n}
           /\ m <= Max({m, n}) /\ n <= Max({m, n})
<1> DEFINE b == m + n
<1>1. {m, n} \in SUBSET Nat /\ {m, n} # {} /\ b \in Nat
      /\ \A t \in {m, n} : t <= b
  OBVIOUS
<1>2. QED
  BY <1>1, MaxBounded

\* The latest row, by the types and the bound that the invariant gives.
LEMMA LatestRow ==
    ASSUME JournalInv
    PROVE  /\ Latest(rows) \in Nat /\ Latest(rows) <= sequence
           /\ \A r \in rows : r.seq <= Latest(rows)
<1>1. \A r \in rows : r.seq \in Nat /\ r.seq <= sequence
  <2>1. ASSUME NEW r \in rows PROVE r.seq \in Nat /\ r.seq <= sequence
    <3>1. Entry(r) \in persisted /\ r.seq \in Nat
      BY DEF JournalInv, JournalTypes
    <3>2. Entry(r).seq <= sequence
      BY <3>1 DEF JournalInv, SequencesGiven
    <3>3. QED
      BY <3>1, <3>2 DEF Entry
  <2>2. QED
    BY <2>1
<1>2. sequence \in Nat
  BY DEF JournalInv, JournalTypes
<1>3. QED
  BY <1>1, <1>2, LatestIs

-----------------------------------------------------------------------------
(* The queue *)

LEMMA RangeAppend ==
    ASSUME NEW q \in Seq(Events), NEW e \in Events
    PROVE  /\ Append(q, e) \in Seq(Events)
           /\ Range(Append(q, e)) = Range(q) \cup {e}
<1>1. /\ Append(q, e) \in Seq(Events) /\ Len(Append(q, e)) = Len(q) + 1
      /\ \A i \in 1 .. Len(q) : Append(q, e)[i] = q[i]
      /\ Append(q, e)[Len(q) + 1] = e
  BY AppendProperties
<1>2. Len(q) \in Nat /\ DOMAIN q = 1 .. Len(q)
      /\ DOMAIN Append(q, e) = 1 .. Len(q) + 1
  BY <1>1, LenProperties
<1>3. 1 .. Len(q) + 1 = (1 .. Len(q)) \cup {Len(q) + 1}
  BY <1>2
<1>4. QED
  BY <1>1, <1>2, <1>3 DEF Range

LEMMA RangeTail ==
    ASSUME NEW q \in Seq(Events), q # <<>>
    PROVE  /\ Tail(q) \in Seq(Events)
           /\ Head(q) \in Range(q) /\ Head(q) \in Events
           /\ Range(Tail(q)) \subseteq Range(q)
<1>1. /\ Head(q) \in Events /\ Head(q) = q[1]
      /\ Tail(q) \in Seq(Events) /\ Len(Tail(q)) = Len(q) - 1
      /\ \A i \in 1 .. Len(Tail(q)) : Tail(q)[i] = q[i + 1]
  BY HeadTailProperties
<1>2. Len(q) \in Nat /\ Len(q) # 0 /\ DOMAIN q = 1 .. Len(q)
      /\ DOMAIN Tail(q) = 1 .. Len(q) - 1
  BY <1>1, LenProperties, EmptySeq
<1>3. \A i \in 1 .. Len(q) - 1 : i + 1 \in 1 .. Len(q)
  BY <1>2
<1>4. 1 \in 1 .. Len(q)
  BY <1>2
<1>5. QED
  BY <1>1, <1>2, <1>3, <1>4 DEF Range

-----------------------------------------------------------------------------
LEMMA InitInv == Init => JournalInv
<1> SUFFICES ASSUME Init PROVE JournalInv
  OBVIOUS
<1>1. Range(queue) = {} /\ queue \in Seq(Events)
  BY EmptySeq DEF Init, Range
<1>2. Pending = {} /\ persisted = {} /\ rows = {}
  BY <1>1 DEF Init, Pending
<1>3. JournalTypes
  BY <1>1, <1>2 DEF Init, JournalTypes
<1>4. QED
  BY <1>2, <1>3 DEF Init, JournalInv, SequencesGiven, SequencesUnique, FloorHonest,
     MarksOrdered

\* A step that neither takes a sequence nor touches the database keeps the
\* invariant if every event it leaves pending was pending.
LEMMA Shuffle ==
    ASSUME JournalInv, UNCHANGED <<sequence, rows, highWater, floor, persisted>>,
           made' \in Nat, Pending' \subseteq Pending,
           pruning' \in Nat, pruning' # 0 => \E r \in rows : r.seq = pruning',
           handing' \subseteq Events, writing' \subseteq Events,
           queue' \in Seq(Events)
    PROVE  JournalInv'
<1>1. JournalTypes'
  BY DEF JournalInv, JournalTypes
<1>2. SequencesGiven' /\ SequencesUnique'
  BY DEF JournalInv, SequencesGiven, SequencesUnique
<1>3. FloorHonest' /\ MarksOrdered'
  BY DEF JournalInv, FloorHonest, MarksOrdered
<1>4. QED
  BY <1>1, <1>2, <1>3 DEF JournalInv

\* A step that takes a sequence: its event is above everything there is.
LEMMA Taken ==
    ASSUME JournalInv, Stamp,
           Pending' \subseteq Pending \cup {Stamped},
           UNCHANGED <<rows, highWater, floor, persisted, pruning>>,
           handing' \subseteq Events, writing' \subseteq Events,
           queue' \in Seq(Events)
    PROVE  JournalInv'
<1>1. sequence \in Nat /\ sequence' = sequence + 1 /\ made \in Nat
      /\ made' = made + 1
  BY DEF Stamp, JournalInv, JournalTypes
<1>2. JournalTypes'
  BY <1>1 DEF JournalInv, JournalTypes
<1>3. \A e \in persisted \cup Pending : e.seq \in Nat /\ e.seq <= sequence
  <2>1. Range(queue) \subseteq Events
    BY ElementOfSeq, LenProperties DEF Range, JournalInv, JournalTypes
  <2>2. \A e \in persisted \cup Pending : e \in Events
    BY <2>1 DEF JournalInv, JournalTypes, Pending
  <2>3. QED
    BY <2>2 DEF JournalInv, SequencesGiven, Events
<1>4. Stamped.seq = sequence + 1
  BY DEF Stamped
<1>5. SequencesGiven'
  <2>1. ASSUME NEW e \in persisted' \cup Pending' PROVE e.seq <= sequence'
    <3>1. e \in persisted \cup Pending \/ e = Stamped
      OBVIOUS
    <3>2. QED
      BY <3>1, <1>1, <1>3, <1>4
  <2>2. QED
    BY <2>1 DEF SequencesGiven
<1>6. SequencesUnique'
  <2>1. ASSUME NEW e \in persisted' \cup Pending', NEW f \in persisted' \cup Pending',
               e.seq = f.seq
        PROVE  e = f
    <3>1. e \in persisted \cup Pending \/ e = Stamped
      OBVIOUS
    <3>2. f \in persisted \cup Pending \/ f = Stamped
      OBVIOUS
    <3>3. CASE e \in persisted \cup Pending /\ f \in persisted \cup Pending
      BY <3>3, <2>1 DEF JournalInv, SequencesUnique
    <3>4. CASE e \in persisted \cup Pending /\ f = Stamped
      BY <3>4, <2>1, <1>1, <1>3, <1>4
    <3>5. CASE e = Stamped /\ f \in persisted \cup Pending
      BY <3>5, <2>1, <1>1, <1>3, <1>4
    <3>6. QED
      BY <3>1, <3>2, <3>3, <3>4, <3>5
  <2>2. QED
    BY <2>1 DEF SequencesUnique
<1>7. FloorHonest'
  BY DEF JournalInv, FloorHonest
<1>8. MarksOrdered'
  BY <1>1 DEF JournalInv, JournalTypes, MarksOrdered
<1>9. QED
  BY <1>2, <1>5, <1>6, <1>7, <1>8 DEF JournalInv

\* A step that stores a pending event.
LEMMA Stores ==
    ASSUME JournalInv, NEW e \in Pending, e \in Events, Store(e),
           UNCHANGED <<sequence, made, pruning, handing>>,
           Pending' \subseteq Pending,
           writing' \subseteq Events, queue' \in Seq(Events)
    PROVE  JournalInv'
<1> DEFINE row == [id |-> e.id, seq |-> e.seq, created |-> Cardinality(persisted)]
<1>1. /\ rows' = rows \cup {row} /\ persisted' = persisted \cup {e}
      /\ UNCHANGED <<highWater, floor>>
  BY DEF Store
<1>2. e.seq \in Nat /\ Entry(row) = e /\ row.seq = e.seq
  BY DEF Events, Entry
<1>3. JournalTypes'
  BY <1>1, <1>2 DEF JournalInv, JournalTypes
<1>4. persisted' \cup Pending' \subseteq persisted \cup Pending
  BY <1>1
<1>5. SequencesGiven' /\ SequencesUnique'
  BY <1>4 DEF JournalInv, SequencesGiven, SequencesUnique
<1>6. FloorHonest'
  <2>1. ASSUME NEW f \in persisted', f.seq > floor'
        PROVE  \E r \in rows' : f = Entry(r)
    <3>1. CASE f = e
      BY <3>1, <1>1, <1>2
    <3>2. CASE f \in persisted
      <4>1. PICK r \in rows : f = Entry(r)
        BY <3>2, <2>1, <1>1 DEF JournalInv, FloorHonest, Entry
      <4>2. QED
        BY <4>1, <1>1
    <3>3. QED
      BY <3>1, <3>2, <1>1
  <2>2. QED
    BY <2>1 DEF FloorHonest, Entry
<1>7. MarksOrdered'
  BY <1>1 DEF JournalInv, MarksOrdered
<1>8. QED
  BY <1>3, <1>5, <1>6, <1>7 DEF JournalInv

\* Pruning: what stays in the journal is above the new floor.
LEMMA PruneInv ==
    ASSUME JournalInv, Prune
    PROVE  JournalInv'
<1>1. /\ sequence \in Nat /\ pruning \in Nat /\ highWater \in Nat
      /\ floor \in Nat /\ floor <= highWater /\ highWater <= sequence
  BY DEF JournalInv, JournalTypes, MarksOrdered
<1>2. /\ highWater' = Max({highWater, Latest(rows)})
      /\ floor' = Max({floor, pruning})
      /\ rows' = {r \in rows : r.seq <= floor \/ r.seq > pruning}
      /\ pruning' = 0 /\ pruning # 0
      /\ UNCHANGED <<sequence, handing, queue, writing, persisted, made>>
  BY DEF Prune, counters
<1>3. /\ Latest(rows) \in Nat /\ Latest(rows) <= sequence
      /\ \A r \in rows : r.seq <= Latest(rows)
  BY LatestRow
<1>4. /\ highWater' \in {highWater, Latest(rows)}
      /\ highWater <= highWater' /\ Latest(rows) <= highWater'
  BY <1>1, <1>2, <1>3, MaxOfTwo
<1>5. floor' \in {floor, pruning} /\ floor <= floor' /\ pruning <= floor'
  BY <1>1, <1>2, MaxOfTwo
<1>6. pruning <= Latest(rows)
  BY <1>2, <1>3 DEF JournalInv, MarksOrdered
<1>7. JournalTypes'
  <2>1. {sequence', pruning', highWater', floor', made'} \subseteq Nat
    BY <1>1, <1>2, <1>3, <1>4, <1>5 DEF JournalInv, JournalTypes
  <2>2. \A r \in rows' : r.seq \in Nat /\ Entry(r) \in persisted'
    BY <1>2 DEF JournalInv, JournalTypes
  <2>3. QED
    BY <2>1, <2>2, <1>2 DEF JournalInv, JournalTypes
<1>8. Pending' = Pending
  BY <1>2 DEF Pending
<1>9. SequencesGiven' /\ SequencesUnique'
  BY <1>2, <1>8 DEF JournalInv, SequencesGiven, SequencesUnique
<1>10. FloorHonest'
  <2>1. ASSUME NEW e \in persisted', e.seq > floor'
        PROVE  \E r \in rows' : e = Entry(r)
    <3>1. e \in persisted /\ e.seq \in Nat
      BY <1>2 DEF JournalInv, JournalTypes, Events
    <3>2. e.seq > floor /\ e.seq > pruning
      BY <1>1, <1>5, <2>1, <3>1
    <3>3. PICK r \in rows : e = Entry(r)
      BY <3>1, <3>2 DEF JournalInv, FloorHonest, Entry
    <3>4. r.seq = e.seq
      BY <3>3 DEF Entry
    <3>5. QED
      BY <3>2, <3>3, <3>4, <1>2
  <2>2. QED
    BY <2>1 DEF FloorHonest, Entry
<1>11. MarksOrdered'
  BY <1>1, <1>2, <1>3, <1>4, <1>5, <1>6 DEF MarksOrdered
<1>12. QED
  BY <1>7, <1>9, <1>10, <1>11 DEF JournalInv

\* After a restart the counter is above everything that was ever stored: what is
\* gone from the journal is at most the floor, and the floor at most the
\* high-water mark.
LEMMA RestartInv ==
    ASSUME JournalInv, Restart
    PROVE  JournalInv'
<1>1. /\ sequence \in Nat /\ highWater \in Nat /\ floor \in Nat
      /\ floor <= highWater
  BY DEF JournalInv, JournalTypes, MarksOrdered
<1>2. /\ sequence' = Max({highWater, Latest(rows)})
      /\ handing' = {} /\ queue' = <<>> /\ writing' = {} /\ pruning' = 0
      /\ UNCHANGED <<rows, highWater, floor, persisted, made>>
  BY DEF Restart, journal
<1>3. /\ Latest(rows) \in Nat /\ \A r \in rows : r.seq <= Latest(rows)
  BY LatestRow
<1>4. /\ sequence' \in {highWater, Latest(rows)}
      /\ highWater <= sequence' /\ Latest(rows) <= sequence'
  BY <1>1, <1>2, <1>3, MaxOfTwo
<1>5. Pending' = {}
  BY <1>2, EmptySeq DEF Pending, Range
<1>6. JournalTypes'
  <2>1. {sequence', pruning', highWater', floor', made'} \subseteq Nat
    BY <1>1, <1>2, <1>3, <1>4 DEF JournalInv, JournalTypes
  <2>2. queue' \in Seq(Events)
    BY <1>2, EmptySeq
  <2>3. QED
    BY <2>1, <2>2, <1>2 DEF JournalInv, JournalTypes
<1>7. SequencesGiven'
  <2>1. ASSUME NEW e \in persisted PROVE e.seq <= sequence'
    <3>1. e.seq \in Nat
      BY DEF JournalInv, JournalTypes, Events
    <3>2. CASE e.seq <= floor
      BY <3>1, <3>2, <1>1, <1>3, <1>4
    <3>3. CASE e.seq > floor
      <4>1. PICK r \in rows : e = Entry(r)
        BY <3>3 DEF JournalInv, FloorHonest, Entry
      <4>2. e.seq <= Latest(rows)
        BY <4>1, <1>3 DEF Entry
      <4>3. QED
        BY <4>2, <3>1, <1>1, <1>3, <1>4
    <3>4. QED
      BY <3>1, <3>2, <3>3, <1>1
  <2>2. QED
    BY <2>1, <1>2, <1>5 DEF SequencesGiven
<1>8. SequencesUnique'
  BY <1>2, <1>5 DEF JournalInv, SequencesUnique
<1>9. FloorHonest'
  BY <1>2 DEF JournalInv, FloorHonest
<1>10. MarksOrdered'
  BY <1>1, <1>2, <1>4 DEF MarksOrdered
<1>11. QED
  BY <1>6, <1>7, <1>8, <1>9, <1>10 DEF JournalInv

-----------------------------------------------------------------------------
(* Every other step is a shuffle, takes a sequence, or stores an event *)

LEMMA PublishInv ==
    ASSUME JournalInv, Publish \/ PublishLive \/ Allocate
    PROVE  JournalInv'
<1>1. Stamp /\ UNCHANGED <<rows, highWater, floor, persisted, pruning>>
  BY DEF Publish, PublishLive, Allocate, journal
<1>2. Stamped \in Events
  BY DEF Stamped, Events, JournalInv, JournalTypes
<1>3. /\ handing' \subseteq handing \cup {Stamped}
      /\ writing' \subseteq writing \cup {Stamped} /\ queue' = queue
  BY DEF Publish, PublishLive, Allocate
<1>4. Pending' \subseteq Pending \cup {Stamped}
  BY <1>3 DEF Pending
<1>5. /\ handing' \subseteq Events /\ writing' \subseteq Events
      /\ queue' \in Seq(Events)
  BY <1>2, <1>3 DEF JournalInv, JournalTypes
<1>6. QED
  BY <1>1, <1>4, <1>5, Taken

LEMMA QueueInv ==
    ASSUME JournalInv, (\E e \in handing : Enqueue(e)) \/ WriteFails
    PROVE  JournalInv'
<1>1. UNCHANGED <<sequence, rows, highWater, floor, persisted, made, pruning,
                  writing>>
  BY DEF Enqueue, WriteFails, journal, counters
<1>2. /\ handing' \subseteq handing /\ queue' \in Seq(Events)
      /\ Pending' \subseteq Pending
  <2>1. CASE \E e \in handing : Enqueue(e)
    <3>1. PICK e \in handing : Enqueue(e)
      BY <2>1
    <3>2. Append(queue, e) \in Seq(Events)
          /\ Range(Append(queue, e)) = Range(queue) \cup {e}
      BY RangeAppend DEF JournalInv, JournalTypes
    <3>3. handing' = handing \ {e} /\ queue' = Append(queue, e)
      BY <3>1 DEF Enqueue
    <3>4. QED
      BY <1>1, <3>2, <3>3 DEF Pending
  <2>2. CASE WriteFails
    <3>1. Tail(queue) \in Seq(Events) /\ Range(Tail(queue)) \subseteq Range(queue)
      BY <2>2, RangeTail DEF WriteFails, JournalInv, JournalTypes
    <3>2. handing' = handing /\ queue' = Tail(queue)
      BY <2>2 DEF WriteFails
    <3>3. QED
      BY <1>1, <3>1, <3>2 DEF Pending
  <2>3. QED
    BY <2>1, <2>2
<1>3. /\ made' \in Nat /\ pruning' \in Nat
      /\ pruning' # 0 => \E r \in rows : r.seq = pruning'
      /\ handing' \subseteq Events /\ writing' \subseteq Events
  BY <1>1, <1>2 DEF JournalInv, JournalTypes, MarksOrdered
<1>4. QED
  BY <1>1, <1>2, <1>3, Shuffle

LEMMA WriteInv ==
    ASSUME JournalInv, Write
    PROVE  JournalInv'
<1>1. /\ queue # <<>> /\ Store(Head(queue)) /\ queue' = Tail(queue)
      /\ UNCHANGED <<sequence, made, pruning, handing, writing>>
  BY DEF Write, counters
<1>2. /\ Tail(queue) \in Seq(Events)
      /\ Head(queue) \in Range(queue) /\ Head(queue) \in Events
      /\ Range(Tail(queue)) \subseteq Range(queue)
  BY <1>1, RangeTail DEF JournalInv, JournalTypes
<1>3. Head(queue) \in Pending /\ Pending' \subseteq Pending
  BY <1>1, <1>2 DEF Pending
<1>4. writing' \subseteq Events
  BY <1>1 DEF JournalInv, JournalTypes
<1>5. QED
  BY <1>1, <1>2, <1>3, <1>4, Stores

LEMMA CommitInv ==
    ASSUME JournalInv, NEW e \in writing, Commit(e)
    PROVE  JournalInv'
<1>1. /\ Store(e) /\ writing' = writing \ {e}
      /\ UNCHANGED <<sequence, made, pruning, handing, queue>>
  BY DEF Commit, counters
<1>2. e \in Pending /\ e \in Events /\ Pending' \subseteq Pending
  BY <1>1 DEF Pending, JournalInv, JournalTypes
<1>3. writing' \subseteq Events /\ queue' \in Seq(Events)
  BY <1>1 DEF JournalInv, JournalTypes
<1>4. QED
  BY <1>1, <1>2, <1>3, Stores

LEMMA FindExpiredInv ==
    ASSUME JournalInv, FindExpired
    PROVE  JournalInv'
<1>1. /\ pruning' = Latest(ExpiredPrefix)
      /\ UNCHANGED <<sequence, rows, highWater, floor, persisted, made, handing,
                     writing, queue>>
  BY DEF FindExpired, journal, counters
<1>2. \A r \in ExpiredPrefix : r \in rows /\ r.seq \in Nat /\ r.seq <= sequence
  <2>1. ASSUME NEW r \in ExpiredPrefix
        PROVE  r \in rows /\ r.seq \in Nat /\ r.seq <= sequence
    <3>1. r \in rows
      BY DEF ExpiredPrefix, Batch
    <3>2. r.seq \in Nat /\ r.seq <= Latest(rows) /\ Latest(rows) <= sequence
          /\ Latest(rows) \in Nat /\ sequence \in Nat
      BY <3>1, LatestRow DEF JournalInv, JournalTypes
    <3>3. QED
      BY <3>1, <3>2
  <2>2. QED
    BY <2>1
<1>3. sequence \in Nat
  BY DEF JournalInv, JournalTypes
<1>4. /\ pruning' \in Nat
      /\ pruning' # 0 => \E r \in ExpiredPrefix : r.seq = pruning'
  BY <1>1, <1>2, <1>3, LatestIs
<1>5. Pending' \subseteq Pending
  BY <1>1 DEF Pending
<1>6. /\ made' \in Nat /\ handing' \subseteq Events /\ writing' \subseteq Events
      /\ queue' \in Seq(Events)
  BY <1>1 DEF JournalInv, JournalTypes
<1>7. QED
  BY <1>1, <1>2, <1>4, <1>5, <1>6, Shuffle

\* The rest leaves the writers and the journal alone.
LEMMA StreamInv ==
    ASSUME JournalInv,
           \/ \E e \in writing : CommitFails(e)
           \/ \E e \in stored : Broadcast(e)
           \/ Age \/ PruneGivesUp \/ Connect \/ ReadFloor \/ Seek \/ ReadPage
           \/ Deliver \/ Disconnect \/ UNCHANGED vars
    PROVE  JournalInv'
<1>1. /\ UNCHANGED <<sequence, rows, highWater, floor, persisted, made, handing,
                     queue>>
      /\ writing' \subseteq writing
      /\ pruning' = pruning \/ pruning' = 0
  BY DEF CommitFails, Broadcast, Age, PruneGivesUp, Connect, ReadFloor, Seek,
     ReadPage, Deliver, Disconnect, vars, process, journal, counters
<1>2. Pending' \subseteq Pending
  BY <1>1 DEF Pending
<1>3. /\ made' \in Nat /\ handing' \subseteq Events /\ writing' \subseteq Events
      /\ queue' \in Seq(Events) /\ pruning' \in Nat
      /\ pruning' # 0 => \E r \in rows : r.seq = pruning'
  BY <1>1 DEF JournalInv, JournalTypes, MarksOrdered
<1>4. QED
  BY <1>1, <1>2, <1>3, Shuffle

LEMMA StepInv == JournalInv /\ [Next]_vars => JournalInv'
BY PublishInv, QueueInv, WriteInv, CommitInv, PruneInv, RestartInv, FindExpiredInv,
   StreamInv DEF Next

\* The invariant holds throughout.
THEOREM JournalInvariant == Spec => []JournalInv
BY InitInv, StepInv, PTL DEF Spec

\* No sequence under which an event was ever stored is given to another event, for
\* any number of events, restarts and prunings.
THEOREM SequencesStayFresh == Spec => []SequencesFresh
<1>1. JournalInv => SequencesFresh
  <2> SUFFICES ASSUME JournalInv PROVE SequencesFresh
    OBVIOUS
  <2>1. \A e \in persisted : e.seq \in Nat /\ e.seq <= sequence
    BY DEF JournalInv, JournalTypes, SequencesGiven, Events
  <2>2. Latest(persisted) <= sequence
    BY <2>1, LatestIs DEF JournalInv, JournalTypes
  <2>3. QED
    BY <2>2 DEF JournalInv, SequencesUnique, SequencesFresh, Pending
<1>2. QED
  BY <1>1, JournalInvariant, PTL

\* The journal holds everything that was stored above its floor.
THEOREM FloorStaysHonest == Spec => []FloorHonest
<1>1. JournalInv => FloorHonest
  BY DEF JournalInv
<1>2. QED
  BY <1>1, JournalInvariant, PTL
=============================================================================
