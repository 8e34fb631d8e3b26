---------------------------- MODULE EventStream ----------------------------
(***************************************************************************)
(* From AppState::publish to a subscriber of /v2/events: the wire sequence *)
(* (an atomic counter), the broadcast, the durable writer behind its       *)
(* queue, transactional commits, the event journal and its retention       *)
(* (state/event_retention.rs), a stream that catches up from the journal   *)
(* and then goes live (v2_routes.rs), and the SDK client that reconnects   *)
(* with the highest sequence it has seen (sdk http/src/index.ts).          *)
(*                                                                         *)
(* An event is its id and its sequence.  The bus is the log of EventFeed,  *)
(* `at` the place of the one stream modelled: streams share nothing else.  *)
(* Filters (tenant, session family) and the baseline of unfinished         *)
(* messages are left out: every event is for the client.                   *)
(***************************************************************************)
EXTENDS Integers, FiniteSetsExt, SequencesExt

CONSTANTS
    PageSize,    \* rows per page of a replay
    MaxReplayed, \* replayed ids a stream remembers
    BatchRows,   \* rows per batch of the retention worker
    Starts,      \* cursors a client may begin with
    NoCursor,    \* a client that begins with the live tail
    MaxEvents, MaxConnects, MaxRestarts  \* bounds

ASSUME CursorAssumption == NoCursor \notin Nat /\ Starts \subseteq {0, NoCursor}
ASSUME PageAssumption ==
    /\ {PageSize, MaxReplayed, BatchRows} \subseteq Nat \ {0}
    /\ PageSize <= MaxReplayed  \* 128 rows at most, 16384 ids
ASSUME BoundAssumption == {MaxEvents, MaxConnects, MaxRestarts} \subseteq Nat

VARIABLES
    (* the server process *)
    sequence,   \* the wire sequence given out last
    handing,    \* broadcast, not yet in the queue of the durable writer
    queue,      \* the queue of the durable writer
    writing,    \* in a transaction that will store them
    stored,     \* stored by a transaction, not yet broadcast
    bus,        \* the events broadcast
    pruning,    \* the last row of the batch being pruned, 0 if there is none
    (* the database *)
    rows,       \* the journal
    highWater, floor,
    cutoff,     \* rows created before this moment have expired
    (* the stream: off, floor, seek, read, live *)
    phase, at,
    asked,      \* the cursor of the request
    from,       \* the cursor of the replay
    page,       \* sequences of the page that is being read
    replayed,   \* ids that the replay has sent
    sent,       \* ids sent on this stream, in order
    shed,       \* history: ids that the replay has sent and then forgotten
    (* the client *)
    cursor, seen,
    app,        \* ids handed to the application, in order
    excused,    \* the highest sequence the client was told is gone
    (* history and bounds *)
    made, persisted, start, wanted, known, joined, connects, restarts

counters == <<made, connects, restarts>>
process == <<sequence, handing, queue, writing, stored, bus, pruning>>
journal == <<rows, highWater, floor, cutoff, persisted>>
stream == <<phase, at, asked, from, page, replayed, sent, shed, start, wanted, known>>
client == <<cursor, seen, app, excused, joined>>
vars == <<process, journal, stream, client, counters>>

Events == [id : Nat, seq : Nat]
Row == [id : Nat, seq : Nat, created : Nat]
Cursors == Nat \cup {NoCursor}
Seqs(S) == {e.seq : e \in S}
Ids(s) == {e.id : e \in s}
Latest(S) == Max({0} \cup Seqs(S))

TypeOK ==
    /\ {sequence, pruning, highWater, floor, cutoff, at, start, excused} \subseteq Nat
    /\ {handing, writing, stored, persisted} \subseteq SUBSET Events
    /\ queue \in Seq(Events) /\ bus \in Seq(Events) /\ rows \subseteq Row
    /\ phase \in {"off", "floor", "seek", "read", "live"}
    /\ phase # "off" => start <= at /\ at <= Len(bus)
    /\ cursor \in Cursors /\ asked \in Cursors /\ from \in Nat
    /\ page \subseteq Nat /\ replayed \subseteq Nat /\ shed \subseteq Nat
    /\ sent \in Seq(Nat) /\ app \in Seq(Nat)
    /\ seen \subseteq {"row", "live"} \X Nat

Init ==
    /\ sequence = 0 /\ pruning = 0
    /\ handing = {} /\ writing = {} /\ stored = {}
    /\ queue = <<>> /\ bus = <<>>
    /\ rows = {} /\ highWater = 0 /\ floor = 0 /\ cutoff = 0 /\ persisted = {}
    /\ phase = "off" /\ at = 0 /\ asked = 0 /\ from = 0
    /\ page = {} /\ replayed = {} /\ sent = <<>> /\ shed = {}
    /\ start = 0 /\ wanted = {} /\ known = 0
    /\ cursor \in Starts /\ seen = {} /\ app = <<>> /\ excused = 0
    /\ joined = NoCursor
    /\ made = 0 /\ connects = 0 /\ restarts = 0

-----------------------------------------------------------------------------
(* Publishing *)

\* A new event takes the next sequence.
Stamped == [id |-> made, seq |-> sequence + 1]
Stamp ==
    /\ made < MaxEvents
    /\ made' = made + 1
    /\ sequence' = sequence + 1

\* publish: stamped and broadcast under one lock, handed to the writer later.
Publish ==
    /\ Stamp
    /\ bus' = Append(bus, Stamped)
    /\ handing' = handing \cup {Stamped}
    /\ UNCHANGED <<queue, writing, stored, pruning, journal, stream, client,
                   connects, restarts>>

Enqueue(e) ==
    /\ e \in handing
    /\ handing' = handing \ {e}
    /\ queue' = Append(queue, e)
    /\ UNCHANGED <<sequence, writing, stored, bus, pruning, journal, stream,
                   client, counters>>

PublishLive ==
    /\ Stamp
    /\ bus' = Append(bus, Stamped)
    /\ UNCHANGED <<handing, queue, writing, stored, pruning, journal, stream,
                   client, connects, restarts>>

\* The row of an event, created now; the database refuses a taken sequence.
Store(e) ==
    /\ e.seq \notin Seqs(rows)
    /\ rows' = rows \cup {[id |-> e.id, seq |-> e.seq,
                           created |-> Cardinality(persisted)]}
    /\ persisted' = persisted \cup {e}
    /\ UNCHANGED <<highWater, floor, cutoff>>

\* The durable writer; an event it cannot store is dropped.
Write ==
    /\ queue # <<>>
    /\ Store(Head(queue))
    /\ queue' = Tail(queue)
    /\ UNCHANGED <<sequence, handing, writing, stored, bus, pruning, stream,
                   client, counters>>

WriteFails ==
    /\ queue # <<>>
    /\ queue' = Tail(queue)
    /\ UNCHANGED <<sequence, handing, writing, stored, bus, pruning, journal,
                   stream, client, counters>>

\* An update with its event: the sequence is taken before the transaction.
Allocate ==
    /\ Stamp
    /\ writing' = writing \cup {Stamped}
    /\ UNCHANGED <<handing, queue, stored, bus, pruning, journal, stream, client,
                   connects, restarts>>

Commit(e) ==
    /\ e \in writing
    /\ Store(e)
    /\ writing' = writing \ {e}
    /\ stored' = stored \cup {e}
    /\ UNCHANGED <<sequence, handing, queue, bus, pruning, stream, client,
                   counters>>

CommitFails(e) ==
    /\ e \in writing
    /\ writing' = writing \ {e}
    /\ UNCHANGED <<sequence, handing, queue, stored, bus, pruning, journal,
                   stream, client, counters>>

\* publish_committed
Broadcast(e) ==
    /\ e \in stored
    /\ stored' = stored \ {e}
    /\ bus' = Append(bus, e)
    /\ UNCHANGED <<sequence, handing, queue, writing, pruning, journal, stream,
                   client, counters>>

-----------------------------------------------------------------------------
(* Retention *)

\* Time passes: the oldest row that has not expired does.
Age ==
    /\ cutoff < Cardinality(persisted)
    /\ cutoff' = cutoff + 1
    /\ UNCHANGED <<process, rows, highWater, floor, persisted, stream, client,
                   counters>>

\* The rows of one batch above the floor, and those of them that have expired
\* before the first that has not.
Batch ==
    LET above == {r \in rows : r.seq > floor} IN
    {r \in above : Cardinality({q \in above : q.seq < r.seq}) < BatchRows}
ExpiredPrefix ==
    {r \in Batch : \A q \in Batch : q.seq <= r.seq => q.created < cutoff}

FindExpired ==
    /\ pruning = 0 /\ ExpiredPrefix # {}
    /\ pruning' = Latest(ExpiredPrefix)
    /\ UNCHANGED <<sequence, handing, queue, writing, stored, bus, journal,
                   stream, client, counters>>

\* Variants of Prune: the floor is left to a transaction of its own, and the
\* high-water mark is taken after the rows have gone.
PruneFloorLater ==
    /\ pruning # 0
    /\ highWater' = Max({highWater, Latest(rows)})
    /\ floor' = floor
    /\ rows' = {r \in rows : r.seq <= floor \/ r.seq > pruning}
    /\ pruning' = 0
    /\ UNCHANGED <<sequence, handing, queue, writing, stored, bus, cutoff,
                   persisted, stream, client, counters>>
PruneFirst ==
    /\ pruning # 0
    /\ rows' = {r \in rows : r.seq <= floor \/ r.seq > pruning}
    /\ highWater' = Max({highWater, Latest(rows')})
    /\ floor' = Max({floor, pruning})
    /\ pruning' = 0
    /\ UNCHANGED <<sequence, handing, queue, writing, stored, bus, cutoff,
                   persisted, stream, client, counters>>

\* One transaction; it may be given up, the writer being busy.
Prune ==
    /\ pruning # 0
    /\ highWater' = Max({highWater, Latest(rows)})
    /\ floor' = Max({floor, pruning})
    /\ rows' = {r \in rows : r.seq <= floor \/ r.seq > pruning}
    /\ pruning' = 0
    /\ UNCHANGED <<sequence, handing, queue, writing, stored, bus, cutoff,
                   persisted, stream, client, counters>>

PruneGivesUp ==
    /\ pruning # 0
    /\ pruning' = 0
    /\ UNCHANGED <<sequence, handing, queue, writing, stored, bus, journal,
                   stream, client, counters>>

\* A stream is dropped with all it knows.
StreamEnds ==
    /\ phase' = "off" /\ at' = 0 /\ asked' = 0 /\ from' = 0
    /\ page' = {} /\ replayed' = {} /\ sent' = <<>> /\ shed' = {}
    /\ start' = 0 /\ wanted' = {} /\ known' = 0

\* The server stops or is killed, and comes up again from the database.
Restart ==
    /\ restarts < MaxRestarts /\ restarts' = restarts + 1
    /\ sequence' = Max({highWater, Latest(rows)})
    /\ handing' = {} /\ queue' = <<>> /\ writing' = {} /\ stored' = {}
    /\ bus' = <<>> /\ pruning' = 0
    /\ StreamEnds
    /\ UNCHANGED <<journal, client, made, connects>>

-----------------------------------------------------------------------------
(* The stream *)

\* Where a subscription starts in the bus, and a variant that is off by one.
SubscribedPast == Len(bus) + 1
Subscribed == Len(bus)

Connect ==
    /\ phase = "off" /\ connects < MaxConnects /\ connects' = connects + 1
    /\ phase' = "floor"
    /\ asked' = cursor
    /\ at' = Subscribed /\ start' = Len(bus)
    /\ replayed' = {} /\ sent' = <<>> /\ shed' = {}
    /\ wanted' = {r \in rows : cursor # NoCursor /\ r.seq > cursor}
    /\ joined' = IF joined = NoCursor THEN made ELSE joined
    /\ UNCHANGED <<process, journal, from, page, known, cursor, seen, app,
                   excused, made, restarts>>

\* The elements of a finite set in the order of their sequences, which differ.
InOrder(S) ==
    {s \in [1 .. Cardinality(S) -> S] :
        \A i, j \in DOMAIN s : i < j => s[i].seq < s[j].seq}

\* The SDK drops what it has seen, advances its cursor to the highest sequence,
\* and hands the rest on.
Receive(news) ==
    \E fresh \in InOrder({n \in news : n.envelope \notin seen}) :
        /\ seen' = seen \cup {n.envelope : n \in news}
        /\ app' = app \o [i \in DOMAIN fresh |-> fresh[i].id]
        /\ cursor' = IF fresh = <<>> THEN cursor
                     ELSE Max((IF cursor = NoCursor THEN {} ELSE {cursor})
                              \cup Seqs(Range(fresh)))
        /\ UNCHANGED <<excused, joined>>

\* A cursor below the floor is answered with events.replay.expired, which takes
\* the client to the floor; a tail replays nothing.  A floor that cannot be read
\* is taken to be 0.  (That a tail is told its cursor expired is left out: no
\* client of the repository asks for a tail with a cursor.)
ReadFloor ==
    /\ phase = "floor" /\ known' \in {floor, 0}
    /\ \/ /\ asked = NoCursor
          /\ phase' = "live"
          /\ UNCHANGED <<from, client>>
       \/ /\ asked # NoCursor /\ asked >= known'
          /\ phase' = "seek" /\ from' = asked
          /\ UNCHANGED client
       \/ /\ asked # NoCursor /\ asked < known'
          /\ phase' = "seek" /\ from' = known'
          /\ excused' = known' /\ cursor' = Max({cursor, known'})
          /\ UNCHANGED <<seen, app, joined>>
    /\ UNCHANGED <<process, journal, at, asked, page, replayed, sent, shed,
                   start, wanted, counters>>

\* The sequences of the next page; the rows are read one by one afterwards.
Seek ==
    /\ phase = "seek"
    /\ LET later == {s \in Seqs(rows) : s > from} IN
       page' = {s \in later : Cardinality({t \in later : t < s}) < PageSize}
    /\ phase' = "read"
    /\ UNCHANGED <<process, journal, at, asked, from, replayed, sent, shed,
                   start, wanted, known, client, counters>>

\* Variants of Remember: nothing is remembered, and a page that ends early for
\* its bytes is taken for a whole one.
RememberNothing(ids) == {}
ContinueAfterPage(last) == Max(page)

\* At the limit all the ids remembered so far are shed, in the middle of a page
\* if need be; a page has no more ids than the limit, so this happens once.
Shed(ids) ==
    LET keep == MaxReplayed - Cardinality(replayed) IN
    IF Len(ids) <= keep THEN {} ELSE replayed \cup {ids[i] : i \in 1 .. keep}

Remember(ids) == (replayed \cup Range(ids)) \ Shed(ids)

ContinueAfter(last) == last

\* The rows of the page that are still there; a budget of bytes may end it early.
\* A page without rows ends the replay.
ReadPage ==
    /\ phase = "read"
    /\ LET there == {r \in rows : r.seq \in page} IN
       \/ /\ there = {}
          /\ phase' = "live"
          /\ UNCHANGED <<from, replayed, sent, shed, client>>
       \/ \E last \in Seqs(there) :
          \E read \in InOrder({r \in there : r.seq <= last}) :
            LET ids == [i \in DOMAIN read |-> read[i].id] IN
            /\ phase' = "seek"
            /\ from' = ContinueAfter(last)
            /\ replayed' = Remember(ids)
            /\ shed' = shed \cup Shed(ids)
            /\ sent' = sent \o ids
            /\ Receive({[envelope |-> <<"row", r.seq>>, id |-> r.id, seq |-> r.seq]
                        : r \in Range(read)})
    /\ page' = {}
    /\ UNCHANGED <<process, journal, at, asked, start, wanted, known, counters>>

\* Variant of Overlap: by sequence instead of by id.
OverlapBySequence(e) == e.seq <= from

\* The replay has sent this event already.
Overlap(e) == e.id \in replayed

Deliver ==
    /\ phase = "live" /\ at < Len(bus)
    /\ at' = at + 1
    /\ LET e == bus[at + 1] IN
       \/ /\ Overlap(e)
          /\ replayed' = replayed \ {e.id}
          /\ UNCHANGED <<sent, client>>
       \/ /\ ~Overlap(e)
          /\ sent' = Append(sent, e.id)
          /\ Receive({[envelope |-> <<"live", e.id>>, id |-> e.id, seq |-> e.seq]})
          /\ UNCHANGED replayed
    /\ UNCHANGED <<process, journal, phase, asked, from, page, shed, start,
                   wanted, known, counters>>

\* The bus overflows, a page cannot be read, or the connection breaks.
Disconnect ==
    /\ phase # "off"
    /\ StreamEnds
    /\ UNCHANGED <<process, journal, client, counters>>

-----------------------------------------------------------------------------
Next ==
    \/ Publish \/ PublishLive \/ Write \/ WriteFails \/ Allocate
    \/ \E e \in handing : Enqueue(e)
    \/ \E e \in writing : Commit(e) \/ CommitFails(e)
    \/ \E e \in stored : Broadcast(e)
    \/ Age \/ FindExpired \/ Prune \/ PruneGivesUp \/ Restart
    \/ Connect \/ ReadFloor \/ Seek \/ ReadPage \/ Deliver \/ Disconnect

Spec == Init /\ [][Next]_vars

-----------------------------------------------------------------------------
(* Properties *)

\* No two events share the sequence under which one of them was ever stored, in
\* whatever order they are stored and however often the server restarts: not even
\* when every row has been pruned.  No row is refused, none replays as another.
SequencesFresh ==
    LET pending == handing \cup Range(queue) \cup writing IN
    /\ \A e, f \in persisted \cup pending : e.seq = f.seq => e = f
    /\ Latest(persisted) <= sequence

\* Everything stored above the floor is in the journal.
FloorHonest ==
    \A e \in persisted : e.seq > floor => e \in {[id |-> r.id, seq |-> r.seq] : r \in rows}

\* No event is sent twice on one stream, although it may reach the stream from
\* the journal and from the bus; only an event whose id the replay has shed may be.
OncePerStream ==
    \A i, j \in DOMAIN sent : sent[i] = sent[j] => i = j \/ sent[i] \in shed

\* Nothing of what was broadcast after the subscription is left out, neither at
\* the change from the replay to the bus nor later.
NothingSkipped ==
    phase = "live" => \A i \in start + 1 .. at : bus[i].id \in Range(sent)

\* Unless the journal was pruned meanwhile, the replay has sent every row that was
\* there when the client asked for it, above its cursor and above the floor.
ReplayComplete ==
    phase = "live" /\ known = floor
        => \A r \in wanted : r.seq > known => r.id \in Range(sent)

Upcoming == IF phase = "off" THEN {} ELSE {bus[i].id : i \in at + 1 .. Len(bus)}

\* Nothing slips between the replay and the subscription (v2_routes.rs:313): every
\* row above the cursor of a live stream has been sent or is still to come.
NothingSlips ==
    phase = "live" /\ asked # NoCursor /\ known = floor
        => \A r \in rows : r.seq > asked /\ r.seq > known
            => r.id \in Range(sent) \cup Upcoming \cup Ids(stored)

\* Never an older cursor with a silently incomplete replay (v2_routes.rs:330).
ExpiryIsTold ==
    phase = "live" => \A r \in wanted : r.seq > excused => r.id \in Range(sent)

\* A cursor taken from live events resumes the journal correctly
\* (v2_routes.rs:761): no row at or below it is one that the client never got.
CursorResumes ==
    cursor # NoCursor
        => \A r \in rows : (r.seq <= cursor /\ r.seq > excused /\ r.id >= joined)
            => r.id \in Range(app) \cup Upcoming \cup Ids(stored)

\* The wire sequence never moves backwards (event_retention.rs:10): no client
\* holds a cursor that the server is still to reach.
CursorIsPast == cursor # NoCursor => cursor <= sequence

\* Only the replay tail can overlap the live buffer (v2_routes.rs:420): an id that
\* the replay has shed does not come from the bus.
OnlyTailOverlaps == IsInjective(sent)

\* The SDK hands on every event once (http/src/index.ts:259).
AppHearsOnce == IsInjective(app)
=============================================================================
