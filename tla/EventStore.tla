----------------------------- MODULE EventStore -----------------------------
(***************************************************************************)
(* The write path of the platform: a caller reads a stream, decides on new *)
(* events, and appends them in one Postgres transaction guarded by the     *)
(* unique index on (stream, version).                                      *)
(*                                                                         *)
(*   - EventStoreService.append / readStream                               *)
(*   - EventSourcedRepository.load / save over AggregateRoot               *)
(*   - the event publishers, which read, append and publish on their own   *)
(*                                                                         *)
(* An API instance runs many such calls at once and several instances may  *)
(* share the database, so writers interleave between any two statements.   *)
(***************************************************************************)
EXTENDS Integers, Sequences, FiniteSets

CONSTANTS Stream,    \* aggregate streams, <<aggregateType, aggregateId>>
          Writer,    \* calls in flight: requests, ticks and handlers
          MaxBatch,  \* most events one command raises
          MaxSaves   \* bound: calls begun in one behaviour

ASSUME EventStoreAssumption ==
  /\ MaxBatch \in Nat \ {0}
  /\ MaxSaves \in Nat

VARIABLES
  rows,          \* committed rows of table event_store
  nextPosition,  \* next value of the global_position sequence
  phase,         \* where each writer is in its call
  kind,          \* which code the writer runs
  stream,        \* the stream it writes
  history,       \* the events it read, all its decision rests on
  expected,      \* the expectedVersion it will append at
  size,          \* how many events it decided to append
  drawn,         \* position drawn for the row being inserted, 0 if none
  tx,            \* rows its transaction inserted, in order
  bus,           \* what reached the event bus, in XADD order
  saves          \* calls begun so far (bounded by MaxSaves)

call  == <<kind, stream, history, expected, size>>
vars  == <<rows, nextPosition, phase, call, drawn, tx, bus, saves>>

Phase == {"idle", "appending", "stored", "returned", "threw"}
Kind  == {"repository", "publisher", "swallowing"}

Row == [stream : Stream, version : Nat, position : Nat \ {0}]

StreamRows(s) == {r \in rows : r.stream = s}
Inserted(w)   == {tx[w][i] : i \in 1..Len(tx[w])}

(* Rows the unique index knows of while w's transaction is open. *)
Pending(w) == IF phase[w] = "appending" THEN Inserted(w) ELSE {}

TypeOK ==
  /\ rows \subseteq Row
  /\ nextPosition \in Nat \ {0}
  /\ phase \in [Writer -> Phase]
  /\ kind \in [Writer -> Kind]
  /\ stream \in [Writer -> Stream]
  /\ history \in [Writer -> SUBSET Row]
  /\ expected \in [Writer -> Int]
  /\ size \in [Writer -> 1..MaxBatch]
  /\ drawn \in [Writer -> Nat]
  /\ tx \in [Writer -> Seq(Row)]
  /\ bus \in Seq(Row)
  /\ saves \in 0..MaxSaves

-----------------------------------------------------------------------------
Init ==
  /\ rows = {}
  /\ nextPosition = 1
  /\ phase = [w \in Writer |-> "idle"]
  /\ kind = [w \in Writer |-> "repository"]
  /\ stream \in [Writer -> Stream]
  /\ history = [w \in Writer |-> {}]
  /\ expected = [w \in Writer |-> -1]
  /\ size = [w \in Writer |-> 1]
  /\ drawn = [w \in Writer |-> 0]
  /\ tx = [w \in Writer |-> <<>>]
  /\ bus = <<>>
  /\ saves = 0

(* Common to every caller: the version it appends at comes from what it    *)
(* read, then append() opens its transaction.                              *)
Begin(w, k, s, read, version, n) ==
  /\ phase[w] \in {"idle", "returned", "threw"}
  /\ saves < MaxSaves
  /\ saves' = saves + 1
  /\ phase' = [phase EXCEPT ![w] = "appending"]
  /\ kind' = [kind EXCEPT ![w] = k]
  /\ stream' = [stream EXCEPT ![w] = s]
  /\ history' = [history EXCEPT ![w] = read]
  /\ expected' = [expected EXCEPT ![w] = version]
  /\ size' = [size EXCEPT ![w] = n]
  /\ drawn' = [drawn EXCEPT ![w] = 0]
  /\ tx' = [tx EXCEPT ![w] = <<>>]
  /\ UNCHANGED <<rows, nextPosition, bus>>

(* X.create(uuid(), ..) then save: no read.  The fresh id names a stream   *)
(* no row and no other call uses.                                          *)
Create(w, s, n) ==
  /\ StreamRows(s) = {}
  /\ \A v \in Writer : phase[v] = "appending" => stream[v] # s
  /\ Begin(w, "repository", s, {}, -1, n)

(* load(id) replays the stream, a behaviour method raises n events, save   *)
(* computes version - uncommitted.length: the number of events replayed,   *)
(* less one.  An empty stream is NotFoundError.                            *)
LoadAndDecide(w, s, n) ==
  /\ StreamRows(s) # {}
  /\ Begin(w, "repository", s, StreamRows(s), Cardinality(StreamRows(s)) - 1, n)

(* The version of the last event read, or -1. *)
LastVersion(S) ==
  IF S = {} THEN -1
  ELSE CHOOSE v \in {r.version : r \in S} : \A r \in S : r.version <= v

(* A publisher appends one event at the last version it read; the stream   *)
(* may be empty.  Intelligence and AI publishers swallow append errors.    *)
PublisherRead(w, k, s) ==
  /\ k \in {"publisher", "swallowing"}
  /\ Begin(w, k, s, StreamRows(s), LastVersion(StreamRows(s)), 1)

(* Mutants of NextVersion: append at whatever the stream holds by now; an  *)
(* off-by-one.                                                             *)
NextVersion_Latest(w)   == Cardinality(StreamRows(stream[w])) + Len(tx[w])
NextVersion_OffByOne(w) == expected[w] + Len(tx[w])

NextVersion(w) == expected[w] + 1 + Len(tx[w])

(* INSERT evaluates nextval() first; a sequence is never rolled back. *)
DrawPosition(w) ==
  /\ phase[w] = "appending"
  /\ Len(tx[w]) < size[w]
  /\ drawn[w] = 0
  /\ drawn' = [drawn EXCEPT ![w] = nextPosition]
  /\ nextPosition' = nextPosition + 1
  /\ UNCHANGED <<rows, phase, call, tx, bus, saves>>

Taken(w, S) == \E r \in S : r.stream = stream[w] /\ r.version = NextVersion(w)

(* Mutant of InsertRow: the table without its unique index. *)
InsertRow_NoIndex(w) ==
  /\ phase[w] = "appending"
  /\ drawn[w] # 0
  /\ tx' = [tx EXCEPT ![w] = Append(@, [stream |-> stream[w],
                                        version |-> NextVersion(w),
                                        position |-> drawn[w]])]
  /\ drawn' = [drawn EXCEPT ![w] = 0]
  /\ UNCHANGED <<rows, nextPosition, phase, call, bus, saves>>

(* The row enters the unique index.  It waits while another open           *)
(* transaction holds the same key.                                         *)
InsertRow(w) ==
  /\ phase[w] = "appending"
  /\ drawn[w] # 0
  /\ ~Taken(w, rows)
  /\ \A v \in Writer \ {w} : ~Taken(w, Pending(v))
  /\ tx' = [tx EXCEPT ![w] = Append(@, [stream |-> stream[w],
                                        version |-> NextVersion(w),
                                        position |-> drawn[w]])]
  /\ drawn' = [drawn EXCEPT ![w] = 0]
  /\ UNCHANGED <<rows, nextPosition, phase, call, bus, saves>>

(* How a failed append leaves the caller: publish() of the swallowing      *)
(* publishers logs a warning and returns.                                  *)
AfterFailure(w) == IF kind[w] = "swallowing" THEN "returned" ELSE "threw"

Rollback(w) ==
  /\ phase' = [phase EXCEPT ![w] = AfterFailure(w)]
  /\ tx' = [tx EXCEPT ![w] = <<>>]
  /\ drawn' = [drawn EXCEPT ![w] = 0]
  /\ UNCHANGED <<rows, nextPosition, call, bus, saves>>

(* Mutant of Conflict: a duplicate key is taken for a lock wait. *)
Conflict_KeepsWaiting(w) ==
  /\ phase[w] = "appending"
  /\ drawn[w] # 0
  /\ Taken(w, rows)
  /\ UNCHANGED vars

(* P2002: the key is committed, append throws ConcurrencyError. *)
Conflict(w) ==
  /\ phase[w] = "appending"
  /\ drawn[w] # 0
  /\ Taken(w, rows)
  /\ Rollback(w)

(* Any other database error: the transaction is rolled back and rethrown. *)
DatabaseError(w) ==
  /\ phase[w] = "appending"
  /\ Rollback(w)

Commit(w) ==
  /\ phase[w] = "appending"
  /\ Len(tx[w]) = size[w]
  /\ rows' = rows \cup Inserted(w)
  /\ phase' = [phase EXCEPT ![w] = "stored"]
  /\ UNCHANGED <<nextPosition, call, drawn, tx, bus, saves>>

(* Mutant of Publish: XADD inside the transaction. *)
Publish_BeforeCommit(w) ==
  /\ phase[w] = "appending"
  /\ Len(tx[w]) = size[w]
  /\ bus' = bus \o tx[w]
  /\ phase' = [phase EXCEPT ![w] = "returned"]
  /\ UNCHANGED <<rows, nextPosition, call, drawn, tx, saves>>

(* bus.publish(stored): XADD every stored event, in order. *)
Publish(w) ==
  /\ phase[w] = "stored"
  /\ bus' = bus \o tx[w]
  /\ phase' = [phase EXCEPT ![w] = "returned"]
  /\ UNCHANGED <<rows, nextPosition, call, drawn, tx, saves>>

(* Redis fails although the events are stored: it has run the first of the *)
(* pipeline's commands, none or all of them, and exec() rejects, or        *)
(* resolves with an error per command that publish() does not look at.     *)
PublishFails(w) ==
  /\ phase[w] = "stored"
  /\ \E n \in 0..Len(tx[w]) : bus' = bus \o SubSeq(tx[w], 1, n)
  /\ phase' \in {[phase EXCEPT ![w] = p] : p \in {AfterFailure(w), "returned"}}
  /\ UNCHANGED <<rows, nextPosition, call, drawn, tx, saves>>

(* Mutant of Crash: a commit that is acknowledged before it is durable. *)
Crash_LosesCommit(w) ==
  /\ phase[w] \in {"appending", "stored"}
  /\ rows' = rows \ Inserted(w)
  /\ phase' = [phase EXCEPT ![w] = "idle"]
  /\ tx' = [tx EXCEPT ![w] = <<>>]
  /\ drawn' = [drawn EXCEPT ![w] = 0]
  /\ UNCHANGED <<nextPosition, call, bus, saves>>

(* The process dies: Postgres rolls an open transaction back, events that  *)
(* are stored and not yet published never reach the bus.                   *)
Crash(w) ==
  /\ phase[w] \in {"appending", "stored"}
  /\ phase' = [phase EXCEPT ![w] = "idle"]
  /\ tx' = [tx EXCEPT ![w] = <<>>]
  /\ drawn' = [drawn EXCEPT ![w] = 0]
  /\ UNCHANGED <<rows, nextPosition, call, bus, saves>>

Start(w) ==
  \E s \in Stream :
    \/ \E n \in 1..MaxBatch : Create(w, s, n) \/ LoadAndDecide(w, s, n)
    \/ \E k \in Kind : PublisherRead(w, k, s)

Step(w) ==
  DrawPosition(w) \/ InsertRow(w) \/ Conflict(w) \/ Commit(w) \/ Publish(w)

Next ==
  \E w \in Writer :
    Start(w) \/ Step(w) \/ DatabaseError(w) \/ PublishFails(w) \/ Crash(w)

Spec == Init /\ [][Next]_vars

(* A call whose process lives runs on: Postgres answers every statement    *)
(* and the promise chain of append and publish is scheduled.  Nothing      *)
(* makes new calls start.                                                  *)
FairSpec == Spec /\ \A w \in Writer : WF_vars(Step(w))

-----------------------------------------------------------------------------
(* Every stream holds the versions 0..n, each once: a stream can be        *)
(* replayed, and counting its events gives the version of the last one,    *)
(* which is how the repository computes expectedVersion.                   *)
StreamsGapless ==
  \A r \in rows :
    /\ \A v \in 0..(r.version - 1) :
         \E q \in rows : q.stream = r.stream /\ q.version = v
    /\ \A q \in rows : q.stream = r.stream /\ q.version = r.version => q = r

(* Within a stream the global positions rise with the versions, so whoever *)
(* reads the log by position (readAll) meets each stream's events in the   *)
(* order they were decided, although positions are drawn long before the   *)
(* transactions that use them commit.                                      *)
PositionsFollowVersions ==
  \A r, q \in rows :
    r.stream = q.stream /\ r.version < q.version => r.position < q.position

(* A stream can be replayed by version and is met in the same order by     *)
(* position (loadByStream, readAll).                                       *)
StreamsInOrder == StreamsGapless /\ PositionsFollowVersions

(* No lost update: when a command's events become facts, the events its    *)
(* aggregate was folded from are the whole stream, nothing was appended    *)
(* between its read and its commit.                                        *)
CommitOnCurrentHistory ==
  [][\A w \in Writer :
       phase[w] = "appending" /\ phase'[w] = "stored"
         => history[w] = StreamRows(stream[w])]_vars

(* What subscribers are told happened did happen, and is told once: the    *)
(* bus never carries an event whose transaction rolled back.               *)
BusCarriesFacts ==
  /\ \A i \in 1..Len(bus) : bus[i] \in rows
  /\ \A i, j \in 1..Len(bus) : bus[i] = bus[j] => i = j

(* A save() or publish() that returned to its caller has stored all its    *)
(* events; only the swallowing publishers break it.                        *)
StoredWhenReturned(w) ==
  phase[w] = "returned" => Len(tx[w]) = size[w] /\ Inserted(w) \subseteq rows

ReturnedMeansStored ==
  \A w \in Writer : kind[w] # "swallowing" => StoredWhenReturned(w)

(* Callers and subscribers are told of facts only: what a save() returned  *)
(* for is stored, and what the bus carries is stored and carried once.     *)
ToldIsStored == BusCarriesFacts /\ ReturnedMeansStored

(* Every append ends: writers that wait on each other's uncommitted keys   *)
(* never wait in a circle, and the waiting ends in a commit or a conflict. *)
AppendsEnd == \A w \in Writer : phase[w] = "appending" ~> phase[w] # "appending"

-----------------------------------------------------------------------------
(* Refinement: stream s as EventLog sees it, the positions of its rows in  *)
(* version order.                                                          *)
RowAt(s, v) == CHOOSE r \in StreamRows(s) : r.version = v

Facts == [s \in Stream |->
            [i \in 1..Cardinality(StreamRows(s)) |-> RowAt(s, i - 1).position]]

Log == INSTANCE EventLog WITH log <- Facts

(* The store implements the promise of EventLog. *)
ImplementsLog == Log!Spec

(* Refinement: what readers of the global log may rely on (EventFeed).  A  *)
(* row is open from the moment its position is drawn.                      *)
FeedRowOf(s, p) == [stream |-> s, position |-> p]

OpenRows ==
  (UNION {{FeedRowOf(stream[w], r.position) : r \in Pending(w)} : w \in Writer})
    \cup {FeedRowOf(stream[w], drawn[w]) : w \in {v \in Writer : drawn[v] # 0}}

Feed == INSTANCE EventFeed WITH
          rows <- {FeedRowOf(r.stream, r.position) : r \in rows},
          open <- OpenRows,
          MaxPosition <- MaxSaves * MaxBatch

(* The store implements the feed its projections are built on. *)
ImplementsFeed == Feed!FeedSpec

(* The store is a log per stream and a feed over all of them.              *)
Implements == ImplementsLog /\ ImplementsFeed
=============================================================================
