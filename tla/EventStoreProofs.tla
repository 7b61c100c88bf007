-------------------------- MODULE EventStoreProofs --------------------------
(***************************************************************************)
(* The event store's guarantees for every set of streams and writers and   *)
(* every batch size: streams are gapless, positions follow versions, a     *)
(* command commits only on the history it was decided on, and the store    *)
(* implements the log of each stream and the feed over all of them.        *)
(***************************************************************************)
EXTENDS EventStore, FiniteSetTheorems, TLAPS

SameKey(r, q) == r.stream = q.stream /\ r.version = q.version

(* A call between its read and its commit: what it read is a prefix of the *)
(* stream, what it inserted continues that prefix at later positions.      *)
CallInv(w) ==
  /\ history[w] \subseteq StreamRows(stream[w])
  /\ expected[w] >= -1
  /\ \A v \in 0..expected[w] : \E q \in history[w] : q.version = v
  /\ \A q \in history[w] : q.version <= expected[w]
  /\ Len(tx[w]) <= size[w]
  /\ \A i \in 1..Len(tx[w]) :
       /\ tx[w][i].stream = stream[w]
       /\ tx[w][i].version = expected[w] + i
       /\ tx[w][i].position < nextPosition
       /\ \A q \in history[w] : q.position < tx[w][i].position
       /\ \A j \in 1..(i - 1) : tx[w][j].position < tx[w][i].position
  /\ drawn[w] # 0 =>
       /\ Len(tx[w]) < size[w]
       /\ drawn[w] < nextPosition
       /\ \A q \in history[w] : q.position < drawn[w]
       /\ \A i \in 1..Len(tx[w]) : tx[w][i].position < drawn[w]

(* The unique index over committed rows and open transactions. *)
KeysApart ==
  \A w \in Writer : \A p \in Pending(w) :
    /\ \A q \in rows : ~SameKey(p, q)
    /\ \A v \in Writer \ {w} : \A q \in Pending(v) : ~SameKey(p, q)

RowsInv ==
  /\ IsFiniteSet(rows)
  /\ StreamsGapless
  /\ PositionsFollowVersions
  /\ \A r \in rows : r.position < nextPosition

(* The inductive invariant. *)
IInv ==
  /\ TypeOK
  /\ RowsInv
  /\ KeysApart
  /\ \A w \in Writer : phase[w] = "appending" => CallInv(w)
  /\ \A w \in Writer :
       \/ phase[w] = "stored"
       \/ phase[w] = "returned" /\ kind[w] # "swallowing"
       => Len(tx[w]) = size[w] /\ Inserted(w) \subseteq rows

-----------------------------------------------------------------------------
(* A gapless set of rows of one stream holds the versions 0..n-1, where n  *)
(* is the number of its rows: counting events finds the last version.      *)
LEMMA CountIsLastVersion ==
  ASSUME NEW S, S \subseteq Row, IsFiniteSet(S),
         \A r, q \in S : r.version = q.version => r = q,
         \A r \in S : \A v \in 0..(r.version - 1) : \E q \in S : q.version = v
  PROVE  /\ Cardinality(S) \in Nat
         /\ {r.version : r \in S} = 0..(Cardinality(S) - 1)
<1> DEFINE V == {r.version : r \in S}
           n == Cardinality(S)
           f == [r \in S |-> r.version]
<1>1. n \in Nat
  BY FS_CardinalityType
<1>2. V \subseteq Nat
  BY DEF Row
<1>3. f \in Bijection(S, V)
  <2>1. f \in [S -> V]
    OBVIOUS
  <2>2. \A a, b \in S : f[a] = f[b] => a = b
    OBVIOUS
  <2>3. \A t \in V : \E a \in S : f[a] = t
    OBVIOUS
  <2> QED
    BY <2>1, <2>2, <2>3 DEF Bijection, Injection, Surjection, IsInjective
<1>4. IsFiniteSet(V) /\ Cardinality(V) = n
  BY <1>3, FS_Bijection DEF ExistsBijection
<1>5. \A v \in V : \A u \in 0..(v - 1) : u \in V
  OBVIOUS
<1> HIDE DEF V, n, f
<1>6. ASSUME NEW v \in V
      PROVE  v \in 0..(n - 1)
  <2>1. v \in Nat
    BY <1>2
  <2>2. 0..v \subseteq V
    BY <1>5, <2>1
  <2>3. Cardinality(0..v) <= Cardinality(V)
    BY <1>4, <2>2, FS_Subset
  <2>4. Cardinality(0..v) = v + 1
    BY <2>1, FS_Interval
  <2> QED
    BY <1>1, <1>4, <2>1, <2>3, <2>4
<1> DEFINE I == 0..(n - 1)
<1>7. IsFiniteSet(I) /\ Cardinality(I) = n
  BY <1>1, FS_Interval
<1>8. V \in SUBSET I
  BY <1>6
<1> HIDE DEF I
<1>9. V = I
  BY <1>4, <1>7, <1>8, FS_Subset
<1> QED
  BY <1>1, <1>9 DEF V, n, I

(* A finite set of rows with the versions 0..n-1: both ways of computing   *)
(* the expected version, counting and taking the last, agree.              *)
LEMMA LastVersionIsCount ==
  ASSUME NEW S, S \subseteq Row, NEW n \in Nat,
         {r.version : r \in S} = 0..(n - 1)
  PROVE  LastVersion(S) = n - 1
<1>1. CASE n = 0
  <2>1. \A r \in S : r.version \in 0..(n - 1)
    OBVIOUS
  <2>2. S = {}
    BY <1>1, <2>1
  <2> QED
    BY <1>1, <2>2 DEF LastVersion
<1>2. CASE n # 0
  <2> DEFINE P(v) == \A r \in S : r.version <= v
  <2>1. n - 1 \in {r.version : r \in S} /\ P(n - 1)
    BY <1>2
  <2>2. S # {}
    BY <2>1
  <2>3. \A v \in {r.version : r \in S} : P(v) => v = n - 1
    <3> SUFFICES ASSUME NEW v \in 0..(n - 1), P(v)
                 PROVE  v = n - 1
      OBVIOUS
    <3>1. PICK r \in S : r.version = n - 1
      BY <2>1
    <3> QED
      BY <3>1
  <2>4. (CHOOSE v \in {r.version : r \in S} : P(v)) = n - 1
    BY <2>1, <2>3
  <2> QED
    BY <2>2, <2>4 DEF LastVersion
<1> QED
  BY <1>1, <1>2

-----------------------------------------------------------------------------
(* What a caller learns by reading a stream. *)
LEMMA StreamRead ==
  ASSUME TypeOK, RowsInv, NEW s \in Stream
  PROVE  LET S == StreamRows(s)
             n == Cardinality(S)
         IN  /\ n \in Nat
             /\ LastVersion(S) = n - 1
             /\ \A v \in 0..(n - 1) : \E q \in S : q.version = v
             /\ \A q \in S : q.version <= n - 1
<1> DEFINE S == StreamRows(s)
           n == Cardinality(S)
<1>1. S \subseteq Row /\ S \in SUBSET rows
  BY DEF StreamRows, TypeOK
<1>2. IsFiniteSet(S)
  BY <1>1, FS_Subset DEF RowsInv
<1>3. \A r, q \in S : r.version = q.version => r = q
  BY DEF StreamRows, RowsInv, StreamsGapless
<1>4. \A r \in S : \A v \in 0..(r.version - 1) : \E q \in S : q.version = v
  BY DEF StreamRows, RowsInv, StreamsGapless
<1> HIDE DEF S
<1>5. n \in Nat /\ {r.version : r \in S} = 0..(n - 1)
  BY <1>1, <1>2, <1>3, <1>4, CountIsLastVersion
<1> HIDE DEF n
<1>6. LastVersion(S) = n - 1
  BY <1>1, <1>5, LastVersionIsCount
<1>7. \A v \in 0..(n - 1) : \E q \in S : q.version = v
  BY <1>5
<1>8. \A q \in S : q.version <= n - 1
  <2> SUFFICES ASSUME NEW q \in S
               PROVE  q.version <= n - 1
    OBVIOUS
  <2>1. q.version \in 0..(n - 1)
    BY <1>5
  <2> QED
    BY <1>5, <2>1
<1> QED
  BY <1>5, <1>6, <1>7, <1>8 DEF S, n

(* The empty table satisfies the inductive invariant. *)
LEMMA InitInv == Init => IInv
<1> SUFFICES ASSUME Init
             PROVE  IInv
  OBVIOUS
<1>1. TypeOK
  BY EventStoreAssumption DEF Init, TypeOK, Phase, Kind
<1>2. RowsInv
  BY FS_EmptySet DEF Init, RowsInv, StreamsGapless, PositionsFollowVersions
<1>3. KeysApart
  BY DEF Init, KeysApart, Pending
<1> QED
  BY <1>1, <1>2, <1>3 DEF IInv, Init

(* Steps of other writers do not disturb a call: the table and the         *)
(* sequence only grow.                                                     *)
LEMMA OthersKeepCall ==
  ASSUME TypeOK, NEW v \in Writer, CallInv(v),
         rows \subseteq rows', nextPosition' \in Nat, nextPosition <= nextPosition',
         stream'[v] = stream[v], history'[v] = history[v],
         expected'[v] = expected[v], size'[v] = size[v],
         drawn'[v] = drawn[v], tx'[v] = tx[v]
  PROVE  CallInv(v)'
<1>1. history'[v] \subseteq StreamRows(stream[v])'
  BY DEF StreamRows, CallInv
<1>2. \A i \in 1..Len(tx[v]) : tx[v][i].position \in Nat
  <2>1. tx[v] \in Seq(Row)
    BY DEF TypeOK
  <2>2. \A i \in 1..Len(tx[v]) : tx[v][i] \in Row
    BY <2>1
  <2> QED
    BY <2>2 DEF Row
<1>3. nextPosition \in Nat /\ drawn[v] \in Nat
  BY DEF TypeOK
<1>4. \A i \in 1..Len(tx[v]) : tx[v][i].position < nextPosition'
  BY <1>2, <1>3 DEF CallInv
<1>5. drawn[v] # 0 => drawn[v] < nextPosition'
  BY <1>3 DEF CallInv
<1> QED
  BY <1>1, <1>4, <1>5 DEF CallInv

(* A call that read a prefix of its stream starts in a good state. *)
LEMMA BeginStep ==
  ASSUME IInv, NEW w \in Writer, NEW k \in Kind, NEW s \in Stream,
         NEW read, NEW version \in Int, NEW n \in 1..MaxBatch,
         read \subseteq StreamRows(s), version >= -1,
         \A v \in 0..version : \E q \in read : q.version = v,
         \A q \in read : q.version <= version,
         Begin(w, k, s, read, version, n)
  PROVE  IInv'
<1>1. TypeOK'
  BY EventStoreAssumption DEF Begin, IInv, TypeOK, Phase, StreamRows
<1>2. RowsInv'
  BY DEF Begin, IInv, RowsInv, StreamsGapless, PositionsFollowVersions
<1>3. KeysApart'
  <2>1. \A v \in Writer : Pending(v)' \subseteq Pending(v)
    BY DEF Begin, IInv, TypeOK, Pending, Inserted
  <2> QED
    BY <2>1 DEF Begin, IInv, KeysApart, SameKey
<1>4. ASSUME NEW v \in Writer, phase'[v] = "appending"
      PROVE  CallInv(v)'
  <2>1. CASE v = w
    <3>1. /\ stream'[w] = s /\ history'[w] = read /\ expected'[w] = version
          /\ size'[w] = n /\ drawn'[w] = 0 /\ tx'[w] = <<>> /\ rows' = rows
      BY DEF Begin, IInv, TypeOK
    <3>2. Len(tx'[w]) = 0 /\ n \in Nat
      BY <3>1, EventStoreAssumption
    <3>3. StreamRows(s)' = StreamRows(s)
      BY <3>1 DEF StreamRows
    <3> QED
      BY <2>1, <3>1, <3>2, <3>3 DEF CallInv
  <2>2. CASE v # w
    <3>1. /\ phase'[v] = phase[v] /\ stream'[v] = stream[v]
          /\ history'[v] = history[v] /\ expected'[v] = expected[v]
          /\ size'[v] = size[v] /\ drawn'[v] = drawn[v] /\ tx'[v] = tx[v]
      BY <2>2 DEF Begin, IInv, TypeOK
    <3>2. rows' = rows /\ nextPosition' = nextPosition /\ nextPosition \in Nat
      BY DEF Begin, IInv, TypeOK
    <3>3. TypeOK /\ CallInv(v)
      BY <1>4, <3>1 DEF IInv
    <3> QED
      BY <3>1, <3>2, <3>3, OthersKeepCall
  <2> QED
    BY <2>1, <2>2
<1>5. ASSUME NEW v \in Writer,
             \/ phase'[v] = "stored"
             \/ phase'[v] = "returned" /\ kind'[v] # "swallowing"
      PROVE  (Len(tx[v]) = size[v] /\ Inserted(v) \subseteq rows)'
  BY <1>5 DEF Begin, IInv, TypeOK, Inserted
<1> QED
  BY <1>1, <1>2, <1>3, <1>4, <1>5 DEF IInv

(* Every caller starts from a read of its stream or from a fresh one. *)
LEMMA StartStep ==
  ASSUME IInv, NEW w \in Writer, Start(w)
  PROVE  IInv'
<1>1. PICK s \in Stream :
        \/ \E n \in 1..MaxBatch : Create(w, s, n) \/ LoadAndDecide(w, s, n)
        \/ \E k \in Kind : PublisherRead(w, k, s)
  BY DEF Start
<1> DEFINE m == Cardinality(StreamRows(s))
<1>2. /\ m \in Nat
      /\ LastVersion(StreamRows(s)) = m - 1
      /\ \A v \in 0..(m - 1) : \E q \in StreamRows(s) : q.version = v
      /\ \A q \in StreamRows(s) : q.version <= m - 1
  BY StreamRead DEF IInv
<1>3. ASSUME NEW n \in 1..MaxBatch, Create(w, s, n)
      PROVE  IInv'
  BY <1>3, BeginStep DEF Create, Kind
<1> HIDE DEF m
<1>4. ASSUME NEW n \in 1..MaxBatch, LoadAndDecide(w, s, n)
      PROVE  IInv'
  <2>1. Begin(w, "repository", s, StreamRows(s), m - 1, n)
    BY <1>4 DEF LoadAndDecide, m
  <2>2. m - 1 \in Int /\ m - 1 >= -1
    BY <1>2
  <2> QED
    BY <1>2, <2>1, <2>2, BeginStep DEF Kind
<1>5. ASSUME NEW k \in Kind, PublisherRead(w, k, s)
      PROVE  IInv'
  <2>1. Begin(w, k, s, StreamRows(s), m - 1, 1)
    BY <1>2, <1>5 DEF PublisherRead
  <2>2. m - 1 \in Int /\ m - 1 >= -1 /\ 1 \in 1..MaxBatch
    BY <1>2, EventStoreAssumption
  <2> QED
    BY <1>2, <2>1, <2>2, BeginStep
<1> QED
  BY <1>1, <1>3, <1>4, <1>5

(* A drawn position is later than all that were drawn before it. *)
LEMMA DrawPositionStep ==
  ASSUME IInv, NEW w \in Writer, DrawPosition(w)
  PROVE  IInv'
<1>1. TypeOK'
  BY DEF DrawPosition, call, IInv, TypeOK
<1>2. RowsInv'
  BY DEF DrawPosition, call, IInv, TypeOK, Row, RowsInv, StreamsGapless,
         PositionsFollowVersions
<1>3. KeysApart'
  BY DEF DrawPosition, call, IInv, KeysApart, SameKey, Pending, Inserted
<1>4. ASSUME NEW v \in Writer, phase'[v] = "appending"
      PROVE  CallInv(v)'
  <2>1. /\ phase' = phase /\ stream' = stream /\ history' = history
        /\ expected' = expected /\ size' = size /\ tx' = tx /\ rows' = rows
        /\ nextPosition \in Nat /\ nextPosition' = nextPosition + 1
        /\ drawn' = [drawn EXCEPT ![w] = nextPosition]
    BY DEF DrawPosition, call, IInv, TypeOK
  <2>2. TypeOK /\ CallInv(v)
    BY <1>4, <2>1 DEF IInv
  <2>3. CASE v = w
    <3>1. drawn'[w] = nextPosition /\ Len(tx[w]) < size[w]
      BY DEF DrawPosition, IInv, TypeOK
    <3>2. \A q \in history[w] : q.position < nextPosition
      BY <2>2, <2>3 DEF CallInv, StreamRows, IInv, RowsInv
    <3>3. \A i \in 1..Len(tx[w]) : tx[w][i].position < nextPosition
      BY <2>2, <2>3 DEF CallInv
    <3>4. \A i \in 1..Len(tx[w]) : tx[w][i].position \in Nat
      <4>1. tx[w] \in Seq(Row)
        BY DEF IInv, TypeOK
      <4>2. \A i \in 1..Len(tx[w]) : tx[w][i] \in Row
        BY <4>1
      <4> QED
        BY <4>2 DEF Row
    <3>5. \A i \in 1..Len(tx[w]) : tx[w][i].position < nextPosition + 1
      BY <2>1, <3>3, <3>4
    <3>6. StreamRows(stream[w])' = StreamRows(stream[w])
      BY <2>1 DEF StreamRows
    <3> QED
      BY <2>1, <2>2, <2>3, <3>1, <3>2, <3>3, <3>5, <3>6 DEF CallInv
  <2>4. CASE v # w
    <3>1. drawn'[v] = drawn[v]
      BY <2>1, <2>4 DEF IInv, TypeOK
    <3> QED
      BY <2>1, <2>2, <3>1, OthersKeepCall
  <2> QED
    BY <2>3, <2>4
<1>5. ASSUME NEW v \in Writer,
             \/ phase'[v] = "stored"
             \/ phase'[v] = "returned" /\ kind'[v] # "swallowing"
      PROVE  (Len(tx[v]) = size[v] /\ Inserted(v) \subseteq rows)'
  BY <1>5 DEF DrawPosition, call, IInv, Inserted
<1> QED
  BY <1>1, <1>2, <1>3, <1>4, <1>5 DEF IInv

(* A step of w that ends its transaction without a commit and touches no   *)
(* committed row. *)
LEMMA AbandonStep ==
  ASSUME IInv, NEW w \in Writer, NEW p \in Phase,
         phase[w] \in {"appending", "stored"},
         phase' = [phase EXCEPT ![w] = p], p # "appending", p # "stored",
         p = "returned" => kind[w] = "swallowing",
         tx' = [tx EXCEPT ![w] = <<>>], drawn' = [drawn EXCEPT ![w] = 0],
         UNCHANGED <<rows, nextPosition, call, bus, saves>>
  PROVE  IInv'
<1>1. TypeOK'
  BY DEF call, IInv, TypeOK
<1>2. RowsInv'
  BY DEF IInv, RowsInv, StreamsGapless, PositionsFollowVersions
<1>3. KeysApart'
  <2>1. \A v \in Writer : Pending(v)' \subseteq Pending(v)
    BY DEF IInv, TypeOK, Pending, Inserted
  <2> QED
    BY <2>1 DEF IInv, KeysApart, SameKey
<1>4. ASSUME NEW v \in Writer, phase'[v] = "appending"
      PROVE  CallInv(v)'
  <2>1. v # w /\ phase'[v] = phase[v] /\ tx'[v] = tx[v] /\ drawn'[v] = drawn[v]
    BY <1>4 DEF IInv, TypeOK
  <2>2. /\ stream' = stream /\ history' = history /\ expected' = expected
        /\ size' = size /\ rows' = rows /\ nextPosition' = nextPosition
        /\ nextPosition \in Nat
    BY DEF call, IInv, TypeOK
  <2>3. TypeOK /\ CallInv(v)
    BY <1>4, <2>1 DEF IInv
  <2> QED
    BY <2>1, <2>2, <2>3, OthersKeepCall
<1>5. ASSUME NEW v \in Writer,
             \/ phase'[v] = "stored"
             \/ phase'[v] = "returned" /\ kind'[v] # "swallowing"
      PROVE  (Len(tx[v]) = size[v] /\ Inserted(v) \subseteq rows)'
  <2>1. v # w /\ phase'[v] = phase[v] /\ tx'[v] = tx[v]
    BY <1>5 DEF call, IInv, TypeOK
  <2> QED
    BY <1>5, <2>1 DEF call, IInv, Inserted
<1> QED
  BY <1>1, <1>2, <1>3, <1>4, <1>5 DEF IInv

(* A failed append leaves its rows out and its caller told or silent. *)
LEMMA RollbackStep ==
  ASSUME IInv, NEW w \in Writer, phase[w] = "appending", Rollback(w)
  PROVE  IInv'
<1>1. /\ AfterFailure(w) \in Phase
      /\ AfterFailure(w) # "appending" /\ AfterFailure(w) # "stored"
      /\ AfterFailure(w) = "returned" => kind[w] = "swallowing"
  BY DEF AfterFailure, Phase
<1> QED
  BY <1>1, AbandonStep DEF Rollback

(* A crash leaves an open transaction's rows out. *)
LEMMA CrashStep ==
  ASSUME IInv, NEW w \in Writer, Crash(w)
  PROVE  IInv'
  BY AbandonStep DEF Crash, Phase

(* A pipeline runs from its first command to its last, or stops before.    *)
LEMMA Published ==
  ASSUME IInv, NEW w \in Writer, Publish(w) \/ PublishFails(w)
  PROVE  \E n \in 0..Len(tx[w]) : bus' = bus \o SubSeq(tx[w], 1, n)
<1>1. tx[w] \in Seq(Row)
  BY DEF IInv, TypeOK
<1>2. CASE Publish(w)
  <2>1. Len(tx[w]) \in 0..Len(tx[w]) /\ SubSeq(tx[w], 1, Len(tx[w])) = tx[w]
    BY <1>1
  <2> QED
    BY <1>2, <2>1 DEF Publish
<1>3. CASE PublishFails(w)
  BY <1>3 DEF PublishFails
<1> QED
  BY <1>2, <1>3

(* After the commit only the phase and the bus change. *)
LEMMA AfterCommitStep ==
  ASSUME IInv, NEW w \in Writer, Publish(w) \/ PublishFails(w)
  PROVE  IInv'
<1>1. /\ phase[w] = "stored"
      /\ \/ phase' = [phase EXCEPT ![w] = "returned"]
         \/ phase' = [phase EXCEPT ![w] = "threw"]
      /\ UNCHANGED <<rows, nextPosition, call, drawn, tx, saves>>
      /\ bus' \in Seq(Row)
  <2>1. bus \in Seq(Row) /\ tx[w] \in Seq(Row)
    BY DEF IInv, TypeOK
  <2>2. PICK n \in 0..Len(tx[w]) : bus' = bus \o SubSeq(tx[w], 1, n)
    BY Published
  <2>3. bus' \in Seq(Row)
    BY <2>1, <2>2
  <2> QED
    BY <2>3 DEF Publish, PublishFails, AfterFailure
<1>2. TypeOK'
  BY <1>1 DEF call, IInv, TypeOK, Phase
<1>3. RowsInv'
  BY <1>1 DEF IInv, RowsInv, StreamsGapless, PositionsFollowVersions
<1>4. \A v \in Writer : phase'[v] = "appending" => phase[v] = "appending"
  BY <1>1 DEF IInv, TypeOK
<1>5. KeysApart'
  <2>1. \A v \in Writer : Pending(v)' \subseteq Pending(v)
    BY <1>1, <1>4 DEF Pending, Inserted
  <2> QED
    BY <1>1, <2>1 DEF IInv, KeysApart, SameKey
<1>6. ASSUME NEW v \in Writer, phase'[v] = "appending"
      PROVE  CallInv(v)'
  <2>1. TypeOK /\ CallInv(v) /\ nextPosition \in Nat
    BY <1>4, <1>6 DEF IInv, TypeOK
  <2> QED
    BY <1>1, <2>1, OthersKeepCall DEF call
<1>7. ASSUME NEW v \in Writer,
             \/ phase'[v] = "stored"
             \/ phase'[v] = "returned" /\ kind'[v] # "swallowing"
      PROVE  (Len(tx[v]) = size[v] /\ Inserted(v) \subseteq rows)'
  BY <1>1, <1>7 DEF call, IInv, TypeOK, Inserted
<1> QED
  BY <1>2, <1>3, <1>5, <1>6, <1>7 DEF IInv

(* The inserted row continues the prefix the call read. *)
LEMMA InsertRowStep ==
  ASSUME IInv, NEW w \in Writer, InsertRow(w)
  PROVE  IInv'
<1> DEFINE row == [stream |-> stream[w], version |-> NextVersion(w),
                   position |-> drawn[w]]
           l == Len(tx[w])
<1>1. /\ phase[w] = "appending" /\ drawn[w] # 0
      /\ tx' = [tx EXCEPT ![w] = Append(tx[w], row)]
      /\ drawn' = [drawn EXCEPT ![w] = 0]
      /\ rows' = rows /\ nextPosition' = nextPosition /\ phase' = phase
      /\ kind' = kind /\ stream' = stream /\ history' = history
      /\ expected' = expected /\ size' = size /\ bus' = bus /\ saves' = saves
  BY DEF InsertRow, call
<1>2. CallInv(w)
  BY <1>1 DEF IInv
<1>3. tx[w] \in Seq(Row) /\ l \in Nat
  BY DEF IInv, TypeOK
<1>4. /\ row \in Row
      /\ row.stream = stream[w] /\ row.version = expected[w] + l + 1
      /\ row.position = drawn[w]
  BY <1>1, <1>2, <1>3 DEF IInv, TypeOK, NextVersion, CallInv, Row
<1>5. /\ \A q \in rows : ~SameKey(row, q)
      /\ \A v \in Writer \ {w} : \A q \in Pending(v) : ~SameKey(row, q)
  BY DEF InsertRow, Taken, SameKey
<1> HIDE DEF row
<1>6. /\ tx'[w] = Append(tx[w], row) /\ tx'[w] \in Seq(Row)
      /\ Len(tx'[w]) = l + 1
      /\ tx'[w][l + 1] = row
      /\ \A i \in 1..l : tx'[w][i] = tx[w][i]
  BY <1>1, <1>3, <1>4 DEF IInv, TypeOK
<1> HIDE DEF l
<1>7. TypeOK'
  BY <1>1, <1>6 DEF IInv, TypeOK
<1>8. RowsInv'
  BY <1>1 DEF IInv, RowsInv, StreamsGapless, PositionsFollowVersions
<1>9. \A v \in Writer : v # w => tx'[v] = tx[v] /\ drawn'[v] = drawn[v]
  BY <1>1 DEF IInv, TypeOK
<1>10. KeysApart'
  <2>1. Pending(w)' = Pending(w) \cup {row}
    <3>1. \A i \in 1..(l + 1) : i \in 1..l \/ i = l + 1
      BY <1>3
    <3> QED
      BY <1>1, <1>3, <1>6, <3>1 DEF Pending, Inserted, l
  <2>2. \A v \in Writer : v # w => Pending(v)' = Pending(v)
    BY <1>1, <1>9 DEF Pending, Inserted
  <2>3. KeysApart
    BY DEF IInv
  <2>4. \A p, q : SameKey(p, q) <=> SameKey(q, p)
    BY DEF SameKey
  <2>5. \A p, q : SameKey(p, q)' <=> SameKey(p, q)
    BY DEF SameKey
  <2> QED
    BY <1>1, <1>5, <2>1, <2>2, <2>3, <2>4, <2>5 DEF KeysApart
<1>11. ASSUME NEW v \in Writer, phase'[v] = "appending"
       PROVE  CallInv(v)'
  <2>1. CASE v = w
    <3>1. StreamRows(stream[w])' = StreamRows(stream[w])
      BY <1>1 DEF StreamRows
    <3>2. drawn'[w] = 0
      BY <1>1 DEF IInv, TypeOK
    <3>3. /\ l < size[w] /\ drawn[w] < nextPosition
          /\ \A q \in history[w] : q.position < drawn[w]
          /\ \A i \in 1..l : tx[w][i].position < drawn[w]
      BY <1>1, <1>2 DEF CallInv, l
    <3>4. size[w] \in Nat
      BY EventStoreAssumption DEF IInv, TypeOK
    <3>5. \A i \in 1..(l + 1) :
            /\ tx'[w][i].stream = stream[w]
            /\ tx'[w][i].version = expected[w] + i
            /\ tx'[w][i].position < nextPosition
            /\ \A q \in history[w] : q.position < tx'[w][i].position
            /\ \A j \in 1..(i - 1) : tx'[w][j].position < tx'[w][i].position
      <4> SUFFICES ASSUME NEW i \in 1..(l + 1)
                   PROVE  /\ tx'[w][i].stream = stream[w]
                          /\ tx'[w][i].version = expected[w] + i
                          /\ tx'[w][i].position < nextPosition
                          /\ \A q \in history[w] : q.position < tx'[w][i].position
                          /\ \A j \in 1..(i - 1) :
                               tx'[w][j].position < tx'[w][i].position
        OBVIOUS
      <4>1. CASE i = l + 1
        <5>1. expected[w] + l + 1 = expected[w] + (l + 1)
          BY <1>3 DEF IInv, TypeOK
        <5>2. \A j \in 1..(i - 1) : j \in 1..l
          BY <1>3, <4>1
        <5> QED
          BY <1>4, <1>6, <3>3, <4>1, <5>1, <5>2
      <4>2. CASE i # l + 1
        <5>1. i \in 1..l /\ \A j \in 1..(i - 1) : j \in 1..l
          BY <1>3, <4>2
        <5> QED
          BY <1>2, <1>6, <5>1 DEF CallInv, l
      <4> QED
        BY <4>1, <4>2
    <3>6. l + 1 <= size[w]
      BY <1>3, <3>3, <3>4
    <3> QED
      BY <1>1, <1>2, <1>6, <2>1, <3>1, <3>2, <3>5, <3>6 DEF CallInv
  <2>2. CASE v # w
    <3>1. TypeOK /\ CallInv(v) /\ nextPosition \in Nat
      BY <1>1, <1>11 DEF IInv, TypeOK
    <3> QED
      BY <1>1, <1>9, <2>2, <3>1, OthersKeepCall
  <2> QED
    BY <2>1, <2>2
<1>12. ASSUME NEW v \in Writer,
              \/ phase'[v] = "stored"
              \/ phase'[v] = "returned" /\ kind'[v] # "swallowing"
       PROVE  (Len(tx[v]) = size[v] /\ Inserted(v) \subseteq rows)'
  <2>1. v # w
    BY <1>1, <1>12
  <2> QED
    BY <1>1, <1>9, <1>12, <2>1 DEF IInv, Inserted
<1> QED
  BY <1>7, <1>8, <1>10, <1>11, <1>12 DEF IInv

(* When w commits, its stream is exactly what w read: a row the stream     *)
(* gained since would stand, gaplessly, where w's first row stands.        *)
LEMMA CommitReadsAll ==
  ASSUME IInv, NEW w \in Writer, Commit(w)
  PROVE  history[w] = StreamRows(stream[w])
<1>1. phase[w] = "appending" /\ Len(tx[w]) = size[w] /\ CallInv(w)
  BY DEF Commit, IInv
<1>2. 1 \in 1..Len(tx[w])
  BY <1>1, EventStoreAssumption DEF IInv, TypeOK
<1>3. tx[w][1] \in Pending(w)
  BY <1>1, <1>2 DEF Pending, Inserted
<1>4. tx[w][1].stream = stream[w] /\ tx[w][1].version = expected[w] + 1
  BY <1>1, <1>2 DEF CallInv
<1>5. \A q \in StreamRows(stream[w]) : q.version # expected[w] + 1
  BY <1>3, <1>4 DEF IInv, KeysApart, SameKey, StreamRows
<1>6. expected[w] \in Int /\ expected[w] + 1 \in Nat
  BY <1>1 DEF IInv, TypeOK, CallInv
<1>7. \A q \in StreamRows(stream[w]) : q.version <= expected[w]
  <2> SUFFICES ASSUME NEW q \in StreamRows(stream[w]), q.version > expected[w]
               PROVE  FALSE
    BY <1>6 DEF StreamRows, IInv, TypeOK, Row
  <2>1. q \in rows /\ q.stream = stream[w] /\ q.version \in Nat
    BY DEF StreamRows, IInv, TypeOK, Row
  <2>2. q.version # expected[w] + 1
    BY <1>5
  <2>3. expected[w] + 1 \in 0..(q.version - 1)
    BY <1>6, <2>1, <2>2
  <2>4. PICK r \in rows : r.stream = q.stream /\ r.version = expected[w] + 1
    BY <2>1, <2>3 DEF IInv, RowsInv, StreamsGapless
  <2> QED
    BY <1>5, <2>1, <2>4 DEF StreamRows
<1>8. ASSUME NEW q \in StreamRows(stream[w])
      PROVE  q \in history[w]
  <2>1. q \in rows /\ q.stream = stream[w] /\ q.version \in 0..expected[w]
    BY <1>6, <1>7 DEF StreamRows, IInv, TypeOK, Row
  <2>2. PICK r \in history[w] : r.version = q.version
    BY <1>1, <2>1 DEF CallInv
  <2>3. r \in rows /\ r.stream = stream[w]
    BY <1>1 DEF CallInv, StreamRows
  <2>4. r = q
    BY <2>1, <2>2, <2>3 DEF IInv, RowsInv, StreamsGapless
  <2> QED
    BY <2>4
<1> QED
  BY <1>1, <1>8 DEF CallInv

(* A committed batch continues its stream: no gap, no version twice, no    *)
(* position out of order.                                                  *)
LEMMA CommitStep ==
  ASSUME IInv, NEW w \in Writer, Commit(w)
  PROVE  IInv'
<1> DEFINE s == stream[w]
           e == expected[w]
           New == Inserted(w)
<1>1. /\ phase[w] = "appending" /\ Len(tx[w]) = size[w]
      /\ rows' = rows \cup New
      /\ phase' = [phase EXCEPT ![w] = "stored"]
      /\ nextPosition' = nextPosition /\ kind' = kind /\ stream' = stream
      /\ history' = history /\ expected' = expected /\ size' = size
      /\ drawn' = drawn /\ tx' = tx /\ bus' = bus /\ saves' = saves
  BY DEF Commit, call
<1>2. CallInv(w)
  BY <1>1 DEF IInv
<1>3. \A q \in rows : q.stream = s => q \in history[w] /\ q.version <= e
  BY <1>2, CommitReadsAll DEF StreamRows, CallInv
<1>4. tx[w] \in Seq(Row) /\ Len(tx[w]) \in Nat /\ e \in Int /\ nextPosition \in Nat
  BY DEF IInv, TypeOK
<1>5. ASSUME NEW r \in New
      PROVE  \E i \in 1..Len(tx[w]) : r = tx[w][i] /\ r \in Row
  BY <1>4 DEF Inserted
<1>6. \A r \in New : r \in Row /\ r.stream = s /\ r.version > e
                     /\ r.position < nextPosition
  BY <1>2, <1>4, <1>5 DEF CallInv
<1>7. TypeOK'
  <2>1. New \subseteq Row
    BY <1>6
  <2> QED
    BY <1>1, <2>1 DEF IInv, TypeOK, Phase
<1>8. RowsInv'
  <2>1. IsFiniteSet(rows \cup New)
    <3>1. tx[w] \in Surjection(1..Len(tx[w]), New)
      <4>1. tx[w] \in [1..Len(tx[w]) -> New]
        BY <1>4 DEF Inserted
      <4>2. \A t \in New : \E i \in 1..Len(tx[w]) : tx[w][i] = t
        BY DEF Inserted
      <4> QED
        BY <4>1, <4>2 DEF Surjection
    <3>2. IsFiniteSet(1..Len(tx[w]))
      BY <1>4, FS_Interval
    <3>3. IsFiniteSet(New)
      BY <3>1, <3>2, FS_Surjection
    <3> QED
      BY <3>3, FS_Union DEF IInv, RowsInv
  <2>2. ASSUME NEW r \in rows \cup New, NEW v \in 0..(r.version - 1)
        PROVE  \E q \in rows \cup New : q.stream = r.stream /\ q.version = v
    <3>1. CASE r \in rows
      BY <3>1 DEF IInv, RowsInv, StreamsGapless
    <3>2. CASE r \in New /\ v <= e
      <4>1. PICK q \in history[w] : q.version = v
        BY <1>2, <1>4, <3>2 DEF CallInv
      <4> QED
        BY <1>2, <1>6, <3>2, <4>1 DEF CallInv, StreamRows
    <3>3. CASE r \in New /\ v > e
      <4>1. PICK i \in 1..Len(tx[w]) : r = tx[w][i] /\ r.version = e + i
        BY <1>2, <1>5, <3>3 DEF CallInv
      <4>2. v - e \in 1..Len(tx[w])
        BY <1>4, <3>3, <4>1
      <4>3. tx[w][v - e].stream = s /\ tx[w][v - e].version = e + (v - e)
        BY <1>2, <4>2 DEF CallInv
      <4>4. e + (v - e) = v
        BY <1>4, <3>3
      <4>5. tx[w][v - e] \in New
        BY <4>2 DEF Inserted
      <4> QED
        BY <1>6, <3>3, <4>3, <4>4, <4>5
    <3> QED
      BY <1>4, <3>1, <3>2, <3>3
  <2>3. ASSUME NEW r \in rows \cup New, NEW q \in rows \cup New,
               q.stream = r.stream, q.version = r.version
        PROVE  q = r
    <3>1. CASE r \in rows /\ q \in rows
      BY <2>3, <3>1 DEF IInv, RowsInv, StreamsGapless
    <3>2. CASE r \in New /\ q \in New
      <4>1. PICK i \in 1..Len(tx[w]) : r = tx[w][i] /\ r.version = e + i
        BY <1>2, <1>5, <3>2 DEF CallInv
      <4>2. PICK j \in 1..Len(tx[w]) : q = tx[w][j] /\ q.version = e + j
        BY <1>2, <1>5, <3>2 DEF CallInv
      <4>3. i = j
        BY <1>4, <2>3, <4>1, <4>2
      <4> QED
        BY <4>1, <4>2, <4>3
    <3>3. \A a \in New, b \in rows : ~SameKey(a, b)
      BY <1>1 DEF IInv, KeysApart, Pending
    <3>4. CASE r \in New /\ q \in rows
      BY <2>3, <3>3, <3>4 DEF SameKey
    <3>5. CASE r \in rows /\ q \in New
      BY <2>3, <3>3, <3>5 DEF SameKey
    <3> HIDE DEF New
    <3> QED
      BY <3>1, <3>2, <3>4, <3>5
  <2>4. ASSUME NEW r \in rows \cup New, NEW q \in rows \cup New,
               r.stream = q.stream, r.version < q.version
        PROVE  r.position < q.position
    <3>1. CASE r \in rows /\ q \in rows
      BY <2>4, <3>1 DEF IInv, RowsInv, PositionsFollowVersions
    <3>2. CASE r \in rows /\ q \in New
      <4>1. r \in history[w]
        BY <1>3, <1>6, <2>4, <3>2
      <4> QED
        BY <1>2, <1>5, <3>2, <4>1 DEF CallInv
    <3>3. CASE r \in New /\ q \in rows
      <4>1. q.version <= e /\ r.version > e /\ q.version \in Nat /\ r.version \in Nat
        BY <1>3, <1>6, <2>4, <3>3 DEF IInv, TypeOK, Row
      <4> QED
        BY <1>4, <2>4, <4>1
    <3>4. CASE r \in New /\ q \in New
      <4>1. PICK i \in 1..Len(tx[w]) : r = tx[w][i] /\ r.version = e + i
        BY <1>2, <1>5, <3>4 DEF CallInv
      <4>2. PICK j \in 1..Len(tx[w]) : q = tx[w][j] /\ q.version = e + j
        BY <1>2, <1>5, <3>4 DEF CallInv
      <4>3. i \in 1..(j - 1)
        BY <1>4, <2>4, <4>1, <4>2
      <4> QED
        BY <1>2, <4>1, <4>2, <4>3 DEF CallInv
    <3> QED
      BY <3>1, <3>2, <3>3, <3>4
  <2>5. \A r \in rows \cup New : r.position < nextPosition
    BY <1>6 DEF IInv, RowsInv
  <2> HIDE DEF New
  <2> QED
    BY <1>1, <2>1, <2>2, <2>3, <2>4, <2>5
       DEF RowsInv, StreamsGapless, PositionsFollowVersions
<1>9. Pending(w)' = {} /\ New = Pending(w)
  BY <1>1 DEF Pending, IInv, TypeOK
<1>10. \A v \in Writer : v # w => Pending(v)' = Pending(v) /\ phase'[v] = phase[v]
  BY <1>1 DEF Pending, Inserted, IInv, TypeOK
<1>11. KeysApart'
  <2>1. \A p, q : SameKey(p, q) <=> SameKey(q, p)
    BY DEF SameKey
  <2>2. \A p, q : SameKey(p, q)' <=> SameKey(p, q)
    BY DEF SameKey
  <2> HIDE DEF New
  <2> QED
    BY <1>1, <1>9, <1>10, <2>1, <2>2 DEF IInv, KeysApart
<1>12. ASSUME NEW v \in Writer, phase'[v] = "appending"
       PROVE  CallInv(v)'
  <2>1. phase[v] = "appending"
    BY <1>1, <1>12 DEF IInv, TypeOK
  <2>2. TypeOK /\ CallInv(v)
    BY <2>1 DEF IInv
  <2> QED
    BY <1>1, <1>4, <2>2, OthersKeepCall
<1>13. ASSUME NEW v \in Writer,
              \/ phase'[v] = "stored"
              \/ phase'[v] = "returned" /\ kind'[v] # "swallowing"
       PROVE  (Len(tx[v]) = size[v] /\ Inserted(v) \subseteq rows)'
  <2>1. CASE v = w
    BY <1>1, <2>1 DEF Inserted
  <2>2. CASE v # w
    BY <1>1, <1>10, <1>13, <2>2 DEF IInv, Inserted
  <2> QED
    BY <2>1, <2>2
<1> QED
  BY <1>7, <1>8, <1>11, <1>12, <1>13 DEF IInv

-----------------------------------------------------------------------------
(* Every step of the write path preserves the invariant. *)
LEMMA NextStep ==
  ASSUME IInv, [Next]_vars
  PROVE  IInv'
<1>1. CASE UNCHANGED vars
  BY <1>1 DEF vars, call, IInv, TypeOK, RowsInv, StreamsGapless,
     PositionsFollowVersions, KeysApart, SameKey, Pending, CallInv, StreamRows,
     Inserted
<1>2. ASSUME NEW w \in Writer, Start(w)
      PROVE  IInv'
  BY <1>2, StartStep
<1>3. ASSUME NEW w \in Writer, Step(w)
      PROVE  IInv'
  BY <1>3, DrawPositionStep, InsertRowStep, RollbackStep, CommitStep,
     AfterCommitStep DEF Step, Conflict
<1>4. ASSUME NEW w \in Writer, DatabaseError(w) \/ PublishFails(w) \/ Crash(w)
      PROVE  IInv'
  BY <1>4, RollbackStep, AfterCommitStep, CrashStep DEF DatabaseError
<1> QED
  BY <1>1, <1>2, <1>3, <1>4 DEF Next

(* The inductive invariant holds in every reachable state of EventStore. *)
THEOREM Invariance == Spec => []IInv
<1>1. IInv /\ [Next]_vars => IInv'
  BY NextStep
<1> QED
  BY InitInv, <1>1, PTL DEF Spec

(* Every reachable state of the write path is well typed, whatever the     *)
(* streams, the writers and the bounds.                                    *)
THEOREM TypeCorrect == Spec => []TypeOK
<1>1. IInv => TypeOK
  BY DEF IInv
<1> QED
  BY Invariance, <1>1, PTL

(* EventStoreService.append keeps every stream gapless, its versions are   *)
(* 0..n, each once, and readAll meets its events in that order.            *)
THEOREM StreamsAreOrdered == Spec => []StreamsInOrder
<1>1. IInv => StreamsInOrder
  BY DEF IInv, RowsInv, StreamsInOrder
<1> QED
  BY Invariance, <1>1, PTL

-----------------------------------------------------------------------------
(* What a writer that has committed is about to put on the bus: rows that  *)
(* are not there yet, none twice, and none that another is about to put    *)
(* there.                                                                  *)
AboutToPublish(w) ==
  /\ \A i, j \in 1..Len(tx[w]) : tx[w][i] = tx[w][j] => i = j
  /\ \A i \in 1..Len(bus) : bus[i] \notin Inserted(w)
  /\ \A v \in Writer \ {w} : phase[v] = "stored" => Inserted(v) \cap Inserted(w) = {}

(* Inductive relative to IInv. *)
BusInv ==
  /\ BusCarriesFacts
  /\ \A w \in Writer : phase[w] = "stored" => AboutToPublish(w)

(* Steps that neither commit nor publish. *)
LEMMA BusUntouched ==
  ASSUME BusInv, rows \subseteq rows', bus' = bus,
         \A v \in Writer : phase'[v] = "stored" => phase[v] = "stored" /\ tx'[v] = tx[v]
  PROVE  BusInv'
<1>1. BusCarriesFacts'
  BY DEF BusInv, BusCarriesFacts
<1>2. ASSUME NEW w \in Writer, phase'[w] = "stored"
      PROVE  AboutToPublish(w)'
  <2>1. \A v \in Writer : phase'[v] = "stored" => Inserted(v)' = Inserted(v)
    BY DEF Inserted
  <2>2. phase[w] = "stored" /\ tx'[w] = tx[w] /\ Inserted(w)' = Inserted(w) /\ AboutToPublish(w)
    BY <1>2, <2>1 DEF BusInv
  <2> QED
    BY <2>1, <2>2 DEF AboutToPublish
<1> QED
  BY <1>1, <1>2 DEF BusInv

(* What is committed is new to the table, hence to the bus, and to what    *)
(* the others have committed.                                              *)
LEMMA BusAtCommit ==
  ASSUME IInv, BusInv, NEW w \in Writer, Commit(w)
  PROVE  BusInv'
<1>1. /\ phase[w] = "appending"
      /\ rows' = rows \cup Inserted(w) /\ bus' = bus /\ tx' = tx
  BY DEF Commit, call
<1>2. \A v \in Writer : v # w => phase'[v] = phase[v]
  BY DEF Commit, IInv, TypeOK
<1>3. \A v \in Writer : Inserted(v)' = Inserted(v)
  BY <1>1 DEF Inserted
<1>4. Inserted(w) \cap rows = {}
  BY <1>1 DEF IInv, KeysApart, SameKey, Pending
<1>5. \A v \in Writer : phase[v] = "stored" => Inserted(v) \subseteq rows
  BY DEF IInv
<1>6. BusCarriesFacts'
  BY <1>1 DEF BusInv, BusCarriesFacts
<1>7. AboutToPublish(w)'
  <2>1. \A i, j \in 1..Len(tx[w]) : tx[w][i] = tx[w][j] => i = j
    <3> SUFFICES ASSUME NEW i \in 1..Len(tx[w]), NEW j \in 1..Len(tx[w]), i < j,
                        tx[w][i] = tx[w][j]
                 PROVE  FALSE
      OBVIOUS
    <3>1. i \in 1..(j - 1)
      OBVIOUS
    <3>2. tx[w][i].position < tx[w][j].position
      BY <1>1, <3>1 DEF IInv, CallInv
    <3>3. tx[w][i] \in Row
      BY DEF IInv, TypeOK
    <3> QED
      BY <3>2, <3>3 DEF Row
  <2>2. \A i \in 1..Len(bus) : bus[i] \notin Inserted(w)
    BY <1>4 DEF BusInv, BusCarriesFacts
  <2>3. \A v \in Writer \ {w} : phase'[v] = "stored" => Inserted(v) \cap Inserted(w) = {}
    BY <1>2, <1>4, <1>5
  <2> QED
    BY <1>1, <1>3, <2>1, <2>2, <2>3 DEF AboutToPublish
<1>8. ASSUME NEW v \in Writer, v # w, phase'[v] = "stored"
      PROVE  AboutToPublish(v)'
  <2>1. AboutToPublish(v) /\ Inserted(v) \cap Inserted(w) = {}
    BY <1>2, <1>4, <1>5, <1>8 DEF BusInv
  <2> QED
    BY <1>1, <1>2, <1>3, <2>1 DEF AboutToPublish
<1> QED
  BY <1>6, <1>7, <1>8 DEF BusInv

(* XADD of rows that are stored and not on the bus. *)
LEMMA BusAtPublish ==
  ASSUME IInv, BusInv, NEW w \in Writer, Publish(w) \/ PublishFails(w)
  PROVE  BusInv'
<1>1. /\ phase[w] = "stored" /\ AboutToPublish(w) /\ Inserted(w) \subseteq rows
      /\ rows' = rows /\ tx' = tx
  BY DEF Publish, PublishFails, IInv, BusInv
<1>2. \A v \in Writer : phase'[v] = "stored" => v # w /\ phase[v] = "stored"
  BY DEF Publish, PublishFails, AfterFailure, IInv, TypeOK
<1>3. \A v \in Writer : Inserted(v)' = Inserted(v)
  BY <1>1 DEF Inserted
<1>4. PICK n \in 0..Len(tx[w]) : bus' = bus \o SubSeq(tx[w], 1, n)
  BY Published
<1> DEFINE m == Len(bus)
<1>5. /\ m \in Nat /\ n \in Nat /\ bus \in Seq(Row) /\ tx[w] \in Seq(Row)
      /\ 1..n \subseteq 1..Len(tx[w])
  BY DEF IInv, TypeOK
<1>6. /\ Len(bus') = m + n
      /\ \A i \in 1..(m + n) : bus'[i] = IF i <= m THEN bus[i] ELSE tx[w][i - m]
  BY <1>5, <1>4
<1> HIDE DEF m
<1>7. ASSUME NEW i \in 1..(m + n)
      PROVE  \/ i \in 1..m /\ bus'[i] = bus[i] /\ bus[i] \notin Inserted(w)
             \/ /\ i > m /\ i - m \in 1..n
                /\ bus'[i] = tx[w][i - m] /\ tx[w][i - m] \in Inserted(w)
  <2>1. CASE i <= m
    <3>1. i \in 1..m
      BY <1>5, <2>1
    <3> QED
      BY <1>1, <1>6, <2>1, <3>1 DEF AboutToPublish, m
  <2>2. CASE i > m
    <3>1. i - m \in 1..n
      BY <1>5, <2>2
    <3>2. bus'[i] = tx[w][i - m]
      BY <1>5, <1>6, <2>2
    <3> QED
      BY <1>5, <2>2, <3>1, <3>2 DEF Inserted
  <2> QED
    BY <1>5, <2>1, <2>2
<1>8. BusCarriesFacts'
  <2>1. ASSUME NEW i \in 1..(m + n)
        PROVE  bus'[i] \in rows
    BY <1>1, <1>7 DEF BusInv, BusCarriesFacts, m
  <2>2. ASSUME NEW i \in 1..(m + n), NEW j \in 1..(m + n), bus'[i] = bus'[j]
        PROVE  i = j
    <3>1. CASE i \in 1..m /\ j \in 1..m
      BY <1>5, <1>7, <2>2, <3>1 DEF BusInv, BusCarriesFacts, m
    <3>2. CASE i > m /\ j > m
      <4>1. /\ i - m \in 1..n /\ j - m \in 1..n
            /\ tx[w][i - m] = tx[w][j - m]
        BY <1>5, <1>7, <2>2, <3>2
      <4>2. i - m = j - m
        BY <1>1, <1>5, <4>1 DEF AboutToPublish
      <4> QED
        BY <1>5, <4>2
    <3> QED
      BY <1>5, <1>7, <2>2, <3>1, <3>2
  <2> QED
    BY <1>1, <1>6, <2>1, <2>2 DEF BusCarriesFacts
<1>9. ASSUME NEW v \in Writer, phase'[v] = "stored"
      PROVE  AboutToPublish(v)'
  <2>1. v # w /\ AboutToPublish(v) /\ Inserted(v) \cap Inserted(w) = {}
    BY <1>1, <1>2, <1>9 DEF BusInv, AboutToPublish
  <2>2. \A i \in 1..(m + n) : bus'[i] \notin Inserted(v)
    BY <1>7, <2>1 DEF AboutToPublish, m
  <2> QED
    BY <1>1, <1>2, <1>3, <1>6, <2>1, <2>2 DEF AboutToPublish
<1> QED
  BY <1>8, <1>9 DEF BusInv

LEMMA BusStep ==
  ASSUME IInv, BusInv, [Next]_vars
  PROVE  BusInv'
<1>1. CASE UNCHANGED vars
  BY <1>1, BusUntouched DEF vars
<1>2. ASSUME NEW w \in Writer,
             \/ Start(w) \/ DrawPosition(w) \/ InsertRow(w) \/ Conflict(w)
             \/ DatabaseError(w) \/ Crash(w)
      PROVE  BusInv'
  <2>1. rows' = rows /\ bus' = bus
    BY <1>2 DEF Start, Create, LoadAndDecide, PublisherRead, Begin, DrawPosition, InsertRow,
       Conflict, DatabaseError, Rollback, Crash
  <2>2. \/ phase' = phase /\ phase[w] # "stored"
        \/ \E p \in Phase \ {"stored"} : phase' = [phase EXCEPT ![w] = p]
    BY <1>2 DEF Start, Create, LoadAndDecide, PublisherRead, Begin, DrawPosition, InsertRow,
       Conflict, DatabaseError, Rollback, Crash, AfterFailure, Phase
  <2>3. tx' = tx \/ \E x : tx' = [tx EXCEPT ![w] = x]
    BY <1>2 DEF Start, Create, LoadAndDecide, PublisherRead, Begin, DrawPosition, InsertRow,
       Conflict, DatabaseError, Rollback, Crash
  <2>4. \A v \in Writer : phase'[v] = "stored" => phase[v] = "stored" /\ tx'[v] = tx[v]
    BY <2>2, <2>3 DEF IInv, TypeOK
  <2> QED
    BY <2>1, <2>4, BusUntouched
<1>3. ASSUME NEW w \in Writer, Commit(w) \/ Publish(w) \/ PublishFails(w)
      PROVE  BusInv'
  BY <1>3, BusAtCommit, BusAtPublish
<1> QED
  BY <1>1, <1>2, <1>3 DEF Next, Step

(* Subscribers are told of facts only, and of each once; save() and the    *)
(* throwing publishers return only once their events are stored.           *)
THEOREM ToldAreStored == Spec => []ToldIsStored
<1>1. Init => BusInv
  BY DEF Init, BusInv, BusCarriesFacts
<1>2. IInv /\ BusInv /\ [Next]_vars => BusInv'
  BY BusStep
<1>3. IInv => ReturnedMeansStored
  BY DEF IInv, ReturnedMeansStored, StoredWhenReturned
<1>4. IInv /\ BusInv => ToldIsStored
  BY <1>3 DEF BusInv, ToldIsStored
<1> QED
  BY Invariance, <1>1, <1>2, <1>4, PTL DEF Spec

(* No lost update: a command commits only if the history its aggregate was *)
(* folded from is still the whole stream.                                  *)
THEOREM NoLostUpdate == Spec => CommitOnCurrentHistory
<1> DEFINE A == \A w \in Writer :
                  phase[w] = "appending" /\ phase'[w] = "stored"
                    => history[w] = StreamRows(stream[w])
<1>1. IInv /\ [Next]_vars => [A]_vars
  <2> SUFFICES ASSUME IInv, Next, NEW w \in Writer,
                      phase[w] = "appending", phase'[w] = "stored"
               PROVE  history[w] = StreamRows(stream[w])
    OBVIOUS
  <2>1. PICK u \in Writer : \/ Start(u) \/ Step(u)
                            \/ DatabaseError(u) \/ PublishFails(u) \/ Crash(u)
    BY DEF Next
  <2>2. phase' = phase \/ Commit(u) \/ \E p \in Phase \ {"stored"} :
                                         phase' = [phase EXCEPT ![u] = p]
    BY <2>1 DEF Start, Create, LoadAndDecide, PublisherRead, Begin, Step,
       DrawPosition, InsertRow, Conflict, DatabaseError, Rollback, AfterFailure,
       Publish, PublishFails, Crash, Phase
  <2>3. Commit(w)
    <3>1. phase \in [Writer -> Phase]
      BY DEF IInv, TypeOK
    <3> QED
      BY <2>2, <3>1 DEF Commit
  <2> QED
    BY <2>3, CommitReadsAll
<1> QED
  BY Invariance, <1>1, PTL DEF Spec, CommitOnCurrentHistory
-----------------------------------------------------------------------------
(* The store implements EventLog.                                          *)

LEMMA FactsStand == rows' = rows => Facts' = Facts
BY DEF Facts, RowAt, StreamRows

LEMMA LogStarts == Init => Log!Init
<1> SUFFICES ASSUME Init
             PROVE  Log!Init
  OBVIOUS
<1>1. \A s \in Stream : Cardinality(StreamRows(s)) = 0
  BY FS_EmptySet DEF Init, StreamRows
<1>2. \A s \in Stream : Facts[s] = <<>>
  BY <1>1 DEF Facts
<1> QED
  BY <1>2 DEF Log!Init, Facts

(* A stream's facts are its rows' positions, by version.                   *)
FactsByVersion ==
  \A s \in Stream :
    LET n == Cardinality(StreamRows(s)) IN
    /\ n \in Nat
    /\ {r.version : r \in StreamRows(s)} = 0..(n - 1)
    /\ Facts[s] \in Seq(Nat)
    /\ Len(Facts[s]) = n
    /\ \A i \in 1..n : Facts[s][i] = RowAt(s, i - 1).position

LEMMA FactsOf == TypeOK /\ RowsInv => FactsByVersion
<1> SUFFICES ASSUME TypeOK, RowsInv, NEW s \in Stream
             PROVE  LET n == Cardinality(StreamRows(s)) IN
                    /\ n \in Nat
                    /\ {r.version : r \in StreamRows(s)} = 0..(n - 1)
                    /\ Facts[s] \in Seq(Nat)
                    /\ Len(Facts[s]) = n
                    /\ \A i \in 1..n : Facts[s][i] = RowAt(s, i - 1).position
  BY DEF FactsByVersion
<1> DEFINE S == StreamRows(s)
           n == Cardinality(S)
<1>1. S \subseteq Row /\ S \in SUBSET rows
  BY DEF StreamRows, TypeOK
<1>2. IsFiniteSet(S)
  BY <1>1, FS_Subset DEF RowsInv
<1>3. \A r, q \in S : r.version = q.version => r = q
  BY DEF StreamRows, RowsInv, StreamsGapless
<1>4. \A r \in S : \A v \in 0..(r.version - 1) : \E q \in S : q.version = v
  BY DEF StreamRows, RowsInv, StreamsGapless
<1> HIDE DEF S
<1>5. n \in Nat /\ {r.version : r \in S} = 0..(n - 1)
  BY <1>1, <1>2, <1>3, <1>4, CountIsLastVersion
<1>6. Facts[s] = [i \in 1..n |-> RowAt(s, i - 1).position]
  BY DEF Facts, S
<1> HIDE DEF n
<1>7. ASSUME NEW i \in 1..n
      PROVE  RowAt(s, i - 1).position \in Nat
  <2>1. i - 1 \in 0..(n - 1)
    BY <1>5
  <2>2. \E r \in S : r.version = i - 1
    BY <1>5, <2>1
  <2>3. RowAt(s, i - 1) \in S
    BY <2>2 DEF RowAt, S
  <2> QED
    BY <1>1, <2>3 DEF Row
<1>8. Facts[s] \in [1..n -> Nat]
  BY <1>6, <1>7
<1>9. Facts[s] \in Seq(Nat) /\ Len(Facts[s]) = n
  BY <1>5, <1>8
<1>10. \A i \in 1..n : Facts[s][i] = RowAt(s, i - 1).position
  BY <1>6
<1> QED
  BY <1>5, <1>9, <1>10 DEF S, n

(* A commit extends the log of one stream by the events of one command.    *)
LEMMA CommitExtends ==
  ASSUME IInv, IInv', NEW w \in Writer, Commit(w)
  PROVE  Log!Extend(stream[w])
<1> DEFINE s == stream[w]
           S == StreamRows(s)
           n == Cardinality(S)
           m == size[w]
<1>1. /\ phase[w] = "appending" /\ Len(tx[w]) = m /\ CallInv(w)
      /\ rows' = rows \cup Inserted(w) /\ tx' = tx /\ stream' = stream
  BY DEF Commit, call, IInv
<1>2. s \in Stream /\ m \in Nat \ {0} /\ m <= MaxBatch /\ expected[w] \in Int
  BY EventStoreAssumption DEF IInv, TypeOK
<1>3. /\ n \in Nat /\ Facts[s] \in Seq(Nat) /\ Len(Facts[s]) = n
      /\ {r.version : r \in S} = 0..(n - 1)
      /\ \A i \in 1..n : Facts[s][i] = RowAt(s, i - 1).position
  BY <1>2, FactsOf DEF IInv, FactsByVersion
<1> DEFINE S2 == S \cup Inserted(w)
           k == Cardinality(S2)
           f == Facts'[s]
<1>4. StreamRows(s)' = S2
  BY <1>1 DEF StreamRows, CallInv, Inserted
<1>5. /\ k \in Nat /\ f \in Seq(Nat) /\ Len(f) = k
      /\ {r.version : r \in S2} = 0..(k - 1)
      /\ \A i \in 1..k : f[i] = (CHOOSE r \in S2 : r.version = i - 1).position
  <2>1. TypeOK /\ RowsInv => FactsByVersion
    BY FactsOf
  <2>2. TypeOK' /\ RowsInv' => FactsByVersion'
    BY FactsOf, PTL
  <2>3. FactsByVersion'
    BY <2>2 DEF IInv
  <2> QED
    BY <1>1, <1>2, <1>4, <2>3 DEF FactsByVersion, RowAt
<1>6. expected[w] = n - 1
  <2>1. history[w] = S
    BY CommitReadsAll
  <2>2. \A v \in 0..expected[w] : \E q \in S : q.version = v
    BY <1>1, <2>1 DEF CallInv
  <2>3. \A q \in S : q.version <= expected[w]
    BY <1>1, <2>1 DEF CallInv
  <2>4. expected[w] >= -1
    BY <1>1 DEF CallInv
  <2> HIDE DEF n, S
  <2>5. \A v \in 0..expected[w] : v \in 0..(n - 1)
    BY <1>3, <2>2
  <2>6. \A v \in 0..(n - 1) : v <= expected[w]
    BY <1>3, <2>3
  <2>7. expected[w] < 0 \/ expected[w] \in 0..(n - 1)
    BY <1>2, <2>5
  <2>8. n = 0 \/ n - 1 <= expected[w]
    BY <1>3, <2>6
  <2> QED
    BY <1>2, <1>3, <2>4, <2>7, <2>8
<1>7. \A r \in S2 :
        \/ r \in S /\ r.version \in 0..(n - 1)
        \/ r \in Inserted(w) /\ r.version \in n..(n + m - 1)
  <2>1. \A r \in S : r.version \in 0..(n - 1)
    BY <1>3
  <2>2. \A i \in 1..m : tx[w][i].version = n - 1 + i
    BY <1>1, <1>6 DEF CallInv
  <2> HIDE DEF n, m
  <2>3. \A i \in 1..m : tx[w][i].version \in n..(n + m - 1)
    BY <1>2, <1>3, <2>2
  <2>4. \A r \in Inserted(w) : r.version \in n..(n + m - 1)
    BY <1>1, <2>3 DEF Inserted
  <2> QED
    BY <2>1, <2>4
<1> HIDE DEF n, m, S, k, S2
<1>8. k = n + m
  <2>1. \A v \in 0..(n + m - 1) : \E r \in S2 : r.version = v
    <3> SUFFICES ASSUME NEW v \in 0..(n + m - 1)
                 PROVE  \E r \in S2 : r.version = v
      OBVIOUS
    <3>1. CASE v < n
      <4>1. v \in 0..(n - 1)
        BY <1>3, <3>1
      <4>2. v \in {r.version : r \in S}
        BY <1>3, <4>1
      <4> QED
        BY <4>2 DEF S2
    <3>2. CASE v >= n
      <4>1. v - n + 1 \in 1..m
        BY <1>2, <1>3, <3>2
      <4>2. tx[w][v - n + 1].version = (n - 1) + (v - n + 1)
        BY <1>1, <1>6, <4>1 DEF CallInv
      <4>3. tx[w][v - n + 1] \in S2 /\ tx[w][v - n + 1].version = v
        BY <1>1, <1>3, <4>1, <4>2 DEF Inserted, S2
      <4> QED
        BY <4>3
    <3> QED
      BY <1>3, <3>1, <3>2
  <2>2. {r.version : r \in S2} = 0..(n + m - 1)
    BY <1>2, <1>3, <1>7, <2>1
  <2>3. 0..(k - 1) = 0..(n + m - 1)
    BY <1>5, <2>2
  <2>4. n \in Nat /\ m \in Nat /\ k \in Nat /\ n + m > 0
    BY <1>2, <1>3, <1>5
  <2>5. n + m - 1 \in 0..(n + m - 1)
    BY <2>4
  <2>6. n + m - 1 \in 0..(k - 1)
    BY <2>3, <2>5
  <2>7. k - 1 \in 0..(k - 1)
    BY <2>4, <2>6
  <2>8. k - 1 \in 0..(n + m - 1)
    BY <2>3, <2>7
  <2> QED
    BY <2>4, <2>6, <2>8
<1>9. ASSUME NEW i \in 1..n
      PROVE  f[i] = Facts[s][i]
  <2>1. i - 1 \in 0..(n - 1)
    BY <1>3
  <2>2. PICK r \in S : r.version = i - 1
    BY <1>3, <2>1
  <2>3. \A q \in S2 : q.version = i - 1 => q \in S /\ q = r
    <3>1. \A q \in S2 : q.version = i - 1 => q \in S
      BY <1>2, <1>3, <1>7, <2>1
    <3>2. \A q \in S : q.version = r.version => q = r
      BY <2>2 DEF IInv, RowsInv, StreamsGapless, StreamRows, S
    <3> QED
      BY <2>2, <3>1, <3>2
  <2>4. RowAt(s, i - 1) = r
    BY <2>2, <2>3 DEF RowAt, S, S2
  <2>5. (CHOOSE q \in S2 : q.version = i - 1) = r
    BY <2>2, <2>3 DEF S2
  <2>6. i \in 1..k
    BY <1>2, <1>3, <1>8
  <2>7. f[i] = r.position
    BY <1>5, <2>5, <2>6
  <2> QED
    BY <1>3, <2>4, <2>7
<1>10. ASSUME NEW t \in Stream, t # s
       PROVE  Facts'[t] = Facts[t]
  <2>1. StreamRows(t)' = StreamRows(t)
    BY <1>1, <1>10 DEF StreamRows, CallInv, Inserted
  <2> QED
    BY <2>1 DEF Facts, RowAt
<1> HIDE DEF f
<1>11. Log!IsStrictPrefix(Facts[s], f)
  <2>1. Len(Facts[s]) <= Len(f) /\ Facts[s] # f
    BY <1>2, <1>3, <1>5, <1>8
  <2>2. SubSeq(Facts[s], 1, n) = SubSeq(f, 1, n)
    <3>1. \A i \in 1..n : i \in 1..k
      BY <1>2, <1>3, <1>8
    <3> QED
      BY <1>3, <1>5, <1>9, <3>1
  <2> QED
    BY <1>3, <2>1, <2>2 DEF Log!IsStrictPrefix, Log!IsPrefix
<1>12. Len(f) <= Len(Facts[s]) + MaxBatch
  BY <1>2, <1>3, <1>5, <1>8, EventStoreAssumption
<1>13. Facts' = [Facts EXCEPT ![s] = f]
  <2>1. /\ Facts = [t \in Stream |-> Facts[t]]
        /\ Facts' = [t \in Stream |-> Facts'[t]]
    BY DEF Facts
  <2>2. \A t \in Stream : Facts'[t] = IF t = s THEN f ELSE Facts[t]
    BY <1>10 DEF f
  <2> HIDE DEF s
  <2> QED
    BY <2>1, <2>2
<1> QED
  BY <1>11, <1>12, <1>13 DEF Log!Extend, f

LEMMA LogStep ==
  ASSUME IInv, IInv', [Next]_vars
  PROVE  [Log!Next]_Facts
<1>1. CASE UNCHANGED vars
  BY <1>1, FactsStand DEF vars
<1>2. ASSUME NEW w \in Writer, Start(w) \/ Step(w) \/ DatabaseError(w) \/ PublishFails(w) \/ Crash(w)
      PROVE  [Log!Next]_Facts
  <2>1. CASE Commit(w)
    <3>1. Log!Extend(stream[w]) /\ stream[w] \in Stream
      BY <2>1, CommitExtends DEF IInv, TypeOK
    <3> QED
      BY <3>1 DEF Log!Next
  <2>2. CASE ~Commit(w)
    <3>1. rows' = rows
      BY <1>2, <2>2 DEF Start, Create, LoadAndDecide, PublisherRead, Begin, Step, DrawPosition,
         InsertRow, Conflict, Publish, DatabaseError, Rollback, PublishFails, Crash
    <3> QED
      BY <3>1, FactsStand
  <2> QED
    BY <2>1, <2>2
<1> QED
  BY <1>1, <1>2 DEF Next

(* For every stream, the events of the store are a log that grows at its   *)
(* end, one command's events at a time (EventStoreService.append).         *)
THEOREM StoreIsLog == Spec => ImplementsLog
<1>1. IInv /\ IInv' /\ [Next]_vars => [Log!Next]_Facts
  BY LogStep
<1> QED
  BY <1>1, LogStarts, Invariance, PTL DEF Spec, ImplementsLog, Log!Spec
-----------------------------------------------------------------------------
(* The store implements EventFeed.                                         *)

(* The positions a call has in hand, and the ones its command may still    *)
(* draw.                                                                   *)
PositionsOf(w) == {r.position : r \in Pending(w)} \cup ({drawn[w]} \ {0})

Slots ==
  {slot \in Writer \X (1..MaxBatch) :
     /\ phase[slot[1]] = "appending"
     /\ slot[2] <= size[slot[1]]
     /\ slot[2] > Len(tx[slot[1]]) + (IF drawn[slot[1]] = 0 THEN 0 ELSE 1)}

(* Inductive relative to IInv: no two calls share a position, one that has *)
(* drawn one is still appending, and every call begun pays for the         *)
(* positions it draws.                                                     *)
OpenInv ==
  /\ \A w \in Writer : drawn[w] # 0 => phase[w] = "appending"
  /\ \A v, w \in Writer : v # w => PositionsOf(v) \cap PositionsOf(w) = {}
  /\ IsFiniteSet(Slots)
  /\ nextPosition + Cardinality(Slots) <= saves * MaxBatch + 1

LEMMA SlotsStart ==
  ASSUME NEW w \in Writer, NEW n \in 1..MaxBatch
  PROVE  LET new == {<<w, i>> : i \in 1..n} IN
         IsFiniteSet(new) /\ Cardinality(new) \in Nat /\ Cardinality(new) <= n
<1> DEFINE new == {<<w, i>> : i \in 1..n}
           f == [i \in 1..n |-> <<w, i>>]
<1>1. n \in Nat /\ IsFiniteSet(1..n) /\ Cardinality(1..n) = n
  BY FS_Interval, EventStoreAssumption
<1>2. f \in Surjection(1..n, new)
  BY DEF Surjection
<1>3. IsFiniteSet(new) /\ Cardinality(new) <= Cardinality(1..n)
  BY <1>1, <1>2, FS_Surjection
<1> QED
  BY <1>1, <1>3, FS_CardinalityType

(* A step that draws no position and begins no call.                       *)
LEMMA OpenStands ==
  ASSUME IInv, OpenInv, UNCHANGED <<nextPosition, saves>>, Slots' \subseteq Slots,
         \A w \in Writer : PositionsOf(w)' \subseteq PositionsOf(w),
         \A w \in Writer : drawn'[w] # 0 => phase'[w] = "appending"
  PROVE  OpenInv'
<1>1. IsFiniteSet(Slots') /\ Cardinality(Slots') <= Cardinality(Slots)
  BY FS_Subset DEF OpenInv
<1>2. Cardinality(Slots) \in Nat /\ Cardinality(Slots') \in Nat
  BY <1>1, FS_CardinalityType DEF OpenInv
<1>3. nextPosition \in Nat /\ saves \in Nat /\ saves * MaxBatch \in Nat
  BY EventStoreAssumption DEF IInv, TypeOK
<1>4. nextPosition' + Cardinality(Slots') <= saves' * MaxBatch + 1
  BY <1>1, <1>2, <1>3 DEF OpenInv
<1>5. \A v, w \in Writer : v # w => PositionsOf(v)' \cap PositionsOf(w)' = {}
  BY DEF OpenInv
<1> QED
  BY <1>1, <1>4, <1>5 DEF OpenInv

LEMMA OpenAtBegin ==
  ASSUME IInv, OpenInv, NEW w \in Writer, NEW k, NEW s, NEW read, NEW version, NEW n \in 1..MaxBatch,
         Begin(w, k, s, read, version, n)
  PROVE  OpenInv'
<1> DEFINE new == {<<w, i>> : i \in 1..n}
<1>1. /\ phase[w] # "appending" /\ phase'[w] = "appending" /\ drawn'[w] = 0 /\ tx'[w] = <<>>
      /\ size'[w] = n /\ saves' = saves + 1 /\ nextPosition' = nextPosition
      /\ \A v \in Writer \ {w} : /\ phase'[v] = phase[v] /\ drawn'[v] = drawn[v]
                                 /\ tx'[v] = tx[v] /\ size'[v] = size[v]
  BY DEF IInv, TypeOK, Begin
<1>2. Slots' \subseteq Slots \cup new
  <2> SUFFICES ASSUME NEW slot \in Writer \X (1..MaxBatch), slot \in Slots', slot \notin Slots
               PROVE  slot \in new
    BY DEF Slots
  <2>1. slot[1] = w
    BY <1>1 DEF Slots
  <2>2. slot[2] <= n /\ slot[2] \in 1..MaxBatch /\ slot = <<w, slot[2]>>
    BY <1>1, <2>1 DEF Slots
  <2> QED
    BY <2>2, EventStoreAssumption
<1>3. IsFiniteSet(new) /\ Cardinality(new) \in Nat /\ Cardinality(new) <= n
  BY SlotsStart
<1> HIDE DEF new
<1>4. /\ IsFiniteSet(Slots \cup new)
      /\ Cardinality(Slots \cup new) = Cardinality(Slots) + Cardinality(new) - Cardinality(Slots \cap new)
  BY <1>3, FS_Union DEF OpenInv
<1>5. IsFiniteSet(Slots \cap new) /\ IsFiniteSet(Slots)
  BY <1>3, FS_Intersection DEF OpenInv
<1>6. IsFiniteSet(Slots') /\ Cardinality(Slots') <= Cardinality(Slots \cup new)
  BY <1>2, <1>4, FS_Subset
<1>7. /\ Cardinality(Slots) \in Nat /\ Cardinality(Slots') \in Nat /\ Cardinality(Slots \cap new) \in Nat
      /\ Cardinality(Slots \cup new) \in Nat
  BY <1>4, <1>5, <1>6, FS_CardinalityType
<1>8. nextPosition' + Cardinality(Slots') <= saves' * MaxBatch + 1
  <2>1. saves \in Nat /\ MaxBatch \in Nat /\ n <= MaxBatch /\ n \in Nat /\ nextPosition \in Nat
    BY EventStoreAssumption DEF IInv, TypeOK
  <2>2. (saves + 1) * MaxBatch = saves * MaxBatch + MaxBatch /\ saves * MaxBatch \in Nat
    BY <2>1
  <2>3. nextPosition + Cardinality(Slots) <= saves * MaxBatch + 1
    BY DEF OpenInv
  <2>4. saves' * MaxBatch = saves * MaxBatch + MaxBatch
    BY <1>1, <2>2
  <2>5. Cardinality(Slots') <= Cardinality(Slots) + n
    BY <1>3, <1>4, <1>6, <1>7, <2>1
  <2> DEFINE budget == saves * MaxBatch
  <2> HIDE DEF budget
  <2>6. nextPosition + Cardinality(Slots') <= budget + MaxBatch + 1
    BY <1>7, <2>1, <2>2, <2>3, <2>5 DEF budget
  <2> QED
    BY <1>1, <2>4, <2>6 DEF budget
<1>9. \A v \in Writer : PositionsOf(v)' \subseteq PositionsOf(v)
  BY <1>1 DEF PositionsOf, Pending, Inserted
<1>10. \A v, u \in Writer : v # u => PositionsOf(v)' \cap PositionsOf(u)' = {}
  BY <1>9 DEF OpenInv
<1> QED
  BY <1>1, <1>6, <1>8, <1>10 DEF OpenInv

LEMMA PositionsDrawn ==
  ASSUME IInv, OpenInv, NEW w \in Writer
  PROVE  \A p \in PositionsOf(w) : p < nextPosition
<1>1. CASE phase[w] = "appending"
  BY <1>1 DEF IInv, CallInv, PositionsOf, Pending, Inserted
<1>2. CASE phase[w] # "appending"
  BY <1>2 DEF OpenInv, PositionsOf, Pending
<1> QED
  BY <1>1, <1>2

LEMMA OpenAtDraw ==
  ASSUME IInv, OpenInv, NEW w \in Writer, DrawPosition(w)
  PROVE  /\ OpenInv'
         /\ nextPosition <= MaxSaves * MaxBatch
<1> DEFINE slot == <<w, Len(tx[w]) + 1>>
<1>1. /\ phase[w] = "appending" /\ Len(tx[w]) < size[w] /\ drawn[w] = 0
      /\ drawn' = [drawn EXCEPT ![w] = nextPosition] /\ nextPosition' = nextPosition + 1
      /\ phase' = phase /\ size' = size /\ tx' = tx /\ saves' = saves
  BY DEF DrawPosition, call
<1>2. nextPosition \in Nat \ {0} /\ saves \in 0..MaxSaves /\ size[w] \in 1..MaxBatch /\ Len(tx[w]) \in Nat
  BY DEF IInv, TypeOK
<1>3. slot \in Slots
  <2>1. Len(tx[w]) + 1 \in 1..MaxBatch /\ Len(tx[w]) + 1 <= size[w]
    BY <1>1, <1>2, EventStoreAssumption
  <2>2. Len(tx[w]) + 1 > Len(tx[w]) + 0
    BY <1>2
  <2> QED
    BY <1>1, <2>1, <2>2 DEF Slots
<1>4. Slots' = Slots \ {slot}
  <2>1. \A v \in Writer : Len(tx[v]) \in Nat
    BY DEF IInv, TypeOK
  <2>2. drawn'[w] # 0 /\ \A v \in Writer \ {w} : drawn'[v] = drawn[v]
    BY <1>1, <1>2 DEF IInv, TypeOK
  <2>3. \A i \in 1..MaxBatch : i > Len(tx[w]) + 1 <=> i > Len(tx[w]) + 0 /\ i # Len(tx[w]) + 1
    BY <1>2, EventStoreAssumption
  <2>4. ASSUME NEW x \in Writer \X (1..MaxBatch)
        PROVE  x \in Slots' <=> x \in Slots /\ x # slot
    <3>1. CASE x[1] = w
      <4>1. x = slot <=> x[2] = Len(tx[w]) + 1
        BY <3>1
      <4>2. x \in Slots' <=> phase[w] = "appending" /\ x[2] <= size[w] /\ x[2] > Len(tx[w]) + 1
        BY <1>1, <2>2, <3>1 DEF Slots
      <4>3. x \in Slots <=> phase[w] = "appending" /\ x[2] <= size[w] /\ x[2] > Len(tx[w]) + 0
        BY <1>1, <3>1 DEF Slots
      <4> QED
        BY <2>3, <4>1, <4>2, <4>3
    <3>2. CASE x[1] # w
      <4>1. drawn'[x[1]] = drawn[x[1]] /\ x # slot
        BY <2>2, <3>2
      <4> QED
        BY <1>1, <4>1 DEF Slots
    <3> QED
      BY <3>1, <3>2
  <2> QED
    BY <2>4 DEF Slots
<1> HIDE DEF slot
<1>5. /\ IsFiniteSet(Slots') /\ Cardinality(Slots') = Cardinality(Slots) - 1
      /\ Cardinality(Slots) \in Nat /\ Cardinality(Slots') \in Nat
  <2>1. IsFiniteSet(Slots)
    BY DEF OpenInv
  <2>2. IsFiniteSet(Slots') /\ Cardinality(Slots') = Cardinality(Slots) - 1
    BY <1>3, <1>4, <2>1, FS_RemoveElement
  <2> QED
    BY <2>1, <2>2, FS_CardinalityType
<1>6. /\ saves * MaxBatch \in Nat /\ saves * MaxBatch <= MaxSaves * MaxBatch
      /\ MaxSaves * MaxBatch \in Nat
  <2>1. saves \in Nat /\ MaxSaves \in Nat /\ MaxBatch \in Nat /\ saves <= MaxSaves
    BY <1>2, EventStoreAssumption
  <2> QED
    BY <2>1
<1>7. nextPosition + Cardinality(Slots) <= saves * MaxBatch + 1
  BY DEF OpenInv
<1>8. nextPosition' + Cardinality(Slots') <= saves' * MaxBatch + 1
  BY <1>1, <1>2, <1>5, <1>6, <1>7
<1>9. nextPosition <= MaxSaves * MaxBatch
  BY <1>2, <1>5, <1>6, <1>7
<1>10. /\ PositionsOf(w)' = PositionsOf(w) \cup {nextPosition}
       /\ \A v \in Writer \ {w} : PositionsOf(v)' = PositionsOf(v)
  BY <1>1, <1>2 DEF IInv, TypeOK, PositionsOf, Pending, Inserted
<1>11. \A v \in Writer : nextPosition \notin PositionsOf(v)
  BY <1>2, PositionsDrawn
<1>12. \A v, u \in Writer : v # u => PositionsOf(v)' \cap PositionsOf(u)' = {}
  BY <1>10, <1>11 DEF OpenInv
<1>13. \A v \in Writer : drawn'[v] # 0 => phase'[v] = "appending"
  BY <1>1 DEF IInv, TypeOK, OpenInv
<1> QED
  BY <1>5, <1>8, <1>9, <1>12, <1>13 DEF OpenInv

LEMMA InsertedGrows ==
  ASSUME NEW w \in Writer, NEW row, tx[w] \in Seq(Row), tx'[w] = Append(tx[w], row)
  PROVE  Inserted(w)' = Inserted(w) \cup {row}
<1>1. /\ Len(tx'[w]) = Len(tx[w]) + 1 /\ Len(tx[w]) \in Nat
      /\ tx'[w][Len(tx[w]) + 1] = row
      /\ \A i \in 1..Len(tx[w]) : tx'[w][i] = tx[w][i]
  OBVIOUS
<1>2. 1..Len(tx'[w]) = 1..Len(tx[w]) \cup {Len(tx[w]) + 1}
  BY <1>1
<1> QED
  BY <1>1, <1>2 DEF Inserted

LEMMA OpenStep ==
  ASSUME IInv, OpenInv, [Next]_vars
  PROVE  OpenInv'
<1>1. CASE UNCHANGED vars
  <2>1. Slots' = Slots /\ \A w \in Writer : PositionsOf(w)' = PositionsOf(w)
    BY <1>1 DEF Slots, PositionsOf, Pending, Inserted, vars, call
  <2> QED
    BY <1>1, <2>1, OpenStands DEF vars, OpenInv
<1>2. ASSUME NEW w \in Writer, phase'[w] # "appending", drawn'[w] = 0,
             UNCHANGED <<nextPosition, saves>>,
             \A v \in Writer \ {w} : /\ phase'[v] = phase[v] /\ drawn'[v] = drawn[v]
                                     /\ tx'[v] = tx[v] /\ size'[v] = size[v]
      PROVE  OpenInv'
  <2>1. Slots' \subseteq Slots
    <3> SUFFICES ASSUME NEW x \in Slots'
                 PROVE  x \in Slots
      OBVIOUS
    <3>1. x[1] \in Writer \ {w}
      BY <1>2 DEF Slots
    <3> QED
      BY <1>2, <3>1 DEF Slots
  <2>2. \A v \in Writer : PositionsOf(v)' \subseteq PositionsOf(v)
    BY <1>2 DEF PositionsOf, Pending, Inserted
  <2>3. \A v \in Writer : drawn'[v] # 0 => phase'[v] = "appending"
    BY <1>2 DEF OpenInv
  <2> QED
    BY <1>2, <2>1, <2>2, <2>3, OpenStands
<1>3. ASSUME NEW w \in Writer, Start(w) PROVE OpenInv'
  <2>1. 1 \in 1..MaxBatch
    BY EventStoreAssumption
  <2> QED
    BY <1>3, <2>1, OpenAtBegin DEF Start, Create, LoadAndDecide, PublisherRead
<1>4. ASSUME NEW w \in Writer, InsertRow(w) PROVE OpenInv'
  <2> DEFINE row == [stream |-> stream[w], version |-> NextVersion(w), position |-> drawn[w]]
  <2>1. /\ phase[w] = "appending" /\ drawn[w] # 0 /\ tx' = [tx EXCEPT ![w] = Append(tx[w], row)]
        /\ drawn' = [drawn EXCEPT ![w] = 0] /\ UNCHANGED <<nextPosition, phase, size, saves>>
    BY <1>4 DEF InsertRow, call
  <2>2. tx[w] \in Seq(Row) /\ tx'[w] = Append(tx[w], row) /\ drawn'[w] = 0
    BY <2>1 DEF IInv, TypeOK
  <2>3. \A v \in Writer \ {w} : tx'[v] = tx[v] /\ drawn'[v] = drawn[v]
    BY <2>1 DEF IInv, TypeOK
  <2>4. Inserted(w)' = Inserted(w) \cup {row}
    BY <2>2, InsertedGrows
  <2>5. PositionsOf(w)' \subseteq PositionsOf(w)
    BY <2>1, <2>2, <2>4 DEF PositionsOf, Pending
  <2>6. \A v \in Writer : PositionsOf(v)' \subseteq PositionsOf(v)
    BY <2>1, <2>3, <2>5 DEF PositionsOf, Pending, Inserted
  <2>7. Slots' \subseteq Slots
    <3> SUFFICES ASSUME NEW x \in Writer \X (1..MaxBatch), x \in Slots'
                 PROVE  x \in Slots
      BY DEF Slots
    <3>1. CASE x[1] = w
      <4>1. Len(tx'[w]) = Len(tx[w]) + 1 /\ Len(tx[w]) \in Nat
        <5> HIDE DEF row
        <5> QED
          BY <2>2
      <4>2. x[2] <= size[w] /\ x[2] > Len(tx'[w]) + 0
        <5> HIDE DEF row
        <5>1. drawn'[x[1]] = 0 /\ size' = size /\ tx'[x[1]] = tx'[w] /\ size'[x[1]] = size[w]
          BY <2>1, <2>2, <3>1
        <5> QED
          BY <5>1 DEF Slots
      <4>3. x[2] \in Nat /\ x[2] > Len(tx[w]) + 1
        BY <4>1, <4>2, EventStoreAssumption
      <4> HIDE DEF row
      <4> QED
        BY <2>1, <3>1, <4>2, <4>3 DEF Slots
    <3>2. CASE x[1] # w
      <4>1. tx'[x[1]] = tx[x[1]] /\ drawn'[x[1]] = drawn[x[1]]
        BY <2>3, <3>2
      <4> QED
        BY <2>1, <4>1 DEF Slots
    <3> QED
      BY <3>1, <3>2
  <2>8. \A v \in Writer : drawn'[v] # 0 => phase'[v] = "appending"
    BY <2>1, <2>2, <2>3 DEF OpenInv
  <2> QED
    BY <2>1, <2>6, <2>7, <2>8, OpenStands
<1>5. ASSUME NEW w \in Writer, Conflict(w) \/ DatabaseError(w) \/ Crash(w) PROVE OpenInv'
  <2>1. PICK p \in {"idle", "returned", "threw"} :
          /\ phase' = [phase EXCEPT ![w] = p] /\ tx' = [tx EXCEPT ![w] = <<>>]
          /\ drawn' = [drawn EXCEPT ![w] = 0] /\ UNCHANGED <<nextPosition, size, saves>>
    BY <1>5 DEF Conflict, DatabaseError, Crash, Rollback, AfterFailure, call
  <2> QED
    BY <1>2, <2>1 DEF IInv, TypeOK
<1>6. ASSUME NEW w \in Writer, Commit(w) PROVE OpenInv'
  <2>1. drawn[w] = 0
    BY <1>6 DEF Commit, IInv, CallInv, TypeOK
  <2> QED
    BY <1>2, <1>6, <2>1 DEF Commit, call, IInv, TypeOK
<1>7. ASSUME NEW w \in Writer, Publish(w) \/ PublishFails(w) PROVE OpenInv'
  <2>1. phase[w] = "stored" /\ drawn[w] = 0
    BY <1>7 DEF Publish, PublishFails, OpenInv
  <2>2. \E p \in {"returned", "threw"} : phase' = [phase EXCEPT ![w] = p]
    BY <1>7 DEF Publish, PublishFails, AfterFailure
  <2> QED
    BY <1>2, <1>7, <2>1, <2>2 DEF Publish, PublishFails, call, IInv, TypeOK
<1> QED
  BY <1>1, <1>3, <1>4, <1>5, <1>6, <1>7, OpenAtDraw DEF Next, Step

LEMMA OpenStart == Init => OpenInv
<1> SUFFICES ASSUME Init
             PROVE  OpenInv
  OBVIOUS
<1>1. Slots = {}
  BY DEF Init, Slots
<1>2. IsFiniteSet(Slots) /\ Cardinality(Slots) = 0
  BY <1>1, FS_EmptySet
<1>3. \A w \in Writer : PositionsOf(w) = {}
  BY DEF Init, PositionsOf, Pending
<1>4. saves * MaxBatch = 0
  BY EventStoreAssumption DEF Init
<1> QED
  BY <1>2, <1>3, <1>4 DEF Init, OpenInv

-----------------------------------------------------------------------------
(* The committed rows as readers of the global log see them, and the open  *)
(* rows call by call.                                                      *)
SeenRows  == {FeedRowOf(r.stream, r.position) : r \in rows}
OpenOf(w) == {FeedRowOf(stream[w], p) : p \in PositionsOf(w)}

AllOpen   == UNION {OpenOf(w) : w \in Writer}

OpenIsOfCalls == OpenRows = AllOpen

LEMMA OpenByCall == OpenIsOfCalls
<1> DEFINE inserted(w) == {FeedRowOf(stream[w], r.position) : r \in Pending(w)}
           drawing     == {v \in Writer : drawn[v] # 0}
           drawnRows   == {FeedRowOf(stream[w], drawn[w]) : w \in drawing}
           all         == UNION {inserted(w) : w \in Writer}
<1>1. OpenRows = all \cup drawnRows
  BY Zenon DEF OpenRows
<1>2. ASSUME NEW w \in Writer
      PROVE  /\ inserted(w) \subseteq OpenOf(w)
             /\ drawn[w] # 0 => FeedRowOf(stream[w], drawn[w]) \in OpenOf(w)
             /\ \A x \in OpenOf(w) : \/ x \in inserted(w)
                                     \/ drawn[w] # 0 /\ x = FeedRowOf(stream[w], drawn[w])
  BY DEF OpenOf, PositionsOf
<1>3. \A x \in drawnRows : \E w \in Writer : drawn[w] # 0 /\ x = FeedRowOf(stream[w], drawn[w])
  OBVIOUS
<1>4. \A w \in Writer : drawn[w] # 0 => FeedRowOf(stream[w], drawn[w]) \in drawnRows
  OBVIOUS
<1>5. \A x : x \in all <=> \E w \in Writer : x \in inserted(w)
  OBVIOUS
<1> HIDE DEF inserted, drawnRows, all
<1>6. \A x : x \in AllOpen <=> \E w \in Writer : x \in OpenOf(w)
  BY DEF AllOpen
<1>7. \A x : x \in OpenRows <=> x \in AllOpen
  BY <1>1, <1>2, <1>3, <1>4, <1>5, <1>6
<1>8. OpenRows \subseteq AllOpen /\ AllOpen \subseteq OpenRows
  BY <1>7
<1> QED
  BY <1>8 DEF OpenIsOfCalls

(* A call's open rows are its own. *)
LEMMA OpenApart ==
  ASSUME OpenInv, NEW v \in Writer, NEW w \in Writer, v # w
  PROVE  OpenOf(v) \cap OpenOf(w) = {}
<1> SUFFICES ASSUME NEW p \in PositionsOf(v), NEW q \in PositionsOf(w),
                    FeedRowOf(stream[v], p) = FeedRowOf(stream[w], q)
             PROVE  FALSE
  BY DEF OpenOf
<1>1. p = q
  BY DEF FeedRowOf
<1> QED
  BY <1>1 DEF OpenInv

(* One call's open rows go, the others keep theirs. *)
LEMMA OpenWithout ==
  ASSUME OpenInv, NEW w \in Writer, OpenOf(w)' = {},
         \A v \in Writer \ {w} : OpenOf(v)' = OpenOf(v)
  PROVE  OpenRows' = OpenRows \ OpenOf(w)
<1>1. OpenRows' = AllOpen'
  <2>1. OpenIsOfCalls'
    BY OpenByCall, PTL
  <2> QED
    BY <2>1 DEF OpenIsOfCalls
<1>2. \A v \in Writer \ {w} : OpenOf(v) \cap OpenOf(w) = {}
  BY OpenApart
<1> QED
  BY <1>1, <1>2, OpenByCall DEF AllOpen, OpenIsOfCalls

(* Steps that neither draw nor commit: a call keeps its open rows or gives *)
(* them up together.                                                       *)
LEMMA FeedKeeps ==
  ASSUME OpenInv, NEW w \in Writer, rows' = rows, nextPosition' = nextPosition,
         \A v \in Writer \ {w} : OpenOf(v)' = OpenOf(v),
         OpenOf(w)' = {} \/ OpenOf(w)' = OpenOf(w)
  PROVE  [Feed!FeedNext]_(Feed!feed)
<1>1. SeenRows' = SeenRows
  BY DEF SeenRows
<1>2. CASE OpenOf(w)' = OpenOf(w)
  <2>1. OpenRows' = AllOpen'
    <3>1. OpenIsOfCalls'
      BY OpenByCall, PTL
    <3> QED
      BY <3>1 DEF OpenIsOfCalls
  <2>2. OpenRows' = OpenRows
    BY <1>2, <2>1, OpenByCall DEF AllOpen, OpenIsOfCalls
  <2> QED
    BY <1>1, <2>2 DEF Feed!feed, SeenRows
<1>3. CASE OpenOf(w)' = {} /\ OpenOf(w) # {}
  <2>1. OpenRows' = OpenRows \ OpenOf(w)
    BY <1>3, OpenWithout
  <2>2. OpenOf(w) \in SUBSET OpenRows
    BY OpenByCall DEF AllOpen, OpenIsOfCalls
  <2>3. Feed!Discard(OpenOf(w))
    BY <1>1, <1>3, <2>1 DEF Feed!Discard, SeenRows
  <2> QED
    BY <2>2, <2>3 DEF Feed!FeedNext
<1> QED
  BY <1>2, <1>3

LEMMA FeedAtDraw ==
  ASSUME IInv, OpenInv, NEW w \in Writer, DrawPosition(w)
  PROVE  Feed!FeedNext
<1>1. /\ phase[w] = "appending" /\ drawn[w] = 0 /\ rows' = rows
      /\ drawn' = [drawn EXCEPT ![w] = nextPosition] /\ nextPosition' = nextPosition + 1
      /\ phase' = phase /\ tx' = tx /\ stream' = stream
  BY DEF DrawPosition, call
<1>2. nextPosition \in Nat \ {0} /\ stream[w] \in Stream
  BY DEF IInv, TypeOK
<1>3. /\ PositionsOf(w)' = PositionsOf(w) \cup {nextPosition}
      /\ \A v \in Writer \ {w} : PositionsOf(v)' = PositionsOf(v)
  BY <1>1, <1>2 DEF IInv, TypeOK, PositionsOf, Pending, Inserted
<1>4. /\ OpenOf(w)' = OpenOf(w) \cup {FeedRowOf(stream[w], nextPosition)}
      /\ \A v \in Writer \ {w} : OpenOf(v)' = OpenOf(v)
  BY <1>1, <1>3 DEF OpenOf
<1>5. OpenRows' = AllOpen'
  <2>1. OpenIsOfCalls'
    BY OpenByCall, PTL
  <2> QED
    BY <2>1 DEF OpenIsOfCalls
<1>6. OpenRows' = OpenRows \cup {FeedRowOf(stream[w], nextPosition)}
  BY <1>4, <1>5, OpenByCall DEF AllOpen, OpenIsOfCalls
<1>7. SeenRows' = SeenRows
  BY <1>1 DEF SeenRows
<1>8. nextPosition <= MaxSaves * MaxBatch
  BY OpenAtDraw
<1>9. Feed!Draw(stream[w])
  BY <1>1, <1>6, <1>7, <1>8 DEF Feed!Draw, SeenRows, FeedRowOf
<1> QED
  BY <1>2, <1>9 DEF Feed!FeedNext

(* What commits are the call's open rows, and they follow the stream,      *)
(* because what the call read is the whole stream.                         *)
LEMMA FeedAtCommit ==
  ASSUME IInv, OpenInv, NEW w \in Writer, Commit(w)
  PROVE  Feed!FeedNext
<1>1. /\ phase[w] = "appending" /\ Len(tx[w]) = size[w] /\ rows' = rows \cup Inserted(w)
      /\ phase' = [phase EXCEPT ![w] = "stored"] /\ nextPosition' = nextPosition
      /\ drawn' = drawn /\ tx' = tx /\ stream' = stream
  BY DEF Commit, call
<1>2. CallInv(w) /\ phase'[w] = "stored" /\ \A v \in Writer \ {w} : phase'[v] = phase[v]
  BY <1>1 DEF IInv, TypeOK
<1>3. tx[w] \in Seq(Row) /\ size[w] \in Nat \ {0} /\ drawn[w] \in Nat
  BY EventStoreAssumption DEF IInv, TypeOK
<1>4. drawn[w] = 0
  BY <1>1, <1>2, <1>3 DEF CallInv
<1>5. \A r \in Inserted(w) : r.stream = stream[w]
  BY <1>2 DEF CallInv, Inserted
<1>6. PositionsOf(w) = {r.position : r \in Inserted(w)} /\ PositionsOf(w)' = {}
  BY <1>1, <1>2, <1>4 DEF PositionsOf, Pending
<1>7. \A v \in Writer \ {w} : PositionsOf(v)' = PositionsOf(v)
  BY <1>1, <1>2 DEF PositionsOf, Pending, Inserted
<1>8. OpenOf(w)' = {} /\ \A v \in Writer \ {w} : OpenOf(v)' = OpenOf(v)
  BY <1>1, <1>6, <1>7 DEF OpenOf
<1>9. OpenRows' = OpenRows \ OpenOf(w) /\ OpenOf(w) \in SUBSET OpenRows
  BY <1>8, OpenWithout, OpenByCall DEF AllOpen, OpenIsOfCalls
<1>10. SeenRows' = SeenRows \cup OpenOf(w)
  <2>1. OpenOf(w) = {FeedRowOf(r.stream, r.position) : r \in Inserted(w)}
    BY <1>5, <1>6 DEF OpenOf
  <2> QED
    BY <1>1, <2>1 DEF SeenRows
<1>11. OpenOf(w) # {}
  <2>1. tx[w][1] \in Inserted(w)
    BY <1>1, <1>3 DEF Inserted
  <2> QED
    BY <1>6, <2>1 DEF OpenOf
<1>12. \A r, q \in OpenOf(w) : r.stream = q.stream
  BY DEF OpenOf, FeedRowOf
<1>13. ASSUME NEW r \in OpenOf(w), NEW q \in SeenRows, r.stream = q.stream
       PROVE  q.position < r.position
  <2>1. PICK i \in 1..Len(tx[w]) : r = FeedRowOf(stream[w], tx[w][i].position)
    BY <1>6 DEF OpenOf, Inserted
  <2>2. PICK old \in rows : q = FeedRowOf(old.stream, old.position)
    BY DEF SeenRows
  <2>3. old \in StreamRows(stream[w])
    BY <1>13, <2>1, <2>2 DEF FeedRowOf, StreamRows
  <2>4. old \in history[w]
    BY <2>3, CommitReadsAll
  <2> QED
    BY <1>2, <2>1, <2>2, <2>4 DEF CallInv, FeedRowOf
<1>14. Feed!CommitRows(OpenOf(w))
  BY <1>1, <1>9, <1>10, <1>11, <1>12, <1>13 DEF Feed!CommitRows, SeenRows
<1> QED
  BY <1>9, <1>14 DEF Feed!FeedNext

LEMMA FeedStep ==
  ASSUME IInv, OpenInv, [Next]_vars
  PROVE  [Feed!FeedNext]_(Feed!feed)
<1>1. CASE UNCHANGED vars
  <2>1. SeenRows' = SeenRows
    BY <1>1 DEF SeenRows, vars
  <2>2. \A w \in Writer : OpenOf(w)' = OpenOf(w)
    BY <1>1 DEF OpenOf, PositionsOf, Pending, Inserted, vars, call
  <2>3. OpenRows' = AllOpen'
    <3>1. OpenIsOfCalls'
      BY OpenByCall, PTL
    <3> QED
      BY <3>1 DEF OpenIsOfCalls
  <2>4. OpenRows' = OpenRows
    BY <2>2, <2>3, OpenByCall DEF AllOpen, OpenIsOfCalls
  <2> QED
    BY <1>1, <2>1, <2>4 DEF Feed!feed, SeenRows, vars
<1>2. ASSUME NEW w \in Writer, rows' = rows, nextPosition' = nextPosition,
             \A v \in Writer \ {w} : /\ phase'[v] = phase[v] /\ drawn'[v] = drawn[v]
                                     /\ tx'[v] = tx[v] /\ stream'[v] = stream[v],
             PositionsOf(w)' = {} \/ (PositionsOf(w)' = PositionsOf(w) /\ stream' = stream)
      PROVE  [Feed!FeedNext]_(Feed!feed)
  <2>1. \A v \in Writer \ {w} : OpenOf(v)' = OpenOf(v)
    BY <1>2 DEF OpenOf, PositionsOf, Pending, Inserted
  <2>2. OpenOf(w)' = {} \/ OpenOf(w)' = OpenOf(w)
    BY <1>2 DEF OpenOf
  <2> QED
    BY <1>2, <2>1, <2>2, FeedKeeps
<1>3. ASSUME NEW w \in Writer, Start(w)
      PROVE  [Feed!FeedNext]_(Feed!feed)
  <2>1. /\ rows' = rows /\ nextPosition' = nextPosition
        /\ drawn' = [drawn EXCEPT ![w] = 0] /\ tx' = [tx EXCEPT ![w] = <<>>]
        /\ \E p : phase' = [phase EXCEPT ![w] = p]
        /\ \E s : stream' = [stream EXCEPT ![w] = s]
    BY <1>3 DEF Start, Create, LoadAndDecide, PublisherRead, Begin
  <2>2. drawn'[w] = 0 /\ Len(tx'[w]) = 0
    BY <2>1 DEF IInv, TypeOK
  <2>3. PositionsOf(w)' = {}
    BY <2>2 DEF PositionsOf, Pending, Inserted
  <2>4. \A v \in Writer \ {w} : /\ phase'[v] = phase[v] /\ drawn'[v] = drawn[v]
                                /\ tx'[v] = tx[v] /\ stream'[v] = stream[v]
    BY <2>1 DEF IInv, TypeOK
  <2>5. rows' = rows /\ nextPosition' = nextPosition
    BY <2>1
  <2> QED
    BY <1>2, <2>3, <2>4, <2>5
<1>4. ASSUME NEW w \in Writer, InsertRow(w)
      PROVE  [Feed!FeedNext]_(Feed!feed)
  <2> DEFINE row == [stream |-> stream[w], version |-> NextVersion(w), position |-> drawn[w]]
  <2>1. /\ phase[w] = "appending" /\ drawn[w] # 0 /\ tx' = [tx EXCEPT ![w] = Append(tx[w], row)]
        /\ drawn' = [drawn EXCEPT ![w] = 0] /\ UNCHANGED <<rows, nextPosition, phase, stream>>
    BY <1>4 DEF InsertRow, call
  <2>2. tx[w] \in Seq(Row) /\ tx'[w] = Append(tx[w], row) /\ drawn'[w] = 0
    BY <2>1 DEF IInv, TypeOK
  <2>3. \A v \in Writer \ {w} : tx'[v] = tx[v] /\ drawn'[v] = drawn[v]
    BY <2>1 DEF IInv, TypeOK
  <2>4. Inserted(w)' = Inserted(w) \cup {row}
    BY <2>2, InsertedGrows
  <2>5. PositionsOf(w)' = PositionsOf(w)
    BY <2>1, <2>2, <2>4 DEF PositionsOf, Pending
  <2> HIDE DEF row
  <2> QED
    BY <1>2, <2>1, <2>3, <2>5
<1>5. ASSUME NEW w \in Writer, Conflict(w) \/ DatabaseError(w) \/ Crash(w)
      PROVE  [Feed!FeedNext]_(Feed!feed)
  <2>1. PICK p \in {"idle", "returned", "threw"} :
          /\ phase' = [phase EXCEPT ![w] = p] /\ tx' = [tx EXCEPT ![w] = <<>>]
          /\ drawn' = [drawn EXCEPT ![w] = 0] /\ UNCHANGED <<rows, nextPosition, stream>>
    BY <1>5 DEF Conflict, DatabaseError, Crash, Rollback, AfterFailure, call
  <2>2. phase'[w] # "appending" /\ drawn'[w] = 0
    BY <2>1 DEF IInv, TypeOK
  <2>3. PositionsOf(w)' = {}
    BY <2>2 DEF PositionsOf, Pending
  <2> QED
    BY <1>2, <2>1, <2>3 DEF IInv, TypeOK
<1>6. ASSUME NEW w \in Writer, Publish(w) \/ PublishFails(w)
      PROVE  [Feed!FeedNext]_(Feed!feed)
  <2>1. /\ phase[w] = "stored" /\ drawn[w] = 0
        /\ UNCHANGED <<rows, nextPosition, drawn, tx, stream>>
    BY <1>6 DEF Publish, PublishFails, OpenInv, call
  <2>2. PICK p \in {"returned", "threw"} : phase' = [phase EXCEPT ![w] = p]
    BY <1>6 DEF Publish, PublishFails, AfterFailure
  <2>3. PositionsOf(w)' = {}
    BY <2>1, <2>2 DEF PositionsOf, Pending, IInv, TypeOK
  <2> QED
    BY <1>2, <2>1, <2>2, <2>3 DEF IInv, TypeOK
<1>7. CASE Next
  <2>1. ASSUME NEW w \in Writer, DrawPosition(w) \/ Commit(w)
        PROVE  [Feed!FeedNext]_(Feed!feed)
    BY <2>1, FeedAtDraw, FeedAtCommit
  <2>2. PICK w \in Writer : Start(w) \/ Step(w) \/ DatabaseError(w) \/ PublishFails(w) \/ Crash(w)
    BY <1>7 DEF Next
  <2>3. CASE Start(w)
    BY <1>3, <2>3
  <2>4. CASE InsertRow(w)
    BY <1>4, <2>4
  <2>5. CASE Conflict(w) \/ DatabaseError(w) \/ Crash(w)
    BY <1>5, <2>5
  <2>6. CASE Publish(w) \/ PublishFails(w)
    BY <1>6, <2>6
  <2> QED
    BY <2>1, <2>2, <2>3, <2>4, <2>5, <2>6 DEF Step
<1> QED
  BY <1>1, <1>7

LEMMA FeedStarts == Init => Feed!FeedInit
<1> SUFFICES ASSUME Init
             PROVE  Feed!FeedInit
  OBVIOUS
<1>1. \A w \in Writer : PositionsOf(w) = {}
  BY DEF Init, PositionsOf, Pending
<1>2. OpenRows = {}
  BY <1>1, OpenByCall DEF AllOpen, OpenIsOfCalls, OpenOf
<1> QED
  BY <1>2 DEF Init, Feed!FeedInit

(* The committed table and the transactions open on it implement the feed  *)
(* that ProjectionManager reads: positions are drawn while transactions    *)
(* are open, and a stream's rows become visible in the order of their      *)
(* positions.                                                              *)
THEOREM StoreIsFeed == Spec => ImplementsFeed
<1>1. IInv /\ OpenInv /\ [Next]_vars => OpenInv'
  BY OpenStep
<1>2. IInv /\ OpenInv /\ [Next]_vars => [Feed!FeedNext]_(Feed!feed)
  BY FeedStep
<1> QED
  BY Invariance, OpenStart, FeedStarts, <1>1, <1>2, PTL DEF Spec, ImplementsFeed, Feed!FeedSpec

(* EventStoreService.append implements what the rest of the platform is    *)
(* built on: a log per stream that only grows, and a feed over all of them *)
(* that projections catch up on.                                           *)
THEOREM StoreImplements == Spec => Implements
BY StoreIsLog, StoreIsFeed DEF Implements
=============================================================================
