----------------------- MODULE ProjectionManagerProofs -----------------------
(***************************************************************************)
(* With one instance of the API, as deployed, a projection applies each    *)
(* event once and in order, and skips none before a row commits late:      *)
(* for all streams, every batch size, and any number of faults.            *)
(*                                                                         *)
(* The second half is about the jobs beside it (JobRuns, J): their scripts *)
(* are data, so first comes what is at each place of each script, then     *)
(* what row, stream and pieces say there, kind by kind, then that a step   *)
(* leads from one place to the next.                                       *)
(***************************************************************************)
EXTENDS MCJobs, FiniteSetTheorems, SequenceTheorems, WellFoundedInduction, TLAPS

(* ecosystem.config: a single process. *)
OneInstance == \A i, j \in Instance : i = j

(* Positions come from one sequence, each is used once. *)
Positions ==
  /\ IsFiniteSet(rows) /\ IsFiniteSet(open)
  /\ \A r \in rows \cup open : r.position < nextPosition
  /\ \A r, q \in rows \cup open : r.position = q.position => r = q
  /\ rows \cap open = {}

(* What was applied is in the log, no later than the checkpoint.           *)
AppliedRows ==
  \A k \in 1..Len(applied) : applied[k] \in rows

(* A drain works on what the checkpoint says, *)
Fresh ==
  \A i \in Instance :
    /\ loop[i] = "reading" => from[i] = checkpoint
    /\ \A r \in batch[i] : checkpoint < r.position

(* and as long as no row commits late, its page has no gaps.               *)
Gapless ==
  late = {} => \A i \in Instance : \A q \in batch[i], r \in rows :
    checkpoint < r.position /\ r.position <= q.position => r \in batch[i]

IInv ==
  /\ TypeOK /\ Positions /\ AppliedRows /\ Fresh /\ Gapless
  /\ AppliedUpToCheckpoint /\ OnlyLateRowsSkipped

-----------------------------------------------------------------------------
(* A page is empty only if there is nothing to read, and has no gaps. *)
LEMMA LowestRow ==
  ASSUME NEW S \in SUBSET FeedRow, S # {}
  PROVE  \E r \in S : \A q \in S : r.position <= q.position
<1> DEFINE Less == {ss \in Nat \X Nat : ss[1] < ss[2]}
           T    == {r.position : r \in S}
<1>1. IsWellFoundedOn(Less, Nat)
  BY NatLessThanWellFounded DEF OpToRel
<1>2. T \subseteq Nat /\ T # {}
  BY DEF FeedRow
<1> HIDE DEF T
<1>3. PICK n \in T : \A m \in T : ~(<<m, n>> \in Less)
  BY <1>1, <1>2, WFMin
<1>4. \A m \in T : n <= m
  <2> SUFFICES ASSUME NEW m \in T PROVE n <= m
    OBVIOUS
  <2>1. m \in Nat /\ n \in Nat
    BY <1>2, <1>3
  <2>2. ~(m < n)
    BY <2>1, <1>3
  <2> QED
    BY <2>1, <2>2
<1> QED
  BY <1>3, <1>4 DEF T

(* What Page gives of a set of rows.                                       *)
LEMMA Pages ==
  ASSUME NEW S \in SUBSET FeedRow, IsFiniteSet(S)
  PROVE  /\ Page(S) \subseteq S
         /\ Page(S) = {} <=> S = {}
         /\ \A q \in Page(S), r \in S : r.position <= q.position => r \in Page(S)
<1> DEFINE Before(r) == {x \in S : x.position < r.position}
<1>1. \A r \in S : Before(r) \in SUBSET S /\ IsFiniteSet(Before(r)) /\ Cardinality(Before(r)) \in Nat
  <2> SUFFICES ASSUME NEW r \in S
               PROVE  Before(r) \in SUBSET S /\ IsFiniteSet(Before(r)) /\ Cardinality(Before(r)) \in Nat
    OBVIOUS
  <2>1. Before(r) \in SUBSET S
    OBVIOUS
  <2>2. IsFiniteSet(Before(r))
    BY <2>1, FS_Subset
  <2> QED
    BY <2>1, <2>2, FS_CardinalityType
<1>2. \A r \in S : r.position \in Nat
  BY DEF FeedRow
<1>3. ASSUME S # {} PROVE Page(S) # {}
  <2>1. PICK r \in S : \A q \in S : r.position <= q.position
    BY <1>3, LowestRow
  <2>2. Before(r) = {}
    BY <2>1, <1>2
  <2>3. Cardinality(Before(r)) = 0
    BY <2>2, FS_EmptySet
  <2> QED
    BY <2>3, ProjectionManagerAssumption DEF Page
<1>4. ASSUME NEW q \in Page(S), NEW r \in S, r.position <= q.position
      PROVE  r \in Page(S)
  <2>1. q \in S /\ Cardinality(Before(q)) < BatchSize
    BY DEF Page
  <2>2. Before(r) \in SUBSET Before(q)
    BY <1>2, <1>4, <2>1
  <2>3. Cardinality(Before(r)) <= Cardinality(Before(q))
    BY <2>1, <2>2, <1>1, FS_Subset
  <2>4. Cardinality(Before(r)) < BatchSize
    <3>1. Cardinality(Before(r)) \in Nat /\ Cardinality(Before(q)) \in Nat
      BY <2>1, <1>1
    <3> HIDE DEF Before
    <3> QED
      BY <2>1, <2>3, <3>1, ProjectionManagerAssumption
  <2> QED
    BY <2>4 DEF Page
<1> QED
  BY <1>3, <1>4 DEF Page

(* BATCH_SIZE and the positions are numbers.                               *)
LEMMA Numbers ==
  ASSUME TypeOK
  PROVE  /\ checkpoint \in Nat /\ nextPosition \in Nat
         /\ \A r \in rows \cup open : r \in FeedRow /\ r.position \in Nat /\ r.position >= 1
                                      /\ r.stream \in Stream
         /\ applied \in Seq(FeedRow) /\ Len(applied) \in Nat
BY LenProperties DEF TypeOK, FeedTypeOK, FeedRow

-----------------------------------------------------------------------------
(* Steps of the loop that project nothing: it reads its checkpoint, or     *)
(* gives up what it was at.                                                *)
LEMMA Loops ==
  ASSUME IInv, NEW i \in Instance, NEW l \in {"top", "reading", "sleeping", "down"},
         loop' = [loop EXCEPT ![i] = l],
         from' \in {from, [from EXCEPT ![i] = 0], [from EXCEPT ![i] = checkpoint]},
         l = "reading" => from' = [from EXCEPT ![i] = checkpoint],
         batch' = [batch EXCEPT ![i] = {}],
         UNCHANGED <<feed, checkpoint, applied, late>>
  PROVE  IInv'
<1>0. UNCHANGED <<rows, open, nextPosition>>
  BY DEF feed
<1>1. /\ \A j \in Instance : loop'[j] = IF j = i THEN l ELSE loop[j]
      /\ \A j \in Instance : batch'[j] = IF j = i THEN {} ELSE batch[j]
      /\ \A j \in Instance : j # i => from'[j] = from[j]
      /\ l = "reading" => from'[i] = checkpoint
  BY DEF IInv, TypeOK
<1>2. TypeOK'
  <2>1. from' \in [Instance -> Nat]
    BY Numbers DEF IInv, TypeOK
  <2>2. loop' \in [Instance -> Loop] /\ batch' \in [Instance -> SUBSET rows]
    BY DEF IInv, TypeOK, Loop
  <2>3. \A j \in Instance : (loop'[j] = "applying") = (batch'[j] # {})
    <3> SUFFICES ASSUME NEW j \in Instance PROVE (loop'[j] = "applying") = (batch'[j] # {})
      OBVIOUS
    <3>1. CASE j = i
      BY <3>1, <1>1
    <3>2. CASE j # i
      BY <3>2, <1>1 DEF IInv, TypeOK
    <3> QED
      BY <3>1, <3>2
  <2> QED
    BY <1>0, <2>1, <2>2, <2>3 DEF IInv, TypeOK, FeedTypeOK
<1>3. Positions' /\ AppliedRows'
  BY <1>0 DEF IInv, Positions, AppliedRows
<1>4. Fresh' /\ Gapless'
  BY <1>0, <1>1 DEF IInv, Fresh, Gapless
<1>5. AppliedUpToCheckpoint' /\ OnlyLateRowsSkipped'
  BY <1>0 DEF IInv, AppliedUpToCheckpoint, AppliedInOrder, NothingBeyondCheckpoint,
              OnlyLateRowsSkipped, NothingSkipped, Relevant, Handled, Ad, Effects
<1> QED
  BY <1>2, <1>3, <1>4, <1>5 DEF IInv

(* Reading the next rows keeps the invariant,                              *)
LEMMA ReadBatchKeeps ==
  ASSUME IInv, NEW i \in Instance, ReadBatch(i), late' = late
  PROVE  IInv'
<1> DEFINE V == Visible(from[i])
<1> USE DEF ReadBatch
<1>0. UNCHANGED <<rows, open, nextPosition>>
  BY DEF feed
<1>1. /\ from[i] = checkpoint /\ V = {r \in rows : r.position > checkpoint}
      /\ V \in SUBSET rows /\ V \in SUBSET FeedRow
  BY DEF IInv, Fresh, Visible, TypeOK, FeedTypeOK
<1>2. /\ Page(V) \subseteq V /\ (Page(V) = {} <=> V = {})
      /\ \A q \in Page(V), r \in V : r.position <= q.position => r \in Page(V)
  <2>1. IsFiniteSet(V)
    BY <1>1, FS_Subset DEF IInv, Positions
  <2> HIDE DEF V
  <2> QED
    BY <2>1, <1>1, Pages
<1>3. /\ \A j \in Instance : batch'[j] = IF j = i THEN Page(V) ELSE batch[j]
      /\ \A j \in Instance : loop'[j] = IF j = i THEN (IF V = {} THEN "sleeping" ELSE "applying")
                                                 ELSE loop[j]
      /\ \A j \in Instance : j # i => from'[j] = from[j]
  BY DEF IInv, TypeOK
<1> HIDE DEF V
<1>4. TypeOK'
  <2>1. from' \in [Instance -> Nat]
    BY DEF IInv, TypeOK
  <2>2. loop' \in [Instance -> Loop] /\ batch' \in [Instance -> SUBSET rows]
    BY <1>1, <1>2 DEF IInv, TypeOK, Loop, V
  <2>3. \A j \in Instance : (loop'[j] = "applying") = (batch'[j] # {})
    <3> SUFFICES ASSUME NEW j \in Instance PROVE (loop'[j] = "applying") = (batch'[j] # {})
      OBVIOUS
    <3>1. CASE j = i
      BY <3>1, <1>2, <1>3
    <3>2. CASE j # i
      BY <3>2, <1>3 DEF IInv, TypeOK
    <3> QED
      BY <3>1, <3>2
  <2> QED
    BY <1>0, <2>1, <2>2, <2>3 DEF IInv, TypeOK, FeedTypeOK
<1>5. Positions' /\ AppliedRows'
  BY <1>0 DEF IInv, Positions, AppliedRows
<1>6. Fresh'
  <2>1. \A r \in Page(V) : checkpoint < r.position
    BY <1>1, <1>2, Numbers DEF IInv
  <2> QED
    BY <2>1, <1>3 DEF IInv, Fresh
<1>7. Gapless'
  <2> SUFFICES ASSUME late = {}, NEW j \in Instance, NEW q \in batch'[j], NEW r \in rows,
                      checkpoint < r.position, r.position <= q.position
               PROVE  r \in batch'[j]
    BY <1>0 DEF Gapless
  <2>1. CASE j = i
    <3>1. r \in V
      BY <1>1, Numbers DEF IInv
    <3> QED
      BY <2>1, <3>1, <1>2, <1>3
  <2>2. CASE j # i
    BY <2>2, <1>3 DEF IInv, Gapless
  <2> QED
    BY <2>1, <2>2
<1>8. AppliedUpToCheckpoint' /\ OnlyLateRowsSkipped'
  BY <1>0 DEF IInv, AppliedUpToCheckpoint, AppliedInOrder, NothingBeyondCheckpoint,
              OnlyLateRowsSkipped, NothingSkipped, Relevant, Handled, Ad, Effects
<1> QED
  BY <1>4, <1>5, <1>6, <1>7, <1>8 DEF IInv

-----------------------------------------------------------------------------
(* A row that ought to show has an effect when its turn comes: nothing     *)
(* before it was skipped, and it was not applied before.                   *)
LEMMA RelevantHasEffect ==
  ASSUME IInv, late = {}, NEW i \in Instance, NEW r \in batch[i],
         IsFirst(r, batch[i]), ~Throws(r), Relevant(r)
  PROVE  HasEffect(r)
<1>1. /\ r \in rows /\ checkpoint < r.position /\ r.stream \in Stream
      /\ r.position \in Nat /\ checkpoint \in Nat
  BY Numbers DEF IInv, Fresh, TypeOK
<1>2. \A q \in rows : q.position < r.position => q.position <= checkpoint
  <2> SUFFICES ASSUME NEW q \in rows, q.position < r.position, checkpoint < q.position
               PROVE  FALSE
    BY <1>1, Numbers DEF IInv
  <2>1. q \in batch[i]
    BY <1>1, Numbers DEF IInv, Gapless
  <2> QED
    BY <2>1, <1>1, Numbers DEF IsFirst, IInv
<1>3. CASE r.stream \in Ad
  <2>1. CountsOn[r.stream] = r.stream
    BY <1>3 DEF Ad
  <2>2. CASE Creates(r)
    <3> SUFFICES ASSUME Present(r.stream) PROVE FALSE
      BY <1>3, <2>1, <2>2 DEF HasEffect, Relevant
    <3>1. PICK k \in 1..Len(applied) : applied[k].stream = r.stream
      BY DEF Present
    <3>2. applied[k] \in rows /\ applied[k].position <= checkpoint
      BY DEF IInv, AppliedRows, AppliedUpToCheckpoint, NothingBeyondCheckpoint
    <3>3. r.position <= applied[k].position
      BY <2>2, <3>1, <3>2 DEF Creates
    <3> QED
      BY <3>2, <3>3, <1>1, Numbers DEF IInv
  <2>3. CASE ~Creates(r)
    BY <1>3, <2>1, <2>3 DEF HasEffect, Relevant, Throws
  <2> QED
    BY <2>2, <2>3
<1>4. CASE r.stream \notin Ad
  <2>1. PICK q \in rows : q.stream = CountsOn[r.stream] /\ q.position < r.position
    BY <1>4 DEF Relevant
  <2>2. q.stream \in Stream /\ q.stream # NoAd /\ CountsOn[q.stream] = q.stream
    BY <1>1, <2>1, Numbers, ProjectionManagerAssumption DEF Relevant, Handled, IInv
  <2>3. Relevant(q)
    BY <2>2 DEF Relevant, Handled, Ad
  <2>4. q \in Effects
    BY <1>2, <2>1, <2>3 DEF IInv, OnlyLateRowsSkipped, NothingSkipped
  <2>5. Present(CountsOn[r.stream])
    BY <2>1, <2>4 DEF Effects, Present
  <2> QED
    BY <1>4, <2>5 DEF HasEffect, Relevant
<1> QED
  BY <1>3, <1>4

(* and so does projecting the first of them with its checkpoint,           *)
LEMMA ApplyKeeps ==
  ASSUME OneInstance, IInv, NEW i \in Instance, Apply(i), late' = late
  PROVE  IInv'
<1>0. UNCHANGED <<rows, open, nextPosition, from>> /\ loop[i] = "applying"
  BY DEF Apply, feed
<1>1. PICK r \in batch[i] :
        /\ IsFirst(r, batch[i]) /\ ~Throws(r)
        /\ applied' = IF HasEffect(r) THEN Append(applied, r) ELSE applied
        /\ checkpoint' = r.position
        /\ batch' = [batch EXCEPT ![i] = @ \ {r}]
        /\ loop' = [loop EXCEPT ![i] = IF batch[i] = {r} THEN "top" ELSE "applying"]
  BY DEF Apply
<1>2. /\ r \in rows /\ r \in FeedRow /\ r.position \in Nat /\ checkpoint \in Nat
      /\ checkpoint < r.position
  BY Numbers DEF IInv, TypeOK, Fresh
<1>3. /\ \A j \in Instance : j = i
      /\ batch'[i] = batch[i] \ {r}
      /\ loop'[i] = IF batch[i] = {r} THEN "top" ELSE "applying"
  BY <1>1 DEF OneInstance, IInv, TypeOK
<1>4. /\ applied' \in Seq(FeedRow)
      /\ Len(applied') = IF HasEffect(r) THEN Len(applied) + 1 ELSE Len(applied)
      /\ \A k \in 1..Len(applied) : applied'[k] = applied[k]
      /\ HasEffect(r) => applied'[Len(applied) + 1] = r
      /\ Len(applied) \in Nat
  BY <1>1, <1>2, Numbers, AppendProperties DEF IInv
<1>5. \A k \in 1..Len(applied') :
        \/ k \in 1..Len(applied) /\ applied'[k] = applied[k]
        \/ k = Len(applied) + 1 /\ applied'[k] = r /\ HasEffect(r)
  BY <1>4
<1>6. TypeOK'
  <2>1. loop' \in [Instance -> Loop] /\ batch' \in [Instance -> SUBSET rows]
    BY <1>1 DEF IInv, TypeOK, Loop
  <2>2. (loop'[i] = "applying") = (batch'[i] # {})
    BY <1>1, <1>3
  <2> QED
    BY <1>0, <1>1, <1>2, <1>3, <1>4, <2>1, <2>2 DEF IInv, TypeOK, FeedTypeOK
<1>7. Positions' /\ AppliedRows'
  <2>1. Positions'
    BY <1>0 DEF IInv, Positions
  <2>2. AppliedRows'
    BY <1>0, <1>2, <1>5 DEF IInv, AppliedRows
  <2> QED
    BY <2>1, <2>2
<1>8. Fresh'
  <2>1. \A q \in batch[i] : q # r => r.position < q.position
    <3> SUFFICES ASSUME NEW q \in batch[i], q # r PROVE r.position < q.position
      OBVIOUS
    <3>1. q \in rows /\ q.position # r.position /\ r.position <= q.position
      BY <1>1, <1>2 DEF IInv, TypeOK, Positions, IsFirst
    <3> QED
      BY <3>1, <1>2, Numbers DEF IInv
  <2>2. \A j \in Instance : loop'[j] # "reading"
    BY <1>3
  <2> QED
    BY <2>1, <2>2, <1>1, <1>3 DEF Fresh
<1>9. Gapless'
  <2> SUFFICES ASSUME late = {}, NEW q \in batch[i] \ {r}, NEW x \in rows,
                      r.position < x.position, x.position <= q.position
               PROVE  x \in batch[i] \ {r}
    BY <1>0, <1>1, <1>3 DEF Gapless
  <2>1. checkpoint < x.position /\ x # r
    BY <1>2, Numbers DEF IInv
  <2> QED
    BY <2>1 DEF IInv, Gapless
<1>10. AppliedUpToCheckpoint'
  <2>1. NothingBeyondCheckpoint'
    <3> SUFFICES ASSUME NEW k \in 1..Len(applied')
                 PROVE  applied'[k].position <= r.position
      BY <1>1 DEF NothingBeyondCheckpoint
    <3>1. CASE k \in 1..Len(applied) /\ applied'[k] = applied[k]
      <4>1. applied[k].position <= checkpoint /\ applied[k] \in rows
        BY <3>1 DEF IInv, AppliedUpToCheckpoint, NothingBeyondCheckpoint, AppliedRows
      <4> QED
        BY <3>1, <4>1, <1>2, Numbers DEF IInv
    <3> QED
      BY <3>1, <1>2, <1>5
  <2>2. AppliedInOrder'
    <3> SUFFICES ASSUME NEW k \in 1..(Len(applied') - 1)
                 PROVE  applied'[k].position < applied'[k + 1].position
      BY DEF AppliedInOrder
    <3>1. CASE k \in 1..(Len(applied) - 1)
      <4>1. k \in 1..Len(applied) /\ k + 1 \in 1..Len(applied)
        BY <3>1, <1>4
      <4> QED
        BY <3>1, <4>1, <1>4 DEF IInv, AppliedUpToCheckpoint, AppliedInOrder
    <3>2. CASE k \notin 1..(Len(applied) - 1)
      <4>1. HasEffect(r) /\ k = Len(applied) /\ k \in 1..Len(applied)
        BY <3>2, <1>4
      <4>2. applied[k].position <= checkpoint /\ applied[k] \in rows
        BY <4>1 DEF IInv, AppliedUpToCheckpoint, NothingBeyondCheckpoint, AppliedRows
      <4> QED
        BY <4>1, <4>2, <1>2, <1>4, Numbers DEF IInv
    <3> QED
      BY <3>1, <3>2
  <2> QED
    BY <2>1, <2>2 DEF AppliedUpToCheckpoint
<1>11. OnlyLateRowsSkipped'
  <2> SUFFICES ASSUME late = {}, NEW x \in rows, Relevant(x), x.position <= r.position
               PROVE  x \in Effects'
    BY <1>0, <1>1 DEF OnlyLateRowsSkipped, NothingSkipped, Relevant, Handled, Ad
  <2>1. Effects \subseteq Effects'
    <3> SUFFICES ASSUME NEW k \in 1..Len(applied) PROVE applied[k] \in Effects'
      BY DEF Effects
    <3>1. k \in 1..Len(applied') /\ applied'[k] = applied[k]
      BY <1>4
    <3> QED
      BY <3>1 DEF Effects
  <2>2. CASE x = r
    <3>1. HasEffect(r)
      BY <2>2, <1>1, RelevantHasEffect
    <3>2. Len(applied) + 1 \in 1..Len(applied') /\ applied'[Len(applied) + 1] = r
      BY <3>1, <1>4
    <3> QED
      BY <2>2, <3>2 DEF Effects
  <2>3. CASE x # r
    <3>1. x.position <= checkpoint
      <4> SUFFICES ASSUME checkpoint < x.position PROVE FALSE
        BY <1>2, Numbers DEF IInv
      <4>1. x \in batch[i]
        BY DEF IInv, Gapless
      <4>2. r.position <= x.position /\ x.position # r.position
        BY <2>3, <4>1, <1>1, <1>2 DEF IsFirst, IInv, Positions
      <4> QED
        BY <4>2, <1>2, Numbers DEF IInv
    <3> QED
      BY <3>1, <2>1 DEF IInv, OnlyLateRowsSkipped, NothingSkipped
  <2> QED
    BY <2>2, <2>3
<1> QED
  BY <1>6, <1>7, <1>8, <1>9, <1>10, <1>11 DEF IInv

-----------------------------------------------------------------------------
(* The writers draw, commit and discard; a row that commits at or below a  *)
(* position already read is late.                                          *)
LEMMA WriterKeeps ==
  ASSUME IInv, WriterNext
  PROVE  IInv'
<1>0. UNCHANGED <<checkpoint, applied, loop, from, batch>>
  BY DEF WriterNext, reader
<1>1. late' = late \cup {r \in rows' \ rows : \E p \in ReadUpTo : r.position <= p}
  BY DEF WriterNext
<1>2. /\ rows' \cup open' \subseteq FeedRow
      /\ nextPosition' \in Nat \ {0}
      /\ rows \subseteq rows' /\ Positions'
  <2> USE DEF IInv
  <2>1. CASE \E s \in Stream : Draw(s)
    <3>1. PICK s \in Stream : Draw(s)
      BY <2>1
    <3> DEFINE new == [stream |-> s, position |-> nextPosition]
    <3>2. /\ open' = open \cup {new} /\ rows' = rows /\ nextPosition' = nextPosition + 1
          /\ new \in FeedRow /\ new.position = nextPosition /\ nextPosition \in Nat
      BY <3>1, Numbers DEF Draw, FeedRow, TypeOK, FeedTypeOK
    <3>3. \A r \in rows \cup open : r.position \in Nat /\ r.position < nextPosition
      BY Numbers DEF Positions
    <3>4. IsFiniteSet(open')
      BY <3>2, FS_AddElement DEF Positions
    <3>5. new \notin rows \cup open /\ \A r \in rows \cup open : r.position # new.position
      BY <3>2, <3>3
    <3> HIDE DEF new
    <3>6. Positions'
      <4>1. \A r \in rows' \cup open' : r.position < nextPosition'
        BY <3>2, <3>3
      <4>2. \A r, q \in rows' \cup open' : r.position = q.position => r = q
        BY <3>2, <3>5 DEF Positions
      <4>3. rows' \cap open' = {} /\ IsFiniteSet(rows')
        BY <3>2, <3>5 DEF Positions
      <4> QED
        BY <3>4, <4>1, <4>2, <4>3 DEF Positions
    <3> QED
      BY <3>2, <3>6 DEF TypeOK, FeedTypeOK
  <2>2. CASE \E R \in SUBSET open : CommitRows(R) \/ Discard(R)
    <3>1. PICK R \in SUBSET open : CommitRows(R) \/ Discard(R)
      BY <2>2
    <3>2. /\ open' = open \ R /\ rows' \in {rows, rows \cup R} /\ nextPosition' = nextPosition
      BY <3>1 DEF CommitRows, Discard
    <3>3. IsFiniteSet(R) /\ IsFiniteSet(open \ R)
      BY FS_Subset DEF Positions
    <3>4. IsFiniteSet(rows \cup R)
      BY <3>3, FS_Union DEF Positions
    <3>5. Positions'
      BY <3>2, <3>3, <3>4 DEF Positions
    <3> QED
      BY <3>2, <3>5 DEF TypeOK, FeedTypeOK
  <2> QED
    BY <2>1, <2>2 DEF WriterNext, FeedNext
<1>3. TypeOK' /\ AppliedRows'
  <2>1. late' \subseteq rows' /\ batch \in [Instance -> SUBSET rows']
    BY <1>1, <1>2 DEF IInv, TypeOK
  <2>2. TypeOK'
    BY <1>0, <1>2, <2>1 DEF IInv, TypeOK, FeedTypeOK
  <2>3. AppliedRows'
    BY <1>0, <1>2 DEF IInv, AppliedRows
  <2> QED
    BY <2>2, <2>3
<1>4. Fresh' /\ AppliedUpToCheckpoint'
  BY <1>0 DEF IInv, Fresh, AppliedUpToCheckpoint, AppliedInOrder, NothingBeyondCheckpoint
<1>5. ASSUME late' = {}, NEW r \in rows' \ rows
      PROVE  /\ checkpoint < r.position
             /\ \A i \in Instance : \A q \in batch[i] : q.position < r.position
  <2>1. \A p \in ReadUpTo : ~(r.position <= p)
    BY <1>1, <1>5
  <2>2. r.position \in Nat /\ checkpoint \in Nat
    BY <1>2, Numbers DEF IInv, FeedRow
  <2>3. \A i \in Instance : \A q \in batch[i] : q.position \in Nat
    BY Numbers DEF IInv, TypeOK
  <2>4. checkpoint \in ReadUpTo /\ \A i \in Instance : \A q \in batch[i] : q.position \in ReadUpTo
    BY DEF ReadUpTo
  <2> QED
    BY <2>1, <2>2, <2>3, <2>4
<1>6. late' = {} => late = {}
  BY <1>1
<1>7. \A r \in rows' : r.position \in Nat
  BY <1>2 DEF FeedRow
<1>8. Gapless'
  <2> SUFFICES ASSUME late' = {}, NEW i \in Instance, NEW q \in batch[i], NEW r \in rows',
                      checkpoint < r.position, r.position <= q.position
               PROVE  r \in batch[i]
    BY <1>0 DEF Gapless
  <2>1. r \in rows
    <3>1. q.position \in Nat /\ r.position \in Nat
      BY <1>7, Numbers DEF IInv, TypeOK
    <3> QED
      BY <3>1, <1>5
  <2> QED
    BY <2>1, <1>6 DEF IInv, Gapless
<1>9. OnlyLateRowsSkipped'
  <2> SUFFICES ASSUME late' = {}, NEW r \in rows', Relevant(r)', r.position <= checkpoint
               PROVE  r \in Effects
    BY <1>0 DEF OnlyLateRowsSkipped, NothingSkipped, Effects
  <2>1. checkpoint \in Nat
    BY Numbers DEF IInv
  <2>2. r \in rows
    BY <2>1, <1>5, <1>7
  <2>3. \A q \in rows' : q.position < r.position => q \in rows
    BY <2>1, <1>5, <1>7
  <2>4. Relevant(r)
    BY <2>2, <2>3 DEF Relevant, Handled, Ad
  <2> QED
    BY <2>2, <2>4, <1>6 DEF IInv, OnlyLateRowsSkipped, NothingSkipped
<1> QED
  BY <1>2, <1>3, <1>4, <1>8, <1>9 DEF IInv

-----------------------------------------------------------------------------
(* An empty log and no checkpoint.                                         *)
LEMMA InitHolds == Init => IInv
<1> SUFFICES ASSUME Init PROVE IInv
  OBVIOUS
<1> USE DEF Init, FeedInit, ReaderInit
<1>1. applied \in Seq(FeedRow) /\ Len(applied) = 0
  BY EmptySeq
<1>2. TypeOK
  BY <1>1 DEF TypeOK, FeedTypeOK, Loop
<1>3. Positions
  BY FS_EmptySet DEF Positions
<1>4. AppliedRows /\ AppliedUpToCheckpoint
  BY <1>1 DEF AppliedRows, AppliedUpToCheckpoint, AppliedInOrder, NothingBeyondCheckpoint
<1>5. Fresh /\ Gapless /\ OnlyLateRowsSkipped
  BY DEF Fresh, Gapless, OnlyLateRowsSkipped, NothingSkipped
<1> QED
  BY <1>2, <1>3, <1>4, <1>5 DEF IInv

(* Every action of a single instance keeps the invariant.                  *)
LEMMA StepKeeps == OneInstance /\ IInv /\ [Next]_vars => IInv'
<1> SUFFICES ASSUME OneInstance, IInv, [Next]_vars PROVE IInv'
  OBVIOUS
<1>1. CASE WriterNext
  BY <1>1, WriterKeeps
<1>2. CASE ReaderNext
  <2>1. PICK i \in Instance : Drain(i) \/ DatabaseFails(i) \/ Crash(i) \/ Boot(i)
    BY <1>2 DEF ReaderNext
  <2>2. late' = late
    BY <1>2 DEF ReaderNext
  <2>3. loop[i] # "applying" => batch[i] = {} /\ batch = [batch EXCEPT ![i] = {}]
    BY DEF IInv, TypeOK
  <2>4. CASE ReadCheckpoint(i)
    BY <2>2, <2>3, <2>4, Loops DEF ReadCheckpoint
  <2>5. CASE ReadBatch(i)
    BY <2>2, <2>5, ReadBatchKeeps
  <2>6. CASE Apply(i)
    BY <2>2, <2>6, ApplyKeeps
  <2>7. CASE ProjectThrows(i) \/ DatabaseFails(i)
    BY <2>2, <2>7, Loops DEF ProjectThrows, DatabaseFails, Abandon
  <2>8. CASE Wake(i) \/ Boot(i)
    BY <2>2, <2>3, <2>8, Loops DEF Wake, Boot
  <2>9. CASE Crash(i)
    BY <2>2, <2>9, Loops DEF Crash
  <2> QED
    BY <2>1, <2>4, <2>5, <2>6, <2>7, <2>8, <2>9 DEF Drain
<1>3. CASE UNCHANGED vars
  BY <1>3 DEF vars, feed, reader, IInv, TypeOK, FeedTypeOK, Positions, AppliedRows, Fresh, Gapless,
              AppliedUpToCheckpoint, AppliedInOrder, NothingBeyondCheckpoint,
              OnlyLateRowsSkipped, NothingSkipped, Relevant, Handled, Ad, Effects
<1> QED
  BY <1>1, <1>2, <1>3 DEF Next

(* The inductive invariant, of every behaviour of one instance. *)
THEOREM Invariance == OneInstance => (Spec => []IInv)
<1> SUFFICES ASSUME OneInstance PROVE Spec => []IInv
  OBVIOUS
<1>1. IInv /\ [Next]_vars => IInv'
  BY StepKeeps
<1> QED
  BY <1>1, InitHolds, PTL DEF Spec

(* The log, the checkpoint and the loop stay within their types. *)
THEOREM TypeCorrect == OneInstance => (Spec => []TypeOK)
<1> SUFFICES ASSUME OneInstance PROVE Spec => []TypeOK
  OBVIOUS
<1>1. IInv => TypeOK
  BY DEF IInv
<1>2. Spec => []IInv
  BY Invariance
<1> QED
  BY <1>1, <1>2, PTL

(* drainOnce, "strictly in order, exactly once": no crash, error or        *)
(* restart makes the projection apply an event twice or out of order.      *)
THEOREM AppliedOnce == OneInstance => (Spec => []AppliedUpToCheckpoint)
<1> SUFFICES ASSUME OneInstance PROVE Spec => []AppliedUpToCheckpoint
  OBVIOUS
<1>1. IInv => AppliedUpToCheckpoint
  BY DEF IInv
<1>2. Spec => []IInv
  BY Invariance
<1> QED
  BY <1>1, <1>2, PTL

(* drainOnce never passes an event it should have applied, until a row     *)
(* commits at a position the projection has read past.                     *)
THEOREM SkipsOnlyLate == OneInstance => (Spec => []OnlyLateRowsSkipped)
<1> SUFFICES ASSUME OneInstance PROVE Spec => []OnlyLateRowsSkipped
  OBVIOUS
<1>1. IInv => OnlyLateRowsSkipped
  BY DEF IInv
<1>2. Spec => []IInv
  BY Invariance
<1> QED
  BY <1>1, <1>2, PTL

-----------------------------------------------------------------------------
(* The jobs.                                                               *)

(* What a step of a script writes.                                         *)
Value == {"none", "pending", "processing", "running", "stored", "created", "started", "step",
          "completed", "failed"}

AnyStep == [does : {"row", "append", "publish", "piece", "work", "limit"}, value : Value]

(* What scripts are made of.                                               *)
LEMMA Steps ==
  /\ \A v \in {"pending", "processing", "running", "stored", "completed", "failed"} :
       J!Set(v) \in AnyStep
  /\ \A v \in {"created", "started", "step", "completed", "failed"} : J!Tell(v) \in AnyStep
  /\ \A d \in {"publish", "piece", "work", "limit"} : J!Do(d) \in AnyStep
BY DEF AnyStep, Value, J!Set, J!Tell, J!Do

(* A job is of one kind.                                                   *)
LEMMA OneKind ==
  /\ \A j \in MediaJob : j \notin AiRun /\ j \notin Listing /\ j \notin Batch /\ j \notin Upload
  /\ \A j \in AiRun : j \notin MediaJob /\ j \notin Listing /\ j \notin Batch /\ j \notin Upload
  /\ \A j \in Listing : j \notin MediaJob /\ j \notin AiRun /\ j \notin Batch /\ j \notin Upload
  /\ \A j \in Batch : j \notin MediaJob /\ j \notin AiRun /\ j \notin Listing /\ j \notin Upload
  /\ \A j \in Upload : j \notin MediaJob /\ j \notin AiRun /\ j \notin Listing /\ j \notin Batch
  /\ Parts \in Nat /\ Parts > 0 /\ ListingSteps \in Nat /\ ListingSteps > 0
  /\ Drafting \subseteq Listing
BY JobsAssumption DEF J!JobRunsAssumption

(* createJob and processJob.                                               *)
LEMMA MediaScript ==
  ASSUME NEW j \in MediaJob
  PROVE  LET s == J!Script[j] IN
         /\ s \in Seq(AnyStep) /\ Len(s) = 10
         /\ s[1] = J!Set("pending") /\ s[2] = J!Tell("created") /\ s[3] = J!Do("publish")
         /\ s[4] = J!Set("processing") /\ s[5] = J!Do("work") /\ s[6] = J!Do("piece")
         /\ s[7] = J!Do("work") /\ s[8] = J!Set("completed") /\ s[9] = J!Tell("completed")
         /\ s[10] = J!Do("publish")
<1> DEFINE a == <<J!Set("processing")>>
           b == J!ProcessMedia
           c == <<J!Set("completed"), J!Tell("completed"), J!Do("publish")>>
           d == J!CreateJob
           e == J!ProcessJob
<1>1. a \in Seq(AnyStep) /\ b \in Seq(AnyStep) /\ c \in Seq(AnyStep) /\ d \in Seq(AnyStep)
  BY Steps DEF J!CreateJob, J!ProcessMedia
<1>2. /\ Len(a) = 1 /\ a[1] = J!Set("processing")
      /\ Len(b) = 3 /\ b[1] = J!Do("work") /\ b[2] = J!Do("piece") /\ b[3] = J!Do("work")
      /\ Len(c) = 3 /\ c[1] = J!Set("completed") /\ c[2] = J!Tell("completed")
      /\ c[3] = J!Do("publish")
      /\ Len(d) = 3 /\ d[1] = J!Set("pending") /\ d[2] = J!Tell("created") /\ d[3] = J!Do("publish")
  BY DEF J!CreateJob, J!ProcessMedia
<1>3. J!Script[j] = d \o e /\ e = a \o b \o c
  BY OneKind DEF J!Script, J!Job, J!ProcessJob
<1> HIDE DEF a, b, c, d, e
<1>4. /\ a \o b \in Seq(AnyStep) /\ Len(a \o b) = 4
      /\ \A i \in 1..4 : (a \o b)[i] = IF i <= 1 THEN a[i] ELSE b[i - 1]
  <2>1. /\ a \in Seq(AnyStep) /\ b \in Seq(AnyStep)
        /\ Len(a) = 1 /\ Len(a) + Len(b) = 4
    BY <1>1, <1>2
  <2>2. /\ a \o b \in Seq(AnyStep) /\ Len(a \o b) = Len(a) + Len(b)
        /\ \A i \in 1..(Len(a) + Len(b)) :
             (a \o b)[i] = IF i <= Len(a) THEN a[i] ELSE b[i - Len(a)]
    BY <2>1, ConcatProperties
  <2>. QED  BY <2>1, <2>2
<1> DEFINE f == a \o b
<1> HIDE DEF f
<1>5. /\ f \o c \in Seq(AnyStep) /\ Len(f \o c) = 7
      /\ \A i \in 1..7 : (f \o c)[i] = IF i <= 4 THEN f[i] ELSE c[i - 4]
  <2>1. /\ f \in Seq(AnyStep) /\ c \in Seq(AnyStep)
        /\ Len(f) = 4 /\ Len(f) + Len(c) = 7
    BY <1>1, <1>2, <1>4 DEF f
  <2>2. /\ f \o c \in Seq(AnyStep) /\ Len(f \o c) = Len(f) + Len(c)
        /\ \A i \in 1..(Len(f) + Len(c)) :
             (f \o c)[i] = IF i <= Len(f) THEN f[i] ELSE c[i - Len(f)]
    BY <2>1, ConcatProperties
  <2>. QED  BY <2>1, <2>2
<1>6. e = f \o c
  BY <1>3 DEF f
<1>7. /\ d \o e \in Seq(AnyStep) /\ Len(d \o e) = 10
      /\ \A i \in 1..10 : (d \o e)[i] = IF i <= 3 THEN d[i] ELSE e[i - 3]
  <2>1. /\ d \in Seq(AnyStep) /\ e \in Seq(AnyStep)
        /\ Len(d) = 3 /\ Len(d) + Len(e) = 10
    BY <1>1, <1>2, <1>5, <1>6
  <2>2. /\ d \o e \in Seq(AnyStep) /\ Len(d \o e) = Len(d) + Len(e)
        /\ \A i \in 1..(Len(d) + Len(e)) :
             (d \o e)[i] = IF i <= Len(d) THEN d[i] ELSE e[i - Len(d)]
    BY <2>1, ConcatProperties
  <2>. QED  BY <2>1, <2>2
<1>8. /\ f[1] = a[1] /\ f[2] = b[1] /\ f[3] = b[2] /\ f[4] = b[3]
  BY <1>4 DEF f
<1>9. /\ e[1] = f[1] /\ e[2] = f[2] /\ e[3] = f[3] /\ e[4] = f[4]
      /\ e[5] = c[1] /\ e[6] = c[2] /\ e[7] = c[3]
  <2>1. \A i \in 1..7 : e[i] = IF i <= 4 THEN f[i] ELSE c[i - 4]
    BY <1>5, <1>6
  <2>. QED  BY <2>1
<1> DEFINE g == d \o e
<1> HIDE DEF g
<1>10. \A i \in 1..10 : g[i] = IF i <= 3 THEN d[i] ELSE e[i - 3]
  BY <1>7 DEF g
<1>11. /\ g[1] = d[1] /\ g[2] = d[2] /\ g[3] = d[3] /\ g[4] = e[1] /\ g[5] = e[2]
       /\ g[6] = e[3] /\ g[7] = e[4] /\ g[8] = e[5] /\ g[9] = e[6] /\ g[10] = e[7]
  BY <1>10
<1>. QED  BY <1>2, <1>3, <1>7, <1>8, <1>9, <1>11 DEF g

(* executeWithContext and the orchestrator.                                *)
LEMMA RunScript ==
  ASSUME NEW j \in AiRun
  PROVE  LET s == J!Script[j] IN
         /\ s \in Seq(AnyStep) /\ Len(s) = 7
         /\ s[1] = J!Do("limit") /\ s[2] = J!Set("running") /\ s[3] = J!Tell("started")
         /\ s[4] = J!Do("work") /\ s[5] = J!Set("completed") /\ s[6] = J!Tell("completed")
         /\ s[7] = J!Do("work")
<1> DEFINE a == <<J!Do("limit")>>
           b == J!Orchestrate
<1>1. a \in Seq(AnyStep) /\ b \in Seq(AnyStep)
  BY Steps DEF J!Orchestrate
<1>2. /\ Len(a) = 1 /\ a[1] = J!Do("limit")
      /\ Len(b) = 6 /\ b[1] = J!Set("running") /\ b[2] = J!Tell("started") /\ b[3] = J!Do("work")
      /\ b[4] = J!Set("completed") /\ b[5] = J!Tell("completed") /\ b[6] = J!Do("work")
  BY DEF J!Orchestrate
<1>3. J!Script[j] = a \o b
  BY OneKind DEF J!Script, J!Job, J!Execute
<1> HIDE DEF a, b
<1>4. /\ a \o b \in Seq(AnyStep) /\ Len(a \o b) = 7
      /\ \A i \in 1..7 : (a \o b)[i] = IF i <= 1 THEN a[i] ELSE b[i - 1]
  <2>1. /\ a \in Seq(AnyStep) /\ b \in Seq(AnyStep)
        /\ Len(a) = 1 /\ Len(a) + Len(b) = 7
    BY <1>1, <1>2
  <2>2. /\ a \o b \in Seq(AnyStep) /\ Len(a \o b) = Len(a) + Len(b)
        /\ \A i \in 1..(Len(a) + Len(b)) :
             (a \o b)[i] = IF i <= Len(a) THEN a[i] ELSE b[i - Len(a)]
    BY <2>1, ConcatProperties
  <2>. QED  BY <2>1, <2>2
<1> DEFINE g == a \o b
<1> HIDE DEF g
<1>5. \A i \in 1..7 : g[i] = IF i <= 1 THEN a[i] ELSE b[i - 1]
  BY <1>4 DEF g
<1>6. /\ g[1] = a[1] /\ g[2] = b[1] /\ g[3] = b[2] /\ g[4] = b[3] /\ g[5] = b[4]
      /\ g[6] = b[5] /\ g[7] = b[6]
  BY <1>5
<1>. QED  BY <1>2, <1>3, <1>4, <1>6 DEF g

(* What a sequence repeated n times has at each place.                     *)
LEMMA TimesIs ==
  ASSUME NEW n \in Nat, NEW s \in Seq(AnyStep), s # <<>>
  PROVE  /\ J!Times(n, s) \in Seq(AnyStep) /\ Len(J!Times(n, s)) = n * Len(s)
         /\ \A i \in 1..(n * Len(s)) : J!Times(n, s)[i] = s[1 + ((i - 1) % Len(s))]
<1> DEFINE m == Len(s)
           l == n * m
<1>0. m \in Nat \ {0}
  BY EmptySeq, LenProperties
<1> HIDE DEF m
<1>1. l \in Nat
  BY <1>0
<1> HIDE DEF l
<1>2. J!Times(n, s) = [i \in 1..l |-> s[1 + ((i - 1) % m)]]
  BY DEF J!Times, l, m
<1>3. \A i \in 1..l : (i - 1) % m \in 0..(m - 1)
  BY <1>0, <1>1
<1>4. \A i \in 0..(m - 1) : s[1 + i] \in AnyStep
  <2>1. \A i \in 0..(m - 1) : 1 + i \in 1..m
    BY <1>0
  <2>. QED  BY <2>1, ElementOfSeq DEF m
<1>5. \A i \in 1..l : s[1 + ((i - 1) % m)] \in AnyStep
  BY <1>3, <1>4
<1>6. J!Times(n, s) \in Seq(AnyStep) /\ Len(J!Times(n, s)) = l
  BY <1>1, <1>2, <1>5
<1>. QED  BY <1>2, <1>6 DEF l, m

(* RunPipeline: between its three first steps and its four last ones, the  *)
(* pipeline's steps work, tell and publish.                                *)
LEMMA ListingScript ==
  ASSUME NEW j \in Listing
  PROVE  LET s == J!Script[j]
             n == 3 * ListingSteps IN
         /\ s \in Seq(AnyStep) /\ Len(s) = n + 7
         /\ s[1] = J!Set("running") /\ s[2] = J!Tell("started") /\ s[3] = J!Do("publish")
         /\ \A i \in 4..(n + 3) :
              IF i % 3 = 2 THEN s[i] = J!Tell("step") ELSE s[i] \in {J!Do("work"), J!Do("publish")}
         /\ s[n + 4] = J!Do(IF j \in Drafting THEN "piece" ELSE "work") /\ s[n + 5] = J!Set("completed")
         /\ s[n + 6] = J!Tell("completed") /\ s[n + 7] = J!Do("publish")
<1> DEFINE a == <<J!Set("running"), J!Tell("started"), J!Do("publish")>>
           t == <<J!Do("work"), J!Tell("step"), J!Do("publish")>>
           b == J!Times(ListingSteps, t)
           d == J!Do(IF j \in Drafting THEN "piece" ELSE "work")
           c == <<d, J!Set("completed"), J!Tell("completed"), J!Do("publish")>>
           n == 3 * ListingSteps
<1>0. n \in Nat /\ n = ListingSteps * 3 /\ ListingSteps \in Nat
  BY OneKind
<1>1. a \in Seq(AnyStep) /\ t \in Seq(AnyStep) /\ c \in Seq(AnyStep)
  BY Steps
<1>2. /\ Len(a) = 3 /\ a[1] = J!Set("running") /\ a[2] = J!Tell("started") /\ a[3] = J!Do("publish")
      /\ Len(t) = 3 /\ t[1] = J!Do("work") /\ t[2] = J!Tell("step") /\ t[3] = J!Do("publish")
      /\ Len(c) = 4 /\ c[1] = d /\ c[2] = J!Set("completed")
      /\ c[3] = J!Tell("completed") /\ c[4] = J!Do("publish")
  OBVIOUS
<1>3. J!Script[j] = a \o b \o c
  BY OneKind DEF J!Script, J!Job, J!RunPipeline
<1> HIDE DEF a, b, c, d, t, n
<1>4. /\ b \in Seq(AnyStep) /\ Len(b) = n
      /\ \A i \in 1..n : b[i] = t[1 + ((i - 1) % 3)]
  <2>0. Len(t) = 3 /\ ListingSteps * 3 = n
    BY <1>0, <1>2
  <2>1. t \in Seq(AnyStep) /\ t # <<>> /\ Len(t) = 3 /\ ListingSteps * Len(t) = n
    <3>1. t # <<>>
      BY <2>0
    <3>2. ListingSteps * Len(t) = n
      BY <2>0, Zenon
    <3>. QED  BY <1>1, <2>0, <3>1, <3>2
  <2>2. /\ b \in Seq(AnyStep) /\ Len(b) = ListingSteps * Len(t)
        /\ \A i \in 1..(ListingSteps * Len(t)) : b[i] = t[1 + ((i - 1) % Len(t))]
    BY <1>0, <2>1, TimesIs, Zenon DEF b
  <2>. QED  BY <2>1, <2>2
<1>5. \A i \in 1..n :
        IF (i + 3) % 3 = 2 THEN b[i] = J!Tell("step") ELSE b[i] \in {J!Do("work"), J!Do("publish")}
  <2>1. \A i \in 1..n : IF (i + 3) % 3 = 2 THEN 1 + ((i - 1) % 3) = 2
                                         ELSE 1 + ((i - 1) % 3) \in {1, 3}
    BY <1>0
  <2>. QED  BY <1>2, <1>4, <2>1
<1>6. /\ a \o b \in Seq(AnyStep) /\ Len(a \o b) = (n + 3)
      /\ \A i \in 1..(n + 3) : (a \o b)[i] = IF i <= 3 THEN a[i] ELSE b[i - 3]
  <2>1. /\ a \in Seq(AnyStep) /\ b \in Seq(AnyStep)
        /\ Len(a) = 3 /\ Len(a) + Len(b) = (n + 3)
    BY <1>0, <1>1, <1>2, <1>4
  <2>2. /\ a \o b \in Seq(AnyStep) /\ Len(a \o b) = Len(a) + Len(b)
        /\ \A i \in 1..(Len(a) + Len(b)) :
             (a \o b)[i] = IF i <= Len(a) THEN a[i] ELSE b[i - Len(a)]
    BY <2>1, ConcatProperties
  <2>. QED  BY <2>1, <2>2
<1> DEFINE f == a \o b
<1> HIDE DEF f
<1>7. /\ f \o c \in Seq(AnyStep) /\ Len(f \o c) = (n + 7)
      /\ \A i \in 1..(n + 7) : (f \o c)[i] = IF i <= (n + 3) THEN f[i] ELSE c[i - (n + 3)]
  <2>1. /\ f \in Seq(AnyStep) /\ c \in Seq(AnyStep)
        /\ Len(f) = (n + 3) /\ Len(f) + Len(c) = (n + 7)
    BY <1>0, <1>1, <1>2, <1>6 DEF f
  <2>2. /\ f \o c \in Seq(AnyStep) /\ Len(f \o c) = Len(f) + Len(c)
        /\ \A i \in 1..(Len(f) + Len(c)) :
             (f \o c)[i] = IF i <= Len(f) THEN f[i] ELSE c[i - Len(f)]
    BY <2>1, ConcatProperties
  <2>. QED  BY <2>1, <2>2
<1> DEFINE g == f \o c
<1> HIDE DEF g
<1>8. /\ \A i \in 1..(n + 3) : f[i] = IF i <= 3 THEN a[i] ELSE b[i - 3]
      /\ \A i \in 1..(n + 7) : g[i] = IF i <= n + 3 THEN f[i] ELSE c[i - (n + 3)]
  BY <1>6, <1>7 DEF f, g
<1>9. /\ f[1] = a[1] /\ f[2] = a[2] /\ f[3] = a[3]
      /\ \A i \in 4..(n + 3) : f[i] = b[i - 3] /\ i - 3 \in 1..n /\ (i - 3) + 3 = i
  BY <1>0, <1>8
<1>10. /\ \A i \in 1..(n + 3) : g[i] = f[i]
       /\ g[n + 4] = c[1] /\ g[n + 5] = c[2] /\ g[n + 6] = c[3] /\ g[n + 7] = c[4]
  BY <1>0, <1>8
<1>11. J!Script[j] = g /\ {1, 2, 3} \subseteq 1..(n + 3) /\ 4..(n + 3) \subseteq 1..(n + 3)
  BY <1>0, <1>3 DEF f, g
<1>12. g \in Seq(AnyStep) /\ Len(g) = n + 7
  BY <1>7 DEF g
<1>13. \A i \in 4..(n + 3) :
         IF i % 3 = 2 THEN f[i] = J!Tell("step") ELSE f[i] \in {J!Do("work"), J!Do("publish")}
  BY <1>5, <1>9
<1>. QED  BY <1>2, <1>9, <1>10, <1>11, <1>12, <1>13 DEF n, d

(* PublishBatch: four steps for each region.                               *)
LEMMA BatchScript ==
  ASSUME NEW j \in Batch
  PROVE  LET s == J!Script[j]
             n == 4 * Parts IN
         /\ s \in Seq(AnyStep) /\ Len(s) = n + 2
         /\ s[1] = J!Tell("started") /\ s[2] = J!Do("publish")
         /\ \A k \in 0..(Parts - 1) :
              /\ s[4 * k + 3] = J!Do("work") /\ s[4 * k + 4] = J!Do("piece")
              /\ s[4 * k + 5] = J!Tell("step") /\ s[4 * k + 6] = J!Do("publish")
<1> DEFINE a == <<J!Tell("started"), J!Do("publish")>>
           t == <<J!Do("work"), J!Do("piece"), J!Tell("step"), J!Do("publish")>>
           b == J!Times(Parts, t)
           n == 4 * Parts
<1>0. n \in Nat /\ n = Parts * 4 /\ Parts \in Nat
  BY OneKind
<1>1. a \in Seq(AnyStep) /\ t \in Seq(AnyStep)
  BY Steps
<1>2. /\ Len(a) = 2 /\ a[1] = J!Tell("started") /\ a[2] = J!Do("publish")
      /\ Len(t) = 4 /\ t[1] = J!Do("work") /\ t[2] = J!Do("piece") /\ t[3] = J!Tell("step")
      /\ t[4] = J!Do("publish")
  OBVIOUS
<1>3. J!Script[j] = a \o b
  BY OneKind DEF J!Script, J!Job, J!PublishBatch
<1>12. \A k \in 0..(Parts - 1) : {4 * k + 1, 4 * k + 2, 4 * k + 3, 4 * k + 4} \subseteq 1..n
  BY <1>0
<1> HIDE DEF a, b, t, n
<1>4. /\ b \in Seq(AnyStep) /\ Len(b) = n
      /\ \A i \in 1..n : b[i] = t[1 + ((i - 1) % 4)]
  <2>0. Len(t) = 4 /\ Parts * 4 = n
    BY <1>0, <1>2
  <2>1. t # <<>>
    BY <2>0
  <2>2. Parts * Len(t) = n
    BY <2>0, Zenon
  <2>3. /\ b \in Seq(AnyStep) /\ Len(b) = Parts * Len(t)
        /\ \A i \in 1..(Parts * Len(t)) : b[i] = t[1 + ((i - 1) % Len(t))]
    BY <1>0, <1>1, <2>1, TimesIs, Zenon DEF b
  <2>. QED  BY <2>0, <2>2, <2>3
<1>5. \A k \in 0..(Parts - 1) :
        /\ b[4 * k + 1] = t[1] /\ b[4 * k + 2] = t[2] /\ b[4 * k + 3] = t[3] /\ b[4 * k + 4] = t[4]
  <2>1. \A k \in 0..(Parts - 1) :
          /\ ((4 * k + 1) - 1) % 4 = 0 /\ ((4 * k + 2) - 1) % 4 = 1
          /\ ((4 * k + 3) - 1) % 4 = 2 /\ ((4 * k + 4) - 1) % 4 = 3
    BY <1>0
  <2>. QED  BY <1>4, <1>12, <2>1
<1>6. /\ a \o b \in Seq(AnyStep) /\ Len(a \o b) = (n + 2)
      /\ \A i \in 1..(n + 2) : (a \o b)[i] = IF i <= 2 THEN a[i] ELSE b[i - 2]
  <2>1. /\ a \in Seq(AnyStep) /\ b \in Seq(AnyStep)
        /\ Len(a) = 2 /\ Len(a) + Len(b) = (n + 2)
    BY <1>0, <1>1, <1>2, <1>4
  <2>2. /\ a \o b \in Seq(AnyStep) /\ Len(a \o b) = Len(a) + Len(b)
        /\ \A i \in 1..(Len(a) + Len(b)) :
             (a \o b)[i] = IF i <= Len(a) THEN a[i] ELSE b[i - Len(a)]
    BY <2>1, ConcatProperties
  <2>. QED  BY <2>1, <2>2
<1> DEFINE g == a \o b
<1> HIDE DEF g
<1>7. \A i \in 1..(n + 2) : g[i] = IF i <= 2 THEN a[i] ELSE b[i - 2]
  BY <1>6 DEF g
<1>8. g[1] = a[1] /\ g[2] = a[2] /\ \A i \in 1..n : g[i + 2] = b[i]
  BY <1>0, <1>7
<1>9. \A k \in 0..(Parts - 1) :
        /\ g[(4 * k + 1) + 2] = t[1] /\ g[(4 * k + 2) + 2] = t[2]
        /\ g[(4 * k + 3) + 2] = t[3] /\ g[(4 * k + 4) + 2] = t[4]
  BY <1>5, <1>8, <1>12
<1>10. \A k \in 0..(Parts - 1) :
         /\ (4 * k + 1) + 2 = 4 * k + 3 /\ (4 * k + 2) + 2 = 4 * k + 4
         /\ (4 * k + 3) + 2 = 4 * k + 5 /\ (4 * k + 4) + 2 = 4 * k + 6
  BY <1>0
<1>11. J!Script[j] = g /\ g \in Seq(AnyStep) /\ Len(g) = n + 2
  BY <1>3, <1>6 DEF g
<1>. QED  BY <1>2, <1>8, <1>9, <1>10, <1>11 DEF n

(* UploadDocument: a chunk in each step between the first four and the     *)
(* last four.                                                              *)
LEMMA UploadScript ==
  ASSUME NEW j \in Upload
  PROVE  LET s == J!Script[j]
             n == Parts IN
         /\ s \in Seq(AnyStep) /\ Len(s) = n + 8
         /\ s[1] = J!Do("work") /\ s[2] = J!Set("stored") /\ s[3] = J!Tell("started")
         /\ s[4] = J!Do("publish")
         /\ \A i \in 5..(n + 4) : s[i] = J!Do("piece")
         /\ s[n + 5] = J!Set("completed") /\ s[n + 6] = J!Do("work")
         /\ s[n + 7] = J!Tell("completed") /\ s[n + 8] = J!Do("publish")
<1> DEFINE a == <<J!Do("work"), J!Set("stored"), J!Tell("started"), J!Do("publish")>>
           t == <<J!Do("piece")>>
           b == J!Times(Parts, t)
           c == <<J!Set("completed"), J!Do("work"), J!Tell("completed"), J!Do("publish")>>
           n == Parts
<1>0. n \in Nat /\ Parts \in Nat
  BY OneKind
<1>1. a \in Seq(AnyStep) /\ t \in Seq(AnyStep) /\ c \in Seq(AnyStep)
  BY Steps
<1>2. /\ Len(a) = 4 /\ a[1] = J!Do("work") /\ a[2] = J!Set("stored") /\ a[3] = J!Tell("started")
      /\ a[4] = J!Do("publish")
      /\ Len(t) = 1 /\ t[1] = J!Do("piece")
      /\ Len(c) = 4 /\ c[1] = J!Set("completed") /\ c[2] = J!Do("work")
      /\ c[3] = J!Tell("completed") /\ c[4] = J!Do("publish")
  OBVIOUS
<1>3. J!Script[j] = a \o b \o c
  BY OneKind DEF J!Script, J!Job, J!UploadDocument
<1> HIDE DEF a, b, c, t
<1>4. /\ b \in Seq(AnyStep) /\ Len(b) = n
      /\ \A i \in 1..n : b[i] = J!Do("piece")
  <2>0. Len(t) = 1 /\ Parts * 1 = n
    BY <1>0, <1>2
  <2>1. t # <<>>
    BY <2>0
  <2>2. Parts * Len(t) = n
    BY <2>0, Zenon
  <2>3. /\ b \in Seq(AnyStep) /\ Len(b) = Parts * Len(t)
        /\ \A i \in 1..(Parts * Len(t)) : b[i] = t[1 + ((i - 1) % Len(t))]
    BY <1>0, <1>1, <2>1, TimesIs, Zenon DEF b
  <2>4. \A i \in 1..n : 1 + ((i - 1) % 1) = 1
    BY <1>0
  <2>5. /\ b \in Seq(AnyStep) /\ Len(b) = n
        /\ \A i \in 1..n : b[i] = t[1 + ((i - 1) % 1)]
    BY <2>0, <2>2, <2>3, Zenon
  <2>. QED  BY <1>2, <2>4, <2>5
<1> HIDE DEF n
<1>6. /\ a \o b \in Seq(AnyStep) /\ Len(a \o b) = (n + 4)
      /\ \A i \in 1..(n + 4) : (a \o b)[i] = IF i <= 4 THEN a[i] ELSE b[i - 4]
  <2>1. /\ a \in Seq(AnyStep) /\ b \in Seq(AnyStep)
        /\ Len(a) = 4 /\ Len(a) + Len(b) = (n + 4)
    BY <1>0, <1>1, <1>2, <1>4
  <2>2. /\ a \o b \in Seq(AnyStep) /\ Len(a \o b) = Len(a) + Len(b)
        /\ \A i \in 1..(Len(a) + Len(b)) :
             (a \o b)[i] = IF i <= Len(a) THEN a[i] ELSE b[i - Len(a)]
    BY <2>1, ConcatProperties
  <2>. QED  BY <2>1, <2>2
<1> DEFINE f == a \o b
<1> HIDE DEF f
<1>7. /\ f \o c \in Seq(AnyStep) /\ Len(f \o c) = (n + 8)
      /\ \A i \in 1..(n + 8) : (f \o c)[i] = IF i <= (n + 4) THEN f[i] ELSE c[i - (n + 4)]
  <2>1. /\ f \in Seq(AnyStep) /\ c \in Seq(AnyStep)
        /\ Len(f) = (n + 4) /\ Len(f) + Len(c) = (n + 8)
    BY <1>0, <1>1, <1>2, <1>6 DEF f
  <2>2. /\ f \o c \in Seq(AnyStep) /\ Len(f \o c) = Len(f) + Len(c)
        /\ \A i \in 1..(Len(f) + Len(c)) :
             (f \o c)[i] = IF i <= Len(f) THEN f[i] ELSE c[i - Len(f)]
    BY <2>1, ConcatProperties
  <2>. QED  BY <2>1, <2>2
<1> DEFINE g == f \o c
<1> HIDE DEF g
<1>8. /\ \A i \in 1..(n + 4) : f[i] = IF i <= 4 THEN a[i] ELSE b[i - 4]
      /\ \A i \in 1..(n + 8) : g[i] = IF i <= n + 4 THEN f[i] ELSE c[i - (n + 4)]
  BY <1>6, <1>7 DEF f, g
<1>9. /\ f[1] = a[1] /\ f[2] = a[2] /\ f[3] = a[3] /\ f[4] = a[4]
      /\ \A i \in 5..(n + 4) : f[i] = b[i - 4] /\ i - 4 \in 1..n
  BY <1>0, <1>8
<1>10. /\ \A i \in 1..(n + 4) : g[i] = f[i]
       /\ g[n + 5] = c[1] /\ g[n + 6] = c[2] /\ g[n + 7] = c[3] /\ g[n + 8] = c[4]
  BY <1>0, <1>8
<1>11. J!Script[j] = g /\ {1, 2, 3, 4} \subseteq 1..(n + 4) /\ 5..(n + 4) \subseteq 1..(n + 4)
  BY <1>0, <1>3 DEF f, g
<1>12. g \in Seq(AnyStep) /\ Len(g) = n + 8
  BY <1>7 DEF g
<1>. QED  BY <1>2, <1>4, <1>9, <1>10, <1>11, <1>12 DEF n

(* The catch of each kind.                                                 *)
LEMMA Handlers ==
  /\ \A j \in MediaJob : /\ Len(J!Handler[j]) = 3 /\ J!Handler[j][1] = J!Set("failed")
                         /\ J!Handler[j][2] = J!Tell("failed") /\ J!Handler[j][3] = J!Do("publish")
  /\ \A j \in J!Job \ MediaJob : /\ Len(J!Handler[j]) = 2 /\ J!Handler[j][1] = J!Set("failed")
                                  /\ J!Handler[j][2] = J!Tell("failed")
BY DEF J!Handler, J!Job

-----------------------------------------------------------------------------
(* How often an event is in a stream.                                      *)
ToldIn(t, e) == Cardinality({i \in DOMAIN t : t[i] = e})

(* A media job: what its row, stream and asset say at each step, and what  *)
(* holds of them for good.                                                 *)
MediaIs(p, s, r, t, n) ==
  /\ ToldIn(t, "started") = 0 /\ ToldIn(t, "step") = 0
  /\ ToldIn(t, "created") \in 0..1 /\ ToldIn(t, "completed") \in 0..1 /\ ToldIn(t, "failed") \in 0..1
  /\ n \in 0..1
  /\ ToldIn(t, "completed") > 0 => r \in {"completed", "failed"}
  /\ ToldIn(t, "failed") > 0 => r = "failed" /\ t[Len(t)] = "failed"
  /\ r = "completed" \/ ToldIn(t, "completed") > 0 => n = 1
  /\ p # "refused"
  /\ p = "idle" => r = "none" /\ t = <<>> /\ n = 0
  /\ p = "script" =>
       /\ r = IF s = 1 THEN "none" ELSE IF s <= 4 THEN "pending" ELSE IF s <= 8 THEN "processing"
              ELSE "completed"
       /\ ToldIn(t, "created") = IF s <= 2 THEN 0 ELSE 1
       /\ ToldIn(t, "completed") = IF s <= 9 THEN 0 ELSE 1
       /\ ToldIn(t, "failed") = 0
       /\ n = IF s <= 6 THEN 0 ELSE 1
       /\ s = 10 => t # <<>> /\ t[Len(t)] = "completed"
  /\ p = "catch" =>
       /\ r \in {"processing", "completed", "failed"}
       /\ s > 1 => r = "failed"
       /\ ToldIn(t, "failed") = IF s <= 2 THEN 0 ELSE 1
       /\ s = 3 => t # <<>>
  /\ p = "done" => r \in {"completed", "failed"} /\ t # <<>> /\ t[Len(t)] = r
  /\ p = "thrown" => r \in {"none", "pending"}

(* An AI run: its publisher may swallow what an append throws, so that the *)
(* stream may lack what the row says, but not the other way round.         *)
RunIs(p, s, r, t, n, f) ==
  /\ ToldIn(t, "created") = 0 /\ ToldIn(t, "step") = 0 /\ n = 0
  /\ ToldIn(t, "started") \in 0..1 /\ ToldIn(t, "completed") \in 0..1 /\ ToldIn(t, "failed") \in 0..1
  /\ ToldIn(t, "completed") > 0 => r \in {"completed", "failed"}
  /\ ToldIn(t, "failed") > 0 => r \in {"failed", "none"} /\ t[Len(t)] = "failed"
  /\ p \in {"idle", "refused"} => r = "none"
  /\ p = "idle" => t = <<>>
  /\ p = "script" =>
       /\ r = IF s <= 2 THEN "none" ELSE IF s <= 5 THEN "running" ELSE "completed"
       /\ s <= 3 => ToldIn(t, "started") = 0
       /\ s <= 6 => ToldIn(t, "completed") = 0
       /\ ToldIn(t, "failed") = 0
  /\ p = "catch" =>
       /\ r \in {"none", "running", "completed", "failed"} /\ ToldIn(t, "failed") = 0
       /\ s > 1 => r \in {"failed", "none"}
       /\ f >= 1
  /\ p = "done" => r = "completed"
  /\ p = "thrown" /\ r \in {"running", "completed"} => f >= 2

(* A listing pipeline, whose steps end before its l-th: every third of     *)
(* them tells.  It makes d drafts.                                         *)
ListingIs(p, s, r, t, n, l, d) ==
  /\ ToldIn(t, "created") = 0 /\ ToldIn(t, "failed") = 0
  /\ ToldIn(t, "started") \in 0..1 /\ ToldIn(t, "completed") \in 0..1 /\ n \in 0..1
  /\ ToldIn(t, "completed") > 0 => r = "completed"
  /\ r = "completed" => n = d /\ ToldIn(t, "step") = (l - 3) \div 3
  /\ r \in {"none", "running", "completed"} /\ p \notin {"catch", "refused"}
  /\ p = "idle" => r = "none" /\ t = <<>> /\ n = 0
  /\ p = "script" =>
       /\ r = IF s = 1 THEN "none" ELSE IF s <= l + 1 THEN "running" ELSE "completed"
       /\ ToldIn(t, "started") = IF s <= 2 THEN 0 ELSE 1
       /\ ToldIn(t, "step") = IF s <= 3 THEN 0 ELSE IF s <= l THEN (s - 3) \div 3 ELSE (l - 3) \div 3
       /\ ToldIn(t, "completed") = IF s <= l + 2 THEN 0 ELSE 1
       /\ n = IF s <= l THEN 0 ELSE d

(* The drafts of a listing.                                                *)
Drafts(j) == IF j \in Drafting THEN 1 ELSE 0

LEMMA DraftsFew == \A j : Drafts(j) \in 0..1
BY DEF Drafts

(* A regional batch: a draft is made before its event is appended.         *)
BatchIs(p, s, r, t, n) ==
  /\ ToldIn(t, "created") = 0 /\ ToldIn(t, "failed") = 0 /\ ToldIn(t, "completed") = 0
  /\ ToldIn(t, "started") \in 0..1 /\ n \in 0..Parts
  /\ n - ToldIn(t, "step") \in 0..1
  /\ r = "none" /\ p \notin {"catch", "refused"}
  /\ p = "idle" => t = <<>> /\ n = 0
  /\ p = "script" =>
       /\ ToldIn(t, "started") = IF s = 1 THEN 0 ELSE 1
       /\ s <= 2 => n = 0 /\ ToldIn(t, "step") = 0
       /\ s > 2 => \/ s \in {4 * n + 2, 4 * n + 3, 4 * n + 4} /\ ToldIn(t, "step") = n
                   \/ s = 4 * n + 1 /\ ToldIn(t, "step") = n - 1

(* An upload: it counts its chunks.                                        *)
UploadIs(p, s, r, t, n) ==
  /\ ToldIn(t, "created") = 0 /\ ToldIn(t, "failed") = 0 /\ ToldIn(t, "step") = 0
  /\ ToldIn(t, "started") \in 0..1 /\ ToldIn(t, "completed") \in 0..1 /\ n \in 0..Parts
  /\ ToldIn(t, "completed") > 0 => r = "completed"
  /\ r = "completed" => n = Parts
  /\ r \in {"none", "stored", "completed"} /\ p \notin {"catch", "refused"}
  /\ p = "idle" => r = "none" /\ t = <<>> /\ n = 0
  /\ p = "script" =>
       /\ r = IF s <= 2 THEN "none" ELSE IF s <= Parts + 5 THEN "stored" ELSE "completed"
       /\ ToldIn(t, "started") = IF s <= 3 THEN 0 ELSE 1
       /\ ToldIn(t, "completed") = IF s <= Parts + 7 THEN 0 ELSE 1
       /\ n = IF s <= 5 THEN 0 ELSE IF s <= Parts + 5 THEN s - 5 ELSE Parts

(* What a job looks like, by its kind.                                     *)
JobIs(j) ==
  LET p == path[j]
      s == step[j]
      r == row[j]
      t == stream[j]
      n == pieces[j] IN
  /\ j \in MediaJob => MediaIs(p, s, r, t, n)
  /\ j \in AiRun => RunIs(p, s, r, t, n, faults)
  /\ j \in Listing => ListingIs(p, s, r, t, n, 3 * ListingSteps + 4, Drafts(j))
  /\ j \in Batch => BatchIs(p, s, r, t, n)
  /\ j \in Upload => UploadIs(p, s, r, t, n)

(* Where a job can be: the index is back at 1 when it has ended.           *)
StepInRange(j) ==
  /\ path[j] = "script" => step[j] \in 1..Len(J!Script[j])
  /\ path[j] = "catch" => j \in MediaJob \cup AiRun /\ step[j] \in 1..Len(J!Handler[j])
  /\ ~J!Running(j) => step[j] = 1

JobsTyped ==
  /\ row \in [J!Job -> J!Status] /\ stream \in [J!Job -> Seq(J!Event)]
  /\ pieces \in [J!Job -> Nat] /\ step \in [J!Job -> Nat]
  /\ path \in [J!Job -> {"idle", "script", "catch"} \cup J!Ended]
  /\ faults \in 0..MaxFaults

(* Who has passed the check of the limit and has no row yet.               *)
Passing == {j \in AiRun : path[j] = "script" /\ step[j] > 1 /\ row[j] = "none"}

(* The limit is counted out between the rows that are there and the runs   *)
(* that are on their way to one.                                           *)
LimitCounted ==
  /\ Cardinality({j \in J!Job : J!Running(j)}) <= Slots
  /\ Cardinality(J!Recent) + Cardinality(Passing) <= DailyLimit + Slots

JobsInv ==
  /\ JobsTyped
  /\ \A j \in J!Job : StepInRange(j) /\ JobIs(j)
  /\ LimitCounted

-----------------------------------------------------------------------------
(* What an append adds to a stream.                                        *)
LEMMA ToldMore ==
  ASSUME NEW t \in Seq(J!Event), NEW e \in J!Event
  PROVE  /\ Append(t, e) \in Seq(J!Event) /\ Append(t, e) # <<>>
         /\ Append(t, e)[Len(Append(t, e))] = e
         /\ \A f \in J!Event : ToldIn(t, f) \in Nat
                             /\ ToldIn(Append(t, e), f) = ToldIn(t, f) + IF f = e THEN 1 ELSE 0
<1> DEFINE u == Append(t, e)
           m == Len(t)
           T(f) == {i \in DOMAIN t : t[i] = f}
           U(f) == {i \in DOMAIN u : u[i] = f}
<1>1. /\ m \in Nat /\ DOMAIN t = 1..m /\ u \in Seq(J!Event) /\ Len(u) = m + 1
      /\ DOMAIN u = 1..(m + 1) /\ u[m + 1] = e /\ \A i \in 1..m : u[i] = t[i]
  BY AppendProperties, LenProperties
<1> HIDE DEF u, m
<1>2. u # <<>> /\ u[Len(u)] = e
  BY <1>1
<1>3. ASSUME NEW f \in J!Event
      PROVE  ToldIn(t, f) \in Nat /\ ToldIn(u, f) = ToldIn(t, f) + IF f = e THEN 1 ELSE 0
  <2>1. IsFiniteSet(T(f)) /\ Cardinality(T(f)) \in Nat
    <3>1. IsFiniteSet(1..m) /\ T(f) \subseteq 1..m
      BY <1>1, FS_Interval
    <3>. QED  BY <3>1, FS_Subset, FS_CardinalityType
  <2>2. m + 1 \notin T(f)
    BY <1>1
  <2>3. U(f) = IF f = e THEN T(f) \cup {m + 1} ELSE T(f)
    BY <1>1
  <2>4. Cardinality(U(f)) = Cardinality(T(f)) + IF f = e THEN 1 ELSE 0
    <3>1. CASE f = e
      <4>1. U(f) = T(f) \cup {m + 1}
        BY <2>3, <3>1
      <4>. HIDE DEF T, U
      <4>2. Cardinality(U(f)) = Cardinality(T(f)) + 1
        BY <2>1, <2>2, <4>1, FS_AddElement
      <4>. QED  BY <3>1, <4>2
    <3>2. CASE f # e
      <4>1. U(f) = T(f)
        BY <2>3, <3>2
      <4>2. Cardinality(U(f)) = Cardinality(T(f))
        BY <4>1, Zenon
      <4>. HIDE DEF T, U
      <4>. QED  BY <2>1, <3>2, <4>2
    <3>. QED  BY <3>1, <3>2
  <2>. QED  BY <2>1, <2>4, Zenon DEF ToldIn
<1>. QED  BY <1>1, <1>2, <1>3 DEF u

(* A stream nobody has told anything.                                      *)
LEMMA ToldNothing == \A e : ToldIn(<<>>, e) = 0
<1>1. \A e : {i \in DOMAIN <<>> : <<>>[i] = e} = {}
  OBVIOUS
<1>. QED  BY <1>1, FS_EmptySet DEF ToldIn

-----------------------------------------------------------------------------
(* What a job is about to do, by where it is.                              *)

(* Writes, appends and the rest, by what they do.                          *)
LEMMA Kinds ==
  /\ \A v : (J!Set(v)).does = "row" /\ (J!Set(v)).value = v
  /\ \A v : (J!Tell(v)).does = "append" /\ (J!Tell(v)).value = v
  /\ \A d : (J!Do(d)).does = d
BY DEF J!Set, J!Tell, J!Do

(* A media job in createJob, in processJob or in its catch.                *)
LEMMA MediaNow ==
  ASSUME NEW j \in MediaJob, StepInRange(j), J!Running(j)
  PROVE  LET q == J!Now(j)
             s == step[j] IN
         /\ path[j] = "script" =>
              /\ s \in 1..10 /\ Len(J!Sequence(j)) = 10
              /\ q.does = "row" <=> s \in {1, 4, 8}
              /\ q.does = "append" <=> s \in {2, 9}
              /\ q.does = "piece" <=> s = 6
              /\ s \in {1, 4, 8} =>
                   q.value = IF s = 1 THEN "pending" ELSE IF s = 4 THEN "processing" ELSE "completed"
              /\ s \in {2, 9} => q.value = IF s = 2 THEN "created" ELSE "completed"
         /\ path[j] = "catch" =>
              /\ s \in 1..3 /\ Len(J!Sequence(j)) = 3
              /\ q.does = "row" <=> s = 1
              /\ q.does = "append" <=> s = 2
              /\ q.does # "piece"
              /\ s \in 1..2 => q.value = "failed"
         /\ q.does # "limit"
<1>1. CASE path[j] = "script"
  <2>1. step[j] \in 1..10 /\ J!Sequence(j) = J!Script[j] /\ Len(J!Script[j]) = 10
    BY <1>1, MediaScript DEF StepInRange, J!Sequence
  <2> DEFINE w == J!Script[j]
             k == step[j]
  <2>2. J!Now(j) = w[k]
    BY <2>1 DEF J!Now
  <2>3. /\ w[1] = J!Set("pending") /\ w[2] = J!Tell("created") /\ w[3] = J!Do("publish")
        /\ w[4] = J!Set("processing") /\ w[5] = J!Do("work") /\ w[6] = J!Do("piece")
        /\ w[7] = J!Do("work") /\ w[8] = J!Set("completed") /\ w[9] = J!Tell("completed")
        /\ w[10] = J!Do("publish")
    BY MediaScript
  <2>4. k = 1 \/ k = 2 \/ k = 3 \/ k = 4 \/ k = 5 \/ k = 6 \/ k = 7 \/ k = 8 \/ k = 9 \/ k = 10
    BY <2>1
  <2> HIDE DEF w, k
  <2>. QED  BY <1>1, <2>1, <2>2, <2>3, <2>4, Kinds DEF k
<1>2. CASE path[j] = "catch"
  <2>1. step[j] \in 1..3 /\ J!Sequence(j) = J!Handler[j] /\ Len(J!Handler[j]) = 3
    BY <1>2, Handlers DEF StepInRange, J!Sequence
  <2> DEFINE w == J!Handler[j]
             k == step[j]
  <2>2. J!Now(j) = w[k]
    BY <2>1 DEF J!Now
  <2>3. w[1] = J!Set("failed") /\ w[2] = J!Tell("failed") /\ w[3] = J!Do("publish")
    BY Handlers
  <2>4. k = 1 \/ k = 2 \/ k = 3
    BY <2>1
  <2> HIDE DEF w, k
  <2>. QED  BY <1>2, <2>1, <2>2, <2>3, <2>4, Kinds DEF k
<1>. QED  BY <1>1, <1>2 DEF J!Running

(* Finite sets and their sizes, as JobRuns has them.                       *)
LEMMA SameSizes ==
  /\ \A S : J!IsFiniteSet(S) <=> IsFiniteSet(S)
  /\ \A S : J!Cardinality(S) = Cardinality(S)
<1>1. \A S : J!IsFiniteSet(S) <=> IsFiniteSet(S)
  BY DEF J!IsFiniteSet, IsFiniteSet
<1>2. \A S : J!Cardinality(S) = Cardinality(S)
  BY DEF J!Cardinality, Cardinality
<1>. QED  BY <1>1, <1>2

(* There are finitely many jobs.                                           *)
LEMMA RecentFinite ==
  /\ IsFiniteSet(J!Job) /\ \A S \in SUBSET J!Job : IsFiniteSet(S) /\ Cardinality(S) \in Nat
  /\ Cardinality(J!Recent) \in Nat /\ Cardinality(Passing) \in Nat
  /\ DailyLimit \in Nat /\ Slots \in Nat
<1>1. IsFiniteSet(J!Job) /\ DailyLimit \in Nat /\ Slots \in Nat
  BY JobsAssumption, SameSizes DEF J!JobRunsAssumption
<1>2. \A S \in SUBSET J!Job : IsFiniteSet(S) /\ Cardinality(S) \in Nat
  BY <1>1, FS_Subset, FS_CardinalityType
<1>3. J!Recent \in SUBSET J!Job /\ Passing \in SUBSET J!Job
  BY DEF J!Recent, Passing, J!Job
<1>. QED  BY <1>1, <1>2, <1>3

(* What a step does to its job; it leaves the others alone.                *)
LEMMA StepIs ==
  ASSUME JobsTyped, NEW j \in J!Job, J!Step(j)
  PROVE  LET q == J!Now(j)
             last == step[j] = Len(J!Sequence(j)) IN
         /\ J!Running(j) /\ faults' = faults
         /\ \/ /\ q.does = "limit" /\ path'[j] = "refused" /\ step'[j] = 1
            \/ /\ q.does = "limit" => Cardinality(J!Recent) <= DailyLimit
               /\ path'[j] = IF last THEN IF path[j] = "catch" /\ j \in AiRun THEN "thrown" ELSE "done"
                             ELSE path[j]
               /\ step'[j] = IF last THEN 1 ELSE step[j] + 1
         /\ row'[j] = IF q.does = "row" /\ ~(path[j] = "catch" /\ row[j] = "none") THEN q.value
                      ELSE row[j]
         /\ stream'[j] = IF q.does = "append" THEN Append(stream[j], q.value) ELSE stream[j]
         /\ pieces'[j] = IF q.does = "piece" THEN pieces[j] + 1 ELSE pieces[j]
         /\ row' = [row EXCEPT ![j] = row'[j]] /\ stream' = [stream EXCEPT ![j] = stream'[j]]
         /\ pieces' = [pieces EXCEPT ![j] = pieces'[j]]
         /\ path' = [path EXCEPT ![j] = path'[j]] /\ step' = [step EXCEPT ![j] = step'[j]]
<1> DEFINE last == step[j] = Len(J!Sequence(j))
           goes == /\ path'[j] = IF last THEN IF path[j] = "catch" /\ j \in AiRun THEN "thrown" ELSE "done"
                                 ELSE path[j]
                   /\ step'[j] = IF last THEN 1 ELSE step[j] + 1
                   /\ path' = [path EXCEPT ![j] = path'[j]] /\ step' = [step EXCEPT ![j] = step'[j]]
<1>1. J!Advance(j) => goes
  BY DEF J!Advance, J!Finish, J!At, JobsTyped
<1> HIDE DEF goes
<1>2. CASE J!WriteRow(j)
  <2>1. goes
    BY <1>1, <1>2 DEF J!WriteRow
  <2>. QED  BY <1>2, <2>1 DEF J!WriteRow, goes, JobsTyped
<1>3. CASE J!AppendEvent(j)
  <2>1. goes
    BY <1>1, <1>3 DEF J!AppendEvent
  <2>. QED  BY <1>3, <2>1 DEF J!AppendEvent, goes, JobsTyped
<1>4. CASE J!Work(j)
  <2>1. goes
    BY <1>1, <1>4 DEF J!Work
  <2>. QED  BY <1>4, <2>1 DEF J!Work, goes, JobsTyped
<1>5. CASE J!MakePiece(j)
  <2>1. goes
    BY <1>1, <1>5 DEF J!MakePiece
  <2>. QED  BY <1>5, <2>1 DEF J!MakePiece, goes, JobsTyped
<1>6. CASE J!CheckLimit(j)
  <2>1. Cardinality(J!Recent) \in Nat /\ DailyLimit \in Nat
    BY RecentFinite
  <2>2. /\ J!Running(j) /\ J!Now(j).does = "limit"
        /\ IF Cardinality(J!Recent) > DailyLimit THEN J!At(j, "refused", 1) ELSE J!Advance(j)
        /\ UNCHANGED <<row, stream, pieces, faults>>
    BY <1>6, SameSizes DEF J!CheckLimit
  <2>3. CASE Cardinality(J!Recent) > DailyLimit
    <3>1. J!At(j, "refused", 1)
      BY <2>2, <2>3
    <3>. QED  BY <2>2, <3>1 DEF J!At, JobsTyped
  <2>4. CASE ~(Cardinality(J!Recent) > DailyLimit)
    <3>1. goes
      BY <1>1, <2>2, <2>4
    <3>. QED  BY <2>1, <2>2, <2>4, <3>1 DEF goes, JobsTyped
  <2>. QED  BY <2>3, <2>4
<1>. QED  BY <1>2, <1>3, <1>4, <1>5, <1>6 DEF J!Step

-----------------------------------------------------------------------------
(* A stream with one more event, event by event.                           *)
Adds(t, e, u) ==
  /\ u \in Seq(J!Event) /\ u # <<>> /\ u[Len(u)] = e
  /\ ToldIn(u, "created") = ToldIn(t, "created") + IF e = "created" THEN 1 ELSE 0
  /\ ToldIn(u, "started") = ToldIn(t, "started") + IF e = "started" THEN 1 ELSE 0
  /\ ToldIn(u, "step") = ToldIn(t, "step") + IF e = "step" THEN 1 ELSE 0
  /\ ToldIn(u, "completed") = ToldIn(t, "completed") + IF e = "completed" THEN 1 ELSE 0
  /\ ToldIn(u, "failed") = ToldIn(t, "failed") + IF e = "failed" THEN 1 ELSE 0

(* That is what an append makes.                                           *)
LEMMA EventsTold ==
  ASSUME NEW t \in Seq(J!Event), NEW e \in J!Event
  PROVE  Adds(t, e, Append(t, e))
<1> DEFINE u == Append(t, e)
<1>1. /\ Append(t, e) \in Seq(J!Event) /\ Append(t, e) # <<>>
      /\ Append(t, e)[Len(Append(t, e))] = e
      /\ \A f \in J!Event : ToldIn(Append(t, e), f) = ToldIn(t, f) + IF f = e THEN 1 ELSE 0
  BY ToldMore
<1>2. /\ "created" \in J!Event /\ "started" \in J!Event /\ "step" \in J!Event
      /\ "completed" \in J!Event /\ "failed" \in J!Event
  BY DEF J!Event
<1>3. /\ u \in Seq(J!Event) /\ u # <<>> /\ u[Len(u)] = e
      /\ \A f \in J!Event : ToldIn(u, f) = ToldIn(t, f) + IF f = e THEN 1 ELSE 0
  BY <1>1
<1> HIDE DEF u
<1>4. /\ ToldIn(u, "created") = ToldIn(t, "created") + IF "created" = e THEN 1 ELSE 0
      /\ ToldIn(u, "started") = ToldIn(t, "started") + IF "started" = e THEN 1 ELSE 0
      /\ ToldIn(u, "step") = ToldIn(t, "step") + IF "step" = e THEN 1 ELSE 0
      /\ ToldIn(u, "completed") = ToldIn(t, "completed") + IF "completed" = e THEN 1 ELSE 0
      /\ ToldIn(u, "failed") = ToldIn(t, "failed") + IF "failed" = e THEN 1 ELSE 0
  BY <1>2, <1>3
<1>. QED  BY <1>3, <1>4 DEF Adds, u

(* What keeps a job typed, whatever it does.                               *)
TypedHere(p, s, r, t, n) ==
  /\ r \in J!Status /\ t \in Seq(J!Event) /\ n \in Nat /\ s \in Nat
  /\ p \in {"idle", "script", "catch"} \cup J!Ended

(* Steps of a media job.                                                   *)
LEMMA MediaGoes ==
  ASSUME NEW p, NEW s \in Nat, NEW r \in J!Status, NEW t \in Seq(J!Event), NEW n,
         MediaIs(p, s, r, t, n)
  PROVE  /\ p = "script" /\ s \in {1, 4, 8} =>
              MediaIs(p, s + 1, IF s = 1 THEN "pending" ELSE IF s = 4 THEN "processing" ELSE "completed", t, n)
         /\ p = "script" /\ s \in {2, 9} =>
              MediaIs(p, s + 1, r, Append(t, IF s = 2 THEN "created" ELSE "completed"), n)
         /\ p = "script" /\ s \in {3, 5, 7} => MediaIs(p, s + 1, r, t, n)
         /\ p = "script" /\ s = 6 => MediaIs(p, s + 1, r, t, n + 1)
         /\ p = "script" /\ s = 10 => MediaIs("done", 1, r, t, n)
         /\ p = "catch" /\ s = 1 => MediaIs(p, 2, "failed", t, n)
         /\ p = "catch" /\ s = 2 => MediaIs(p, 3, r, Append(t, "failed"), n)
         /\ p = "catch" /\ s = 3 => MediaIs("done", 1, r, t, n)
         /\ p = "script" /\ s > 4 => MediaIs("catch", 1, r, t, n)
         /\ p = "script" /\ s <= 3 => MediaIs("thrown", 1, r, t, n)
         /\ p \in {"script", "catch"} => MediaIs("cut", 1, r, t, n)
         /\ p = "idle" => MediaIs("script", 1, r, t, n)
<1>1. {"created", "started", "step", "completed", "failed"} \subseteq J!Event
  BY DEF J!Event
<1>3. /\ ToldIn(<<>>, "created") = 0 /\ ToldIn(<<>>, "started") = 0 /\ ToldIn(<<>>, "step") = 0
      /\ ToldIn(<<>>, "completed") = 0 /\ ToldIn(<<>>, "failed") = 0
  BY ToldNothing
<1>4. CASE p = "script" /\ s \in {2, 9}
  <2> DEFINE e == IF s = 2 THEN "created" ELSE "completed"
             u == Append(t, e)
  <2>1. e \in J!Event /\ u = Append(t, e)
    BY <1>1
  <2>e. e = IF s = 2 THEN "created" ELSE "completed"
    OBVIOUS
  <2> HIDE DEF e, u
  <2>2. Adds(t, e, u)
    BY <2>1, EventsTold
  <2>3. MediaIs(p, s + 1, r, u, n)
    BY <1>4, <2>e, <2>2 DEF MediaIs, Adds
  <2>4. MediaIs("cut", 1, r, t, n) /\ (s = 2 => MediaIs("thrown", 1, r, t, n))
        /\ (s = 9 => MediaIs("catch", 1, r, t, n))
    BY <1>4 DEF MediaIs
  <2>. QED  BY <1>4, <2>3, <2>4 DEF e, u
<1>5. CASE p = "script" /\ s \notin {2, 9}
  BY <1>5 DEF MediaIs
<1>6. CASE p = "catch" /\ s = 2
  <2> DEFINE u == Append(t, "failed")
  <2>1. "failed" \in J!Event /\ u = Append(t, "failed")
    BY <1>1
  <2> HIDE DEF u
  <2>2. Adds(t, "failed", u)
    BY <2>1, EventsTold
  <2>3. MediaIs(p, 3, r, u, n)
    BY <1>6, <2>2 DEF MediaIs, Adds
  <2>4. MediaIs("cut", 1, r, t, n)
    BY <1>6 DEF MediaIs
  <2>. QED  BY <1>6, <2>3, <2>4 DEF u
<1>7. CASE p = "catch" /\ s # 2
  BY <1>7 DEF MediaIs
<1>8. CASE p = "idle"
  BY <1>3, <1>8 DEF MediaIs
<1>9. CASE p \notin {"idle", "script", "catch"}
  BY <1>9
<1>. QED  BY <1>4, <1>5, <1>6, <1>7, <1>8, <1>9

(* Steps of an AI run: what its publisher swallows leaves no event.        *)
LEMMA RunGoes ==
  ASSUME NEW p, NEW s \in Nat, NEW r \in J!Status, NEW t \in Seq(J!Event), NEW n, NEW f \in Nat,
         RunIs(p, s, r, t, n, f)
  PROVE  /\ p = "script" /\ s = 1 => RunIs(p, 2, r, t, n, f) /\ RunIs("refused", 1, r, t, n, f)
         /\ p = "script" /\ s = 2 => RunIs(p, 3, "running", t, n, f)
         /\ p = "script" /\ s = 3 => RunIs(p, 4, r, Append(t, "started"), n, f)
         /\ p = "script" /\ s = 4 => RunIs(p, 5, r, t, n, f)
         /\ p = "script" /\ s = 5 => RunIs(p, 6, "completed", t, n, f)
         /\ p = "script" /\ s = 6 => RunIs(p, 7, r, Append(t, "completed"), n, f)
         /\ p = "script" /\ s = 7 => RunIs("done", 1, r, t, n, f)
         /\ p = "script" /\ s \in {3, 6} => RunIs(p, s + 1, r, t, n, f + 1)
         /\ p = "catch" /\ s = 1 => RunIs(p, 2, IF r = "none" THEN r ELSE "failed", t, n, f)
         /\ p = "catch" /\ s = 2 => /\ RunIs("thrown", 1, r, Append(t, "failed"), n, f)
                                   /\ RunIs("thrown", 1, r, t, n, f + 1)
         /\ p = "script" /\ s > 1 => RunIs("catch", 1, r, t, n, f + 1)
         /\ p = "script" /\ s = 1 => RunIs("thrown", 1, r, t, n, f + 1)
         /\ p = "catch" => RunIs("thrown", 1, r, t, n, f + 1)
         /\ p \in {"script", "catch"} => RunIs("cut", 1, r, t, n, f + 1)
         /\ p = "idle" => RunIs("script", 1, r, t, n, f)
         /\ RunIs(p, s, r, t, n, f + 1)
<1>1. /\ ToldIn(<<>>, "created") = 0 /\ ToldIn(<<>>, "started") = 0 /\ ToldIn(<<>>, "step") = 0
      /\ ToldIn(<<>>, "completed") = 0 /\ ToldIn(<<>>, "failed") = 0
  BY ToldNothing
<1>2. CASE p = "script" /\ s = 3
  <2> DEFINE u == Append(t, "started")
  <2>1. "started" \in J!Event /\ u = Append(t, "started")
    BY DEF J!Event
  <2> HIDE DEF u
  <2>2. Adds(t, "started", u)
    BY <2>1, EventsTold
  <2>3. RunIs(p, 4, r, u, n, f)
    BY <1>2, <2>2 DEF RunIs, Adds
  <2>4. /\ RunIs("catch", 1, r, t, n, f + 1) /\ RunIs("cut", 1, r, t, n, f + 1)
        /\ RunIs(p, s, r, t, n, f + 1) /\ RunIs(p, s + 1, r, t, n, f + 1)
    BY <1>2 DEF RunIs
  <2>. QED  BY <1>2, <2>3, <2>4 DEF u
<1>3. CASE p = "script" /\ s = 6
  <2> DEFINE u == Append(t, "completed")
  <2>1. "completed" \in J!Event /\ u = Append(t, "completed")
    BY DEF J!Event
  <2> HIDE DEF u
  <2>2. Adds(t, "completed", u)
    BY <2>1, EventsTold
  <2>3. RunIs(p, 7, r, u, n, f)
    BY <1>3, <2>2 DEF RunIs, Adds
  <2>4. /\ RunIs("catch", 1, r, t, n, f + 1) /\ RunIs("cut", 1, r, t, n, f + 1)
        /\ RunIs(p, s, r, t, n, f + 1) /\ RunIs(p, s + 1, r, t, n, f + 1)
    BY <1>3 DEF RunIs
  <2>. QED  BY <1>3, <2>3, <2>4 DEF u
<1>4. CASE p = "catch" /\ s = 2
  <2> DEFINE u == Append(t, "failed")
  <2>1. "failed" \in J!Event /\ u = Append(t, "failed")
    BY DEF J!Event
  <2> HIDE DEF u
  <2>2. Adds(t, "failed", u)
    BY <2>1, EventsTold
  <2>3. RunIs("thrown", 1, r, u, n, f)
    BY <1>4, <2>2 DEF RunIs, Adds
  <2>4. /\ RunIs("thrown", 1, r, t, n, f + 1) /\ RunIs("cut", 1, r, t, n, f + 1)
        /\ RunIs(p, s, r, t, n, f + 1)
    BY <1>4 DEF RunIs
  <2>. QED  BY <1>4, <2>3, <2>4 DEF u
<1>5. CASE p = "script" /\ s \notin {3, 6}
  BY <1>5 DEF RunIs
<1>6. CASE p = "catch" /\ s # 2
  BY <1>6 DEF RunIs
<1>7. CASE p = "idle"
  BY <1>1, <1>7 DEF RunIs
<1>8. CASE p \notin {"idle", "script", "catch"}
  BY <1>8 DEF RunIs
<1>. QED  BY <1>2, <1>3, <1>4, <1>5, <1>6, <1>7, <1>8

(* Steps of a listing pipeline.                                            *)
LEMMA ListingGoes ==
  ASSUME NEW p, NEW s \in Nat, NEW r \in J!Status, NEW t \in Seq(J!Event), NEW n,
         NEW l \in Nat, l > 4, NEW d \in 0..1, ListingIs(p, s, r, t, n, l, d)
  PROVE  /\ p = "script" /\ s = 1 => ListingIs(p, 2, "running", t, n, l, d)
         /\ p = "script" /\ s = 2 => ListingIs(p, 3, r, Append(t, "started"), n, l, d)
         /\ p = "script" /\ s \in 3..(l - 1) /\ s % 3 # 2 => ListingIs(p, s + 1, r, t, n, l, d)
         /\ p = "script" /\ s \in 4..(l - 1) /\ s % 3 = 2 => ListingIs(p, s + 1, r, Append(t, "step"), n, l, d)
         /\ p = "script" /\ s = l => ListingIs(p, s + 1, r, t, n + d, l, d)
         /\ p = "script" /\ s = l + 1 => ListingIs(p, s + 1, "completed", t, n, l, d)
         /\ p = "script" /\ s = l + 2 => ListingIs(p, s + 1, r, Append(t, "completed"), n, l, d)
         /\ p = "script" /\ s = l + 3 => ListingIs("done", 1, r, t, n, l, d)
         /\ p = "script" => ListingIs("thrown", 1, r, t, n, l, d) /\ ListingIs("cut", 1, r, t, n, l, d)
         /\ p = "idle" => ListingIs("script", 1, r, t, n, l, d)
<1>1. /\ ToldIn(<<>>, "created") = 0 /\ ToldIn(<<>>, "started") = 0 /\ ToldIn(<<>>, "step") = 0
      /\ ToldIn(<<>>, "completed") = 0 /\ ToldIn(<<>>, "failed") = 0
  BY ToldNothing
<1>2. CASE p = "script" /\ s = 2
  <2> DEFINE u == Append(t, "started")
  <2>1. "started" \in J!Event /\ u = Append(t, "started")
    BY DEF J!Event
  <2> HIDE DEF u
  <2>2. Adds(t, "started", u)
    BY <2>1, EventsTold
  <2>3. ListingIs(p, 3, r, u, n, l, d)
    BY <1>2, <2>2 DEF ListingIs, Adds
  <2>4. ListingIs("thrown", 1, r, t, n, l, d) /\ ListingIs("cut", 1, r, t, n, l, d)
    BY <1>2 DEF ListingIs
  <2>. QED  BY <1>2, <2>3, <2>4 DEF u
<1>3. CASE p = "script" /\ s \in 4..(l - 1) /\ s % 3 = 2
  <2> DEFINE u == Append(t, "step")
  <2>1. "step" \in J!Event /\ u = Append(t, "step")
    BY DEF J!Event
  <2> HIDE DEF u
  <2>2. Adds(t, "step", u)
    BY <2>1, EventsTold
  <2>3. ListingIs(p, s + 1, r, u, n, l, d)
    BY <1>3, <2>2 DEF ListingIs, Adds
  <2>4. ListingIs("thrown", 1, r, t, n, l, d) /\ ListingIs("cut", 1, r, t, n, l, d)
    BY <1>3 DEF ListingIs
  <2>. QED  BY <1>3, <2>3, <2>4 DEF u
<1>4. CASE p = "script" /\ s = l + 2
  <2> DEFINE u == Append(t, "completed")
  <2>1. "completed" \in J!Event /\ u = Append(t, "completed")
    BY DEF J!Event
  <2> HIDE DEF u
  <2>2. Adds(t, "completed", u)
    BY <2>1, EventsTold
  <2>3. ListingIs(p, s + 1, r, u, n, l, d)
    BY <1>4, <2>2 DEF ListingIs, Adds
  <2>4. ListingIs("thrown", 1, r, t, n, l, d) /\ ListingIs("cut", 1, r, t, n, l, d)
    BY <1>4 DEF ListingIs
  <2>. QED  BY <1>4, <2>3, <2>4 DEF u
<1>5. CASE p = "script" /\ s # 2 /\ s # l + 2 /\ (s \in 4..(l - 1) => s % 3 # 2)
  BY <1>5 DEF ListingIs
<1>6. CASE p = "idle"
  BY <1>1, <1>6 DEF ListingIs
<1>7. CASE p \notin {"idle", "script"}
  BY <1>7
<1>. QED  BY <1>2, <1>3, <1>4, <1>5, <1>6, <1>7

(* Steps of a regional batch.                                              *)
LEMMA BatchGoes ==
  ASSUME NEW p, NEW s \in Nat, NEW r \in J!Status, NEW t \in Seq(J!Event), NEW n,
         BatchIs(p, s, r, t, n)
  PROVE  /\ p = "script" /\ s = 1 => BatchIs(p, 2, r, Append(t, "started"), n)
         /\ p = "script" /\ s = 2 => BatchIs(p, 3, r, t, n)
         /\ \A k \in 0..(Parts - 1) :
              /\ p = "script" /\ s = 4 * k + 3 => BatchIs(p, s + 1, r, t, n)
              /\ p = "script" /\ s = 4 * k + 4 => BatchIs(p, s + 1, r, t, n + 1)
              /\ p = "script" /\ s = 4 * k + 5 => BatchIs(p, s + 1, r, Append(t, "step"), n)
              /\ p = "script" /\ s = 4 * k + 6 => BatchIs(p, s + 1, r, t, n)
         /\ p = "script" => /\ BatchIs("done", 1, r, t, n) /\ BatchIs("thrown", 1, r, t, n)
                            /\ BatchIs("cut", 1, r, t, n)
         /\ p = "idle" => BatchIs("script", 1, r, t, n)
<1>0. Parts \in Nat
  BY OneKind
<1>1. /\ ToldIn(<<>>, "created") = 0 /\ ToldIn(<<>>, "started") = 0 /\ ToldIn(<<>>, "step") = 0
      /\ ToldIn(<<>>, "completed") = 0 /\ ToldIn(<<>>, "failed") = 0
  BY ToldNothing
<1>2. ToldIn(t, "step") \in Nat /\ n \in Nat
  <2>1. "step" \in J!Event
    BY DEF J!Event
  <2>. QED  BY <1>0, <2>1, ToldMore DEF BatchIs
<1>3. p = "script" => /\ BatchIs("done", 1, r, t, n) /\ BatchIs("thrown", 1, r, t, n)
                     /\ BatchIs("cut", 1, r, t, n)
  BY DEF BatchIs
<1>4. CASE p = "script" /\ s = 1
  <2> DEFINE u == Append(t, "started")
  <2>1. "started" \in J!Event /\ u = Append(t, "started")
    BY DEF J!Event
  <2> HIDE DEF u
  <2>2. Adds(t, "started", u)
    BY <2>1, EventsTold
  <2>3. BatchIs(p, 2, r, u, n)
    BY <1>4, <2>2 , <1>0, <1>2 DEF BatchIs, Adds
  <2>4. s # 2 /\ \A k \in 0..(Parts - 1) : s \notin {4 * k + 3, 4 * k + 4, 4 * k + 5, 4 * k + 6}
    BY <1>4 , <1>0, <1>2 DEF BatchIs
  <2>. QED  BY <1>3, <1>4, <2>3, <2>4 DEF u
<1>5. CASE p = "script" /\ s = 2
  <2>1. BatchIs(p, 3, r, t, n)
    BY <1>5 DEF BatchIs
  <2>2. \A k \in 0..(Parts - 1) : s \notin {4 * k + 3, 4 * k + 4, 4 * k + 5, 4 * k + 6}
    BY <1>0, <1>5
  <2>. QED  BY <1>3, <1>5, <2>1, <2>2
<1>6. ASSUME NEW k \in 0..(Parts - 1), p = "script" /\ s = 4 * k + 3
      PROVE  BatchIs(p, s + 1, r, t, n)
  BY <1>0, <1>2, <1>6 DEF BatchIs
<1>7. ASSUME NEW k \in 0..(Parts - 1), p = "script" /\ s = 4 * k + 4
      PROVE  BatchIs(p, s + 1, r, t, n + 1)
  BY <1>0, <1>2, <1>7 DEF BatchIs
<1>8. ASSUME NEW k \in 0..(Parts - 1), p = "script" /\ s = 4 * k + 5
      PROVE  BatchIs(p, s + 1, r, Append(t, "step"), n)
  <2> DEFINE u == Append(t, "step")
  <2>1. "step" \in J!Event /\ u = Append(t, "step")
    BY DEF J!Event
  <2> HIDE DEF u
  <2>2. Adds(t, "step", u)
    BY <2>1, EventsTold
  <2>3. BatchIs(p, s + 1, r, u, n)
    BY <1>0, <1>2, <1>8, <2>2 DEF BatchIs, Adds
  <2>. QED  BY <2>3 DEF u
<1>9. ASSUME NEW k \in 0..(Parts - 1), p = "script" /\ s = 4 * k + 6
      PROVE  BatchIs(p, s + 1, r, t, n)
  BY <1>0, <1>2, <1>9 DEF BatchIs
<1>10. CASE p = "script" /\ s \notin {1, 2}
  BY <1>3, <1>6, <1>7, <1>8, <1>9, <1>10
<1>11. CASE p = "idle"
  BY <1>1, <1>11 DEF BatchIs
<1>12. CASE p \notin {"idle", "script"}
  BY <1>12
<1>. QED  BY <1>4, <1>5, <1>10, <1>11, <1>12

(* Steps of an upload.                                                     *)
LEMMA UploadGoes ==
  ASSUME NEW p, NEW s \in Nat, NEW r \in J!Status, NEW t \in Seq(J!Event), NEW n,
         UploadIs(p, s, r, t, n)
  PROVE  /\ p = "script" /\ s = 1 => UploadIs(p, 2, r, t, n)
         /\ p = "script" /\ s = 2 => UploadIs(p, 3, "stored", t, n)
         /\ p = "script" /\ s = 3 => UploadIs(p, 4, r, Append(t, "started"), n)
         /\ p = "script" /\ s = 4 => UploadIs(p, 5, r, t, n)
         /\ p = "script" /\ s \in 5..(Parts + 4) => UploadIs(p, s + 1, r, t, n + 1)
         /\ p = "script" /\ s = Parts + 5 => UploadIs(p, s + 1, "completed", t, n)
         /\ p = "script" /\ s = Parts + 6 => UploadIs(p, s + 1, r, t, n)
         /\ p = "script" /\ s = Parts + 7 => UploadIs(p, s + 1, r, Append(t, "completed"), n)
         /\ p = "script" /\ s = Parts + 8 => UploadIs("done", 1, r, t, n)
         /\ p = "script" => UploadIs("thrown", 1, r, t, n) /\ UploadIs("cut", 1, r, t, n)
         /\ p = "idle" => UploadIs("script", 1, r, t, n)
<1>0. Parts \in Nat
  BY OneKind
<1>1. /\ ToldIn(<<>>, "created") = 0 /\ ToldIn(<<>>, "started") = 0 /\ ToldIn(<<>>, "step") = 0
      /\ ToldIn(<<>>, "completed") = 0 /\ ToldIn(<<>>, "failed") = 0
  BY ToldNothing
<1>2. CASE p = "script" /\ s = 3
  <2> DEFINE u == Append(t, "started")
  <2>1. "started" \in J!Event /\ u = Append(t, "started")
    BY DEF J!Event
  <2> HIDE DEF u
  <2>2. Adds(t, "started", u)
    BY <2>1, EventsTold
  <2>3. UploadIs(p, 4, r, u, n)
    BY <1>2, <2>2 , <1>0 DEF UploadIs, Adds
  <2>4. UploadIs("thrown", 1, r, t, n) /\ UploadIs("cut", 1, r, t, n)
    BY <1>2 , <1>0 DEF UploadIs
  <2>. QED  BY <1>0, <1>2, <2>3, <2>4 DEF u
<1>3. CASE p = "script" /\ s = Parts + 7
  <2> DEFINE u == Append(t, "completed")
  <2>1. "completed" \in J!Event /\ u = Append(t, "completed")
    BY DEF J!Event
  <2> HIDE DEF u
  <2>2. Adds(t, "completed", u)
    BY <2>1, EventsTold
  <2>3. UploadIs(p, s + 1, r, u, n)
    BY <1>3, <2>2 , <1>0 DEF UploadIs, Adds
  <2>4. UploadIs("thrown", 1, r, t, n) /\ UploadIs("cut", 1, r, t, n)
    BY <1>3 , <1>0 DEF UploadIs
  <2>. QED  BY <1>0, <1>3, <2>3, <2>4 DEF u
<1>4. CASE p = "script" /\ s # 3 /\ s # Parts + 7
  BY <1>0, <1>4 DEF UploadIs
<1>5. CASE p = "idle"
  BY <1>0, <1>1, <1>5 DEF UploadIs
<1>6. CASE p \notin {"idle", "script"}
  BY <1>6
<1>. QED  BY <1>2, <1>3, <1>4, <1>5, <1>6

-----------------------------------------------------------------------------
(* What the other kinds are about to do.                                   *)

(* An AI run from the check of its limit to the end, or in its catch.      *)
LEMMA RunNow ==
  ASSUME NEW j \in AiRun, StepInRange(j), J!Running(j)
  PROVE  LET q == J!Now(j)
             s == step[j] IN
         /\ path[j] = "script" =>
              /\ s \in 1..7 /\ Len(J!Sequence(j)) = 7
              /\ q.does = "row" <=> s \in {2, 5}
              /\ q.does = "append" <=> s \in {3, 6}
              /\ q.does = "limit" <=> s = 1
              /\ s \in {2, 5} => q.value = IF s = 2 THEN "running" ELSE "completed"
              /\ s \in {3, 6} => q.value = IF s = 3 THEN "started" ELSE "completed"
         /\ path[j] = "catch" =>
              /\ s \in 1..2 /\ Len(J!Sequence(j)) = 2
              /\ q.does = "row" <=> s = 1
              /\ q.does = "append" <=> s = 2
              /\ q.does # "limit" /\ q.value = "failed"
         /\ q.does # "piece"
<1>1. CASE path[j] = "script"
  <2>1. step[j] \in 1..7 /\ J!Sequence(j) = J!Script[j] /\ Len(J!Script[j]) = 7
    BY <1>1, RunScript DEF StepInRange, J!Sequence
  <2> DEFINE w == J!Script[j]
             k == step[j]
  <2>2. J!Now(j) = w[k]
    BY <2>1 DEF J!Now
  <2>3. /\ w[1] = J!Do("limit") /\ w[2] = J!Set("running") /\ w[3] = J!Tell("started")
        /\ w[4] = J!Do("work") /\ w[5] = J!Set("completed") /\ w[6] = J!Tell("completed")
        /\ w[7] = J!Do("work")
    BY RunScript
  <2>4. k = 1 \/ k = 2 \/ k = 3 \/ k = 4 \/ k = 5 \/ k = 6 \/ k = 7
    BY <2>1
  <2> HIDE DEF w, k
  <2>. QED  BY <1>1, <2>1, <2>2, <2>3, <2>4, Kinds DEF k
<1>2. CASE path[j] = "catch"
  <2>0. j \in J!Job \ MediaJob
    BY OneKind DEF J!Job
  <2>1. step[j] \in 1..2 /\ J!Sequence(j) = J!Handler[j] /\ Len(J!Handler[j]) = 2
    BY <1>2, <2>0, Handlers DEF StepInRange, J!Sequence
  <2> DEFINE w == J!Handler[j]
             k == step[j]
  <2>2. J!Now(j) = w[k]
    BY <2>1 DEF J!Now
  <2>3. w[1] = J!Set("failed") /\ w[2] = J!Tell("failed")
    BY <2>0, Handlers
  <2>4. k = 1 \/ k = 2
    BY <2>1
  <2> HIDE DEF w, k
  <2>. QED  BY <1>2, <2>1, <2>2, <2>3, <2>4, Kinds DEF k
<1>. QED  BY <1>1, <1>2 DEF J!Running

(* A listing pipeline: its steps are told between its start and its end.   *)
LEMMA ListingNow ==
  ASSUME NEW j \in Listing, StepInRange(j), J!Running(j)
  PROVE  LET q == J!Now(j)
             s == step[j]
             l == 3 * ListingSteps + 4 IN
         /\ path[j] = "script" /\ s \in 1..(l + 3) /\ Len(J!Sequence(j)) = l + 3 /\ l \in Nat /\ l > 4
         /\ q.does = "row" <=> s \in {1, l + 1}
         /\ q.does = "append" => s \in {2, l + 2} \cup 4..(l - 1)
         /\ s \in {2, l + 2} => q.does = "append"
         /\ s \in 4..(l - 1) => (q.does = "append" <=> s % 3 = 2)
         /\ q.does = "piece" <=> s = l /\ j \in Drafting
         /\ s \in {1, l + 1} => q.value = IF s = 1 THEN "running" ELSE "completed"
         /\ q.does = "append" =>
              q.value = IF s = 2 THEN "started" ELSE IF s = l + 2 THEN "completed" ELSE "step"
         /\ q.does # "limit"
<1> DEFINE w == J!Script[j]
           k == step[j]
           n == 3 * ListingSteps
<1>0. n \in Nat /\ n > 0
  BY OneKind
<1>1. path[j] = "script"
  BY OneKind DEF StepInRange, J!Running
<1>2. /\ w \in Seq(AnyStep) /\ Len(w) = n + 7
      /\ w[1] = J!Set("running") /\ w[2] = J!Tell("started") /\ w[3] = J!Do("publish")
      /\ \A i \in 4..(n + 3) :
           IF i % 3 = 2 THEN w[i] = J!Tell("step") ELSE w[i] \in {J!Do("work"), J!Do("publish")}
      /\ w[n + 4] = J!Do(IF j \in Drafting THEN "piece" ELSE "work") /\ w[n + 5] = J!Set("completed")
      /\ w[n + 6] = J!Tell("completed") /\ w[n + 7] = J!Do("publish")
  BY ListingScript
<1>3. k \in 1..(n + 7) /\ J!Sequence(j) = w /\ J!Now(j) = w[k]
  BY <1>1, <1>2 DEF StepInRange, J!Sequence, J!Now
<1> HIDE DEF w, n, k
<1>4. \/ k = 1 \/ k = 2 \/ k = 3 \/ k \in 4..(n + 3) \/ k = n + 4 \/ k = n + 5 \/ k = n + 6 \/ k = n + 7
  BY <1>0, <1>3
<1> DEFINE q == J!Now(j)
<1>5. /\ k = 1 => q.does = "row" /\ q.value = "running"
      /\ k = 2 => q.does = "append" /\ q.value = "started"
      /\ k = 3 => q.does = "publish"
      /\ k \in 4..(n + 3) => /\ q.does \in {"work", "append", "publish"}
                             /\ q.does = "append" => q.value = "step"
                             /\ q.does = "append" <=> k % 3 = 2
      /\ k = n + 4 => q.does = IF j \in Drafting THEN "piece" ELSE "work"
      /\ k = n + 5 => q.does = "row" /\ q.value = "completed"
      /\ k = n + 6 => q.does = "append" /\ q.value = "completed"
      /\ k = n + 7 => q.does = "publish"
  BY <1>2, <1>3, Kinds
<1> HIDE DEF q
<1> DEFINE l == n + 4
<1>6. l \in Nat /\ l > 4 /\ k \in 1..(l + 3) /\ Len(J!Sequence(j)) = l + 3
  BY <1>0, <1>2, <1>3
<1>7. /\ q.does = "row" <=> k \in {1, l + 1}
      /\ q.does = "append" => k \in {2, l + 2} \cup 4..(l - 1)
      /\ k \in {2, l + 2} => q.does = "append"
      /\ k \in 4..(l - 1) => (q.does = "append" <=> k % 3 = 2)
      /\ q.does = "piece" <=> k = l /\ j \in Drafting
      /\ k \in {1, l + 1} => q.value = IF k = 1 THEN "running" ELSE "completed"
      /\ q.does = "append" =>
           q.value = IF k = 2 THEN "started" ELSE IF k = l + 2 THEN "completed" ELSE "step"
      /\ q.does # "limit"
  BY <1>0, <1>4, <1>5
<1>. QED  BY <1>1, <1>6, <1>7 DEF q, k, n

(* A batch: text, draft row, event, region by region.                      *)
LEMMA BatchNow ==
  ASSUME NEW j \in Batch, StepInRange(j), J!Running(j)
  PROVE  LET q == J!Now(j)
             s == step[j] IN
         /\ path[j] = "script" /\ s \in 1..(4 * Parts + 2) /\ Len(J!Sequence(j)) = 4 * Parts + 2
         /\ \/ s = 1 /\ q.does = "append" /\ q.value = "started"
            \/ s = 2 /\ q.does = "publish"
            \/ \E k \in 0..(Parts - 1) :
                 \/ s = 4 * k + 3 /\ q.does = "work"
                 \/ s = 4 * k + 4 /\ q.does = "piece"
                 \/ s = 4 * k + 5 /\ q.does = "append" /\ q.value = "step"
                 \/ s = 4 * k + 6 /\ q.does = "publish"
<1> DEFINE w == J!Script[j]
           i == step[j]
           q == J!Now(j)
<1>0. Parts \in Nat /\ Parts > 0
  BY OneKind
<1>1. path[j] = "script"
  BY OneKind DEF StepInRange, J!Running
<1>2. /\ w \in Seq(AnyStep) /\ Len(w) = 4 * Parts + 2
      /\ w[1] = J!Tell("started") /\ w[2] = J!Do("publish")
      /\ \A k \in 0..(Parts - 1) :
           /\ w[4 * k + 3] = J!Do("work") /\ w[4 * k + 4] = J!Do("piece")
           /\ w[4 * k + 5] = J!Tell("step") /\ w[4 * k + 6] = J!Do("publish")
  BY BatchScript
<1>3. i \in 1..(4 * Parts + 2) /\ J!Sequence(j) = w /\ q = w[i]
  BY <1>1, <1>2 DEF StepInRange, J!Sequence, J!Now
<1> HIDE DEF w, i, q
<1>4. \/ i = 1 \/ i = 2
      \/ \E k \in 0..(Parts - 1) : i \in {4 * k + 3, 4 * k + 4, 4 * k + 5, 4 * k + 6}
  <2>1. CASE i > 2
    <3> DEFINE k == (i - 3) \div 4
    <3>1. k \in 0..(Parts - 1) /\ i \in {4 * k + 3, 4 * k + 4, 4 * k + 5, 4 * k + 6}
      BY <1>0, <1>3, <2>1
    <3>. QED  BY <3>1
  <2>. QED  BY <1>3, <2>1
<1>5. CASE i \in {1, 2}
  BY <1>1, <1>2, <1>3, <1>5, Kinds DEF i, q
<1>6. CASE \E k \in 0..(Parts - 1) : i \in {4 * k + 3, 4 * k + 4, 4 * k + 5, 4 * k + 6}
  <2>1. PICK k \in 0..(Parts - 1) : i \in {4 * k + 3, 4 * k + 4, 4 * k + 5, 4 * k + 6}
    BY <1>6
  <2>2. /\ w[4 * k + 3] = J!Do("work") /\ w[4 * k + 4] = J!Do("piece")
        /\ w[4 * k + 5] = J!Tell("step") /\ w[4 * k + 6] = J!Do("publish")
    BY <1>2
  <2>3. \/ i = 4 * k + 3 /\ q.does = "work"
        \/ i = 4 * k + 4 /\ q.does = "piece"
        \/ i = 4 * k + 5 /\ q.does = "append" /\ q.value = "step"
        \/ i = 4 * k + 6 /\ q.does = "publish"
    BY <1>3, <2>1, <2>2, Kinds
  <2>. QED  BY <1>1, <1>2, <1>3, <2>3 DEF i, q
<1>. QED  BY <1>4, <1>5, <1>6

(* An upload: its chunks come between `stored` and `indexed`.              *)
LEMMA UploadNow ==
  ASSUME NEW j \in Upload, StepInRange(j), J!Running(j)
  PROVE  LET q == J!Now(j)
             s == step[j] IN
         /\ path[j] = "script" /\ s \in 1..(Parts + 8) /\ Len(J!Sequence(j)) = Parts + 8
         /\ q.does = "row" <=> s \in {2, Parts + 5}
         /\ q.does = "append" <=> s \in {3, Parts + 7}
         /\ q.does = "piece" <=> s \in 5..(Parts + 4)
         /\ s \in {2, Parts + 5} => q.value = IF s = 2 THEN "stored" ELSE "completed"
         /\ s \in {3, Parts + 7} => q.value = IF s = 3 THEN "started" ELSE "completed"
         /\ q.does # "limit"
<1> DEFINE w == J!Script[j]
           k == step[j]
           q == J!Now(j)
<1>0. Parts \in Nat /\ Parts > 0
  BY OneKind
<1>1. path[j] = "script"
  BY OneKind DEF StepInRange, J!Running
<1>2. /\ w \in Seq(AnyStep) /\ Len(w) = Parts + 8
      /\ w[1] = J!Do("work") /\ w[2] = J!Set("stored") /\ w[3] = J!Tell("started")
      /\ w[4] = J!Do("publish")
      /\ \A i \in 5..(Parts + 4) : w[i] = J!Do("piece")
      /\ w[Parts + 5] = J!Set("completed") /\ w[Parts + 6] = J!Do("work")
      /\ w[Parts + 7] = J!Tell("completed") /\ w[Parts + 8] = J!Do("publish")
  BY UploadScript
<1>3. k \in 1..(Parts + 8) /\ J!Sequence(j) = w /\ q = w[k]
  BY <1>1, <1>2 DEF StepInRange, J!Sequence, J!Now
<1> HIDE DEF w, k, q
<1>4. \/ k = 1 \/ k = 2 \/ k = 3 \/ k = 4 \/ k \in 5..(Parts + 4)
      \/ k = Parts + 5 \/ k = Parts + 6 \/ k = Parts + 7 \/ k = Parts + 8
  BY <1>0, <1>3
<1>5. /\ k = 1 => q.does = "work"
      /\ k = 2 => q.does = "row" /\ q.value = "stored"
      /\ k = 3 => q.does = "append" /\ q.value = "started"
      /\ k = 4 => q.does = "publish"
      /\ k \in 5..(Parts + 4) => q.does = "piece"
      /\ k = Parts + 5 => q.does = "row" /\ q.value = "completed"
      /\ k = Parts + 6 => q.does = "work"
      /\ k = Parts + 7 => q.does = "append" /\ q.value = "completed"
      /\ k = Parts + 8 => q.does = "publish"
  BY <1>2, <1>3, Kinds
<1>6. /\ q.does = "row" <=> k \in {2, Parts + 5}
      /\ q.does = "append" <=> k \in {3, Parts + 7}
      /\ q.does = "piece" <=> k \in 5..(Parts + 4)
      /\ k \in {2, Parts + 5} => q.value = IF k = 2 THEN "stored" ELSE "completed"
      /\ k \in {3, Parts + 7} => q.value = IF k = 3 THEN "started" ELSE "completed"
      /\ q.does # "limit"
  BY <1>0, <1>4, <1>5
<1>. QED  BY <1>1, <1>2, <1>3, <1>6 DEF k, q

-----------------------------------------------------------------------------
(* A job after a step, as its row, stream, pieces and place say.           *)
Stays(j) == /\ TypedHere(path[j], step[j], row[j], stream[j], pieces[j])
            /\ StepInRange(j) /\ JobIs(j)

(* Where typing holds, it holds of each job.                               *)
LEMMA HereTyped ==
  ASSUME JobsTyped, NEW j \in J!Job
  PROVE  /\ TypedHere(path[j], step[j], row[j], stream[j], pieces[j])
         /\ step[j] \in Nat /\ row[j] \in J!Status /\ stream[j] \in Seq(J!Event) /\ pieces[j] \in Nat
         /\ faults \in Nat
<1>1. MaxFaults \in Nat
  BY JobsAssumption DEF J!JobRunsAssumption
<1>. QED  BY <1>1 DEF JobsTyped, TypedHere

(* processJob and its catch keep what is said of a media job.              *)
LEMMA MediaAdvances ==
  ASSUME JobsTyped, NEW j \in MediaJob, StepInRange(j), JobIs(j), J!Step(j)
  PROVE  Stays(j)'
<1> DEFINE q == J!Now(j)
           p == path[j]   s == step[j]   r == row[j]   t == stream[j]   n == pieces[j]
           p2 == path'[j] s2 == step'[j] r2 == row'[j] t2 == stream'[j] n2 == pieces'[j]
           m == Len(J!Sequence(j))
<1>1. j \in J!Job
  BY DEF J!Job
<1>2. /\ s \in Nat /\ r \in J!Status /\ t \in Seq(J!Event) /\ n \in Nat
      /\ MediaIs(p, s, r, t, n)
  BY <1>1, HereTyped DEF JobIs
<1>3. /\ p \in {"script", "catch"}
      /\ p2 = IF s = m THEN "done" ELSE p
      /\ s2 = IF s = m THEN 1 ELSE s + 1
      /\ r2 = IF q.does = "row" /\ ~(p = "catch" /\ r = "none") THEN q.value ELSE r
      /\ t2 = IF q.does = "append" THEN Append(t, q.value) ELSE t
      /\ n2 = IF q.does = "piece" THEN n + 1 ELSE n
  <2>1. J!Running(j) /\ q.does # "limit"
    BY <1>1, StepIs, MediaNow
  <2>. QED  BY <1>1, <2>1, StepIs, OneKind DEF J!Running
<1>4. /\ p = "script" =>
           /\ s \in 1..10 /\ m = 10
           /\ q.does = "row" <=> s \in {1, 4, 8}
           /\ q.does = "append" <=> s \in {2, 9}
           /\ q.does = "piece" <=> s = 6
           /\ s \in {1, 4, 8} =>
                q.value = IF s = 1 THEN "pending" ELSE IF s = 4 THEN "processing" ELSE "completed"
           /\ s \in {2, 9} => q.value = IF s = 2 THEN "created" ELSE "completed"
      /\ p = "catch" =>
           /\ s \in 1..3 /\ m = 3
           /\ q.does = "row" <=> s = 1
           /\ q.does = "append" <=> s = 2
           /\ q.does # "piece"
           /\ s \in 1..2 => q.value = "failed"
  BY <1>3, MediaNow DEF J!Running
<1>5. /\ p = "script" /\ s \in {1, 4, 8} =>
           MediaIs(p, s + 1, IF s = 1 THEN "pending" ELSE IF s = 4 THEN "processing" ELSE "completed", t, n)
      /\ p = "script" /\ s \in {2, 9} =>
           MediaIs(p, s + 1, r, Append(t, IF s = 2 THEN "created" ELSE "completed"), n)
      /\ p = "script" /\ s \in {3, 5, 7} => MediaIs(p, s + 1, r, t, n)
      /\ p = "script" /\ s = 6 => MediaIs(p, s + 1, r, t, n + 1)
      /\ p = "script" /\ s = 10 => MediaIs("done", 1, r, t, n)
      /\ p = "catch" /\ s = 1 => MediaIs(p, 2, "failed", t, n)
      /\ p = "catch" /\ s = 2 => MediaIs(p, 3, r, Append(t, "failed"), n)
      /\ p = "catch" /\ s = 3 => MediaIs("done", 1, r, t, n)
  BY <1>2, MediaGoes
<1>6. p = "catch" => r # "none"
  BY <1>2 DEF MediaIs
<1>7. /\ Len(J!Script[j]) = 10 /\ Len(J!Handler[j]) = 3
      /\ q.does = "row" => q.value \in J!Status
      /\ q.does = "append" => q.value \in J!Event
  BY <1>3, <1>4, MediaScript, Handlers DEF J!Status, J!Event
<1> HIDE DEF q, p, s, r, t, n, p2, s2, r2, t2, n2, m
<1>8. MediaIs(p2, s2, r2, t2, n2)
  <2>1. CASE p = "script"
    <3>1. s \in {1, 4, 8} \/ s \in {2, 9} \/ s \in {3, 5, 7} \/ s = 6 \/ s = 10
      BY <1>4, <2>1
    <3>. QED  BY <1>3, <1>4, <1>5, <2>1, <3>1
  <2>2. CASE p = "catch"
    <3>1. s = 1 \/ s = 2 \/ s = 3
      BY <1>4, <2>2
    <3>. QED  BY <1>3, <1>4, <1>5, <1>6, <2>2, <3>1
  <2>. QED  BY <1>3, <2>1, <2>2
<1>9. TypedHere(p2, s2, r2, t2, n2)
  <2>1. t2 \in Seq(J!Event)
    BY <1>2, <1>3, <1>7, ToldMore
  <2>. QED  BY <1>2, <1>3, <1>7, <2>1 DEF TypedHere, J!Ended
<1>10. /\ p2 = "script" => s2 \in 1..10
       /\ p2 = "catch" => s2 \in 1..3
       /\ p2 \notin {"script", "catch"} => s2 = 1
  BY <1>2, <1>3, <1>4
<1>11. StepInRange(j)'
  BY <1>7, <1>10 DEF StepInRange, J!Running, p2, s2
<1>12. JobIs(j)'
  BY <1>8, OneKind DEF JobIs, p2, s2, r2, t2, n2
<1>. QED  BY <1>9, <1>11, <1>12 DEF Stays, p2, s2, r2, t2, n2

(* Gateway and orchestrator keep what is said of an AI run.                *)
LEMMA RunAdvances ==
  ASSUME JobsTyped, NEW j \in AiRun, StepInRange(j), JobIs(j), J!Step(j)
  PROVE  Stays(j)'
<1> DEFINE q == J!Now(j)
           p == path[j]   s == step[j]   r == row[j]   t == stream[j]   n == pieces[j]
           p2 == path'[j] s2 == step'[j] r2 == row'[j] t2 == stream'[j] n2 == pieces'[j]
           m == Len(J!Sequence(j))   f == faults
<1>1. j \in J!Job
  BY DEF J!Job
<1>2. /\ s \in Nat /\ r \in J!Status /\ t \in Seq(J!Event) /\ n \in Nat /\ f \in Nat
      /\ RunIs(p, s, r, t, n, f)
  BY <1>1, HereTyped DEF JobIs
<1>3. /\ p \in {"script", "catch"} /\ faults' = f
      /\ \/ q.does = "limit" /\ p2 = "refused" /\ s2 = 1
         \/ /\ p2 = IF s = m THEN IF p = "catch" THEN "thrown" ELSE "done" ELSE p
            /\ s2 = IF s = m THEN 1 ELSE s + 1
      /\ r2 = IF q.does = "row" /\ ~(p = "catch" /\ r = "none") THEN q.value ELSE r
      /\ t2 = IF q.does = "append" THEN Append(t, q.value) ELSE t
      /\ n2 = IF q.does = "piece" THEN n + 1 ELSE n
  <2>. QED  BY <1>1, StepIs DEF J!Running
<1>4. /\ p = "script" =>
           /\ s \in 1..7 /\ m = 7
           /\ q.does = "row" <=> s \in {2, 5}
           /\ q.does = "append" <=> s \in {3, 6}
           /\ q.does = "limit" <=> s = 1
           /\ s \in {2, 5} => q.value = IF s = 2 THEN "running" ELSE "completed"
           /\ s \in {3, 6} => q.value = IF s = 3 THEN "started" ELSE "completed"
      /\ p = "catch" =>
           /\ s \in 1..2 /\ m = 2
           /\ q.does = "row" <=> s = 1
           /\ q.does = "append" <=> s = 2
           /\ q.does # "limit" /\ q.value = "failed"
      /\ q.does # "piece"
  BY <1>3, RunNow DEF J!Running
<1>5. /\ p = "script" /\ s = 1 => RunIs(p, 2, r, t, n, f) /\ RunIs("refused", 1, r, t, n, f)
      /\ p = "script" /\ s = 2 => RunIs(p, 3, "running", t, n, f)
      /\ p = "script" /\ s = 3 => RunIs(p, 4, r, Append(t, "started"), n, f)
      /\ p = "script" /\ s = 4 => RunIs(p, 5, r, t, n, f)
      /\ p = "script" /\ s = 5 => RunIs(p, 6, "completed", t, n, f)
      /\ p = "script" /\ s = 6 => RunIs(p, 7, r, Append(t, "completed"), n, f)
      /\ p = "script" /\ s = 7 => RunIs("done", 1, r, t, n, f)
      /\ p = "catch" /\ s = 1 => RunIs(p, 2, IF r = "none" THEN r ELSE "failed", t, n, f)
      /\ p = "catch" /\ s = 2 => RunIs("thrown", 1, r, Append(t, "failed"), n, f)
  BY <1>2, RunGoes
<1>7. /\ Len(J!Script[j]) = 7 /\ Len(J!Handler[j]) = 2
      /\ q.does = "row" => q.value \in J!Status
      /\ q.does = "append" => q.value \in J!Event
  BY <1>1, <1>3, <1>4, OneKind, RunScript, Handlers DEF J!Status, J!Event
<1> HIDE DEF q, p, s, r, t, n, p2, s2, r2, t2, n2, m, f
<1>8. RunIs(p2, s2, r2, t2, n2, f)
  <2>1. CASE p = "script"
    <3>1. s = 1 \/ s = 2 \/ s = 3 \/ s = 4 \/ s = 5 \/ s = 6 \/ s = 7
      BY <1>4, <2>1
    <3>. QED  BY <1>3, <1>4, <1>5, <2>1, <3>1
  <2>2. CASE p = "catch"
    <3>1. s = 1 \/ s = 2
      BY <1>4, <2>2
    <3>. QED  BY <1>3, <1>4, <1>5, <2>2, <3>1
  <2>. QED  BY <1>3, <2>1, <2>2
<1>9. TypedHere(p2, s2, r2, t2, n2)
  <2>1. t2 \in Seq(J!Event)
    BY <1>2, <1>3, <1>7, ToldMore
  <2>. QED  BY <1>2, <1>3, <1>7, <2>1 DEF TypedHere, J!Ended
<1>10. /\ p2 = "script" => s2 \in 1..7
       /\ p2 = "catch" => s2 \in 1..2
       /\ p2 \notin {"script", "catch"} => s2 = 1
  BY <1>2, <1>3, <1>4
<1>11. StepInRange(j)'
  BY <1>7, <1>10 DEF StepInRange, J!Running, p2, s2
<1>12. JobIs(j)'
  BY <1>3, <1>8, OneKind DEF JobIs, p2, s2, r2, t2, n2, f
<1>. QED  BY <1>9, <1>11, <1>12 DEF Stays, p2, s2, r2, t2, n2

(* A listing pipeline keeps what is said of it.                            *)
LEMMA ListingAdvances ==
  ASSUME JobsTyped, NEW j \in Listing, StepInRange(j), JobIs(j), J!Step(j)
  PROVE  Stays(j)'
<1> DEFINE q == J!Now(j)
           p == path[j]   s == step[j]   r == row[j]   t == stream[j]   n == pieces[j]
           p2 == path'[j] s2 == step'[j] r2 == row'[j] t2 == stream'[j] n2 == pieces'[j]
           m == Len(J!Sequence(j))
           l == 3 * ListingSteps + 4
           d == Drafts(j)
<1>0. Parts \in Nat /\ Parts > 0 /\ ListingSteps \in Nat
  BY OneKind
<1>1. j \in J!Job
  BY DEF J!Job
<1>2. /\ s \in Nat /\ r \in J!Status /\ t \in Seq(J!Event) /\ n \in Nat
      /\ ListingIs(p, s, r, t, n, l, d)
  BY <1>1, HereTyped DEF JobIs
<1>4. /\ p = "script"
      /\ s \in 1..(l + 3) /\ m = l + 3 /\ l \in Nat /\ l > 4
      /\ q.does = "row" <=> s \in {1, l + 1}
      /\ q.does = "append" => s \in {2, l + 2} \cup 4..(l - 1)
      /\ s \in {2, l + 2} => q.does = "append"
      /\ s \in 4..(l - 1) => (q.does = "append" <=> s % 3 = 2)
      /\ q.does = "piece" <=> s = l /\ d = 1
      /\ s \in {1, l + 1} => q.value = IF s = 1 THEN "running" ELSE "completed"
      /\ q.does = "append" =>
           q.value = IF s = 2 THEN "started" ELSE IF s = l + 2 THEN "completed" ELSE "step"
      /\ q.does # "limit"
  <2>1. J!Running(j)
    BY <1>1, StepIs
  <2>. QED  BY <2>1, ListingNow DEF Drafts
<1>3. /\ p2 = IF s = m THEN "done" ELSE p
      /\ s2 = IF s = m THEN 1 ELSE s + 1
      /\ r2 = IF q.does = "row" THEN q.value ELSE r
      /\ t2 = IF q.does = "append" THEN Append(t, q.value) ELSE t
      /\ n2 = IF q.does = "piece" THEN n + 1 ELSE n
  <2>1. q.does # "limit"
    BY <1>4
  <2>. QED  BY <1>1, <1>4, <2>1, StepIs
<1>5. /\ s = 1 => ListingIs(p, 2, "running", t, n, l, d)
      /\ s = 2 => ListingIs(p, 3, r, Append(t, "started"), n, l, d)
      /\ s \in 3..(l - 1) /\ s % 3 # 2 => ListingIs(p, s + 1, r, t, n, l, d)
      /\ s \in 4..(l - 1) /\ s % 3 = 2 => ListingIs(p, s + 1, r, Append(t, "step"), n, l, d)
      /\ s = l => ListingIs(p, s + 1, r, t, n + d, l, d)
      /\ s = l + 1 => ListingIs(p, s + 1, "completed", t, n, l, d)
      /\ s = l + 2 => ListingIs(p, s + 1, r, Append(t, "completed"), n, l, d)
      /\ s = l + 3 => ListingIs("done", 1, r, t, n, l, d)
  <2>1. d \in 0..1
    BY DraftsFew
  <2>. HIDE DEF d, q, p, s, r, t, n, l
  <2>. QED  BY <1>0, <1>2, <1>4, <2>1, ListingGoes
<1>7. /\ Len(J!Script[j]) = m
      /\ q.does = "row" => q.value \in J!Status
      /\ q.does = "append" => q.value \in J!Event
  BY <1>4 DEF J!Sequence, J!Status, J!Event
<1>13. d \in 0..1
  BY DraftsFew
<1> HIDE DEF q, p, s, r, t, n, p2, s2, r2, t2, n2, m, l, d
<1>8. ListingIs(p2, s2, r2, t2, n2, l, d)
  <2>1. s = 1 \/ s = 2 \/ s \in 3..(l - 1) \/ s = l \/ s = l + 1 \/ s = l + 2 \/ s = l + 3
    BY <1>4
  <2>2. CASE s = 1
    BY <1>3, <1>4, <1>5, <2>2
  <2>3. CASE s = 2
    BY <1>3, <1>4, <1>5, <2>3
  <2>4. CASE s \in 3..(l - 1)
    <3>1. CASE q.does = "append"
      <4>1. s \in 4..(l - 1) /\ s % 3 = 2 /\ q.value = "step" /\ s # m /\ s \notin {1, l + 1} /\ s # l
        BY <1>4, <2>4, <3>1
      <4>. QED  BY <1>3, <1>4, <1>5, <3>1, <4>1
    <3>2. CASE q.does # "append"
      <4>1. s # m /\ s \notin {1, l + 1} /\ s # l /\ s % 3 # 2
        BY <1>4, <2>4, <3>2
      <4>. QED  BY <1>3, <1>4, <1>5, <2>4, <3>2, <4>1
    <3>. QED  BY <3>1, <3>2
  <2>5. CASE s = l
    <3>1. n2 = n + d /\ p2 = p /\ s2 = s + 1 /\ r2 = r /\ t2 = t
      BY <1>2, <1>3, <1>4, <1>13, <2>5
    <3>. QED  BY <1>4, <1>5, <2>5, <3>1
  <2>6. CASE s = l + 1
    BY <1>3, <1>4, <1>5, <2>6
  <2>7. CASE s = l + 2
    BY <1>3, <1>4, <1>5, <2>7
  <2>8. CASE s = l + 3
    BY <1>3, <1>4, <1>5, <2>8
  <2>. QED  BY <2>1, <2>2, <2>3, <2>4, <2>5, <2>6, <2>7, <2>8
<1>9. TypedHere(p2, s2, r2, t2, n2)
  <2>1. t2 \in Seq(J!Event)
    BY <1>2, <1>3, <1>7, ToldMore
  <2>. QED  BY <1>2, <1>3, <1>4, <1>7, <2>1 DEF TypedHere, J!Ended
<1>10. /\ p2 = "script" => s2 \in 1..m
       /\ p2 \in {"script", "done"}
       /\ p2 # "script" => s2 = 1
  BY <1>0, <1>2, <1>3, <1>4
<1>11. StepInRange(j)'
  BY <1>7, <1>10 DEF StepInRange, J!Running, p2, s2
<1>12. JobIs(j)'
  BY <1>8, OneKind DEF JobIs, p2, s2, r2, t2, n2, l, d
<1>. QED  BY <1>9, <1>11, <1>12 DEF Stays, p2, s2, r2, t2, n2

(* publishBatch keeps what is said of a batch.                             *)
LEMMA BatchAdvances ==
  ASSUME JobsTyped, NEW j \in Batch, StepInRange(j), JobIs(j), J!Step(j)
  PROVE  Stays(j)'
<1> DEFINE q == J!Now(j)
           p == path[j]   s == step[j]   r == row[j]   t == stream[j]   n == pieces[j]
           p2 == path'[j] s2 == step'[j] r2 == row'[j] t2 == stream'[j] n2 == pieces'[j]
           m == Len(J!Sequence(j))
<1>0. Parts \in Nat /\ Parts > 0 /\ ListingSteps \in Nat
  BY OneKind
<1>1. j \in J!Job
  BY DEF J!Job
<1>2. /\ s \in Nat /\ r \in J!Status /\ t \in Seq(J!Event) /\ n \in Nat
      /\ BatchIs(p, s, r, t, n)
  BY <1>1, HereTyped DEF JobIs
<1>4. /\ p = "script"
      /\ s \in 1..(4 * Parts + 2) /\ m = 4 * Parts + 2 /\ q.does # "row" /\ q.does # "limit"
      /\ \/ s = 1 /\ q.does = "append" /\ q.value = "started"
         \/ s = 2 /\ q.does = "publish"
         \/ \E k \in 0..(Parts - 1) :
              \/ s = 4 * k + 3 /\ q.does = "work"
              \/ s = 4 * k + 4 /\ q.does = "piece"
              \/ s = 4 * k + 5 /\ q.does = "append" /\ q.value = "step"
              \/ s = 4 * k + 6 /\ q.does = "publish"
  <2>1. J!Running(j)
    BY <1>1, StepIs
  <2>. QED  BY <2>1, BatchNow
<1>3. /\ p2 = IF s = m THEN "done" ELSE p
      /\ s2 = IF s = m THEN 1 ELSE s + 1
      /\ r2 = IF q.does = "row" THEN q.value ELSE r
      /\ t2 = IF q.does = "append" THEN Append(t, q.value) ELSE t
      /\ n2 = IF q.does = "piece" THEN n + 1 ELSE n
  <2>1. q.does # "limit"
    BY <1>4
  <2>. QED  BY <1>1, <1>4, <2>1, StepIs
<1>5. /\ s = 1 => BatchIs(p, 2, r, Append(t, "started"), n)
      /\ s = 2 => BatchIs(p, 3, r, t, n)
      /\ \A k \in 0..(Parts - 1) :
           /\ s = 4 * k + 3 => BatchIs(p, s + 1, r, t, n)
           /\ s = 4 * k + 4 => BatchIs(p, s + 1, r, t, n + 1)
           /\ s = 4 * k + 5 => BatchIs(p, s + 1, r, Append(t, "step"), n)
           /\ s = 4 * k + 6 => BatchIs(p, s + 1, r, t, n)
      /\ BatchIs("done", 1, r, t, n)
  BY <1>0, <1>2, <1>4, BatchGoes
<1>7. /\ Len(J!Script[j]) = m
      /\ q.does = "row" => q.value \in J!Status
      /\ q.does = "append" => q.value \in J!Event
  BY <1>4 DEF J!Sequence, J!Status, J!Event
<1> HIDE DEF q, p, s, r, t, n, p2, s2, r2, t2, n2, m
<1>8. BatchIs(p2, s2, r2, t2, n2)
  <2>1. CASE s = 1 /\ q.does = "append" /\ q.value = "started"
    BY <1>0, <1>3, <1>4, <1>5, <2>1
  <2>2. CASE s = 2 /\ q.does = "publish"
    BY <1>0, <1>3, <1>4, <1>5, <2>2
  <2>3. ASSUME NEW k \in 0..(Parts - 1), s = 4 * k + 3 /\ q.does = "work"
        PROVE  BatchIs(p2, s2, r2, t2, n2)
    <3>1. s # m
      BY <1>0, <1>4, <2>3
    <3>. QED  BY <1>3, <1>4, <1>5, <2>3, <3>1
  <2>4. ASSUME NEW k \in 0..(Parts - 1), s = 4 * k + 4 /\ q.does = "piece"
        PROVE  BatchIs(p2, s2, r2, t2, n2)
    <3>1. s # m
      BY <1>0, <1>4, <2>4
    <3>. QED  BY <1>3, <1>4, <1>5, <2>4, <3>1
  <2>5. ASSUME NEW k \in 0..(Parts - 1), s = 4 * k + 5 /\ q.does = "append" /\ q.value = "step"
        PROVE  BatchIs(p2, s2, r2, t2, n2)
    <3>1. s # m
      BY <1>0, <1>4, <2>5
    <3>. QED  BY <1>3, <1>4, <1>5, <2>5, <3>1
  <2>6. ASSUME NEW k \in 0..(Parts - 1), s = 4 * k + 6 /\ q.does = "publish"
        PROVE  BatchIs(p2, s2, r2, t2, n2)
    BY <1>3, <1>4, <1>5, <2>6
  <2>. QED  BY <1>4, <2>1, <2>2, <2>3, <2>4, <2>5, <2>6
<1>9. TypedHere(p2, s2, r2, t2, n2)
  <2>1. t2 \in Seq(J!Event)
    BY <1>2, <1>3, <1>7, ToldMore
  <2>. QED  BY <1>2, <1>3, <1>4, <1>7, <2>1 DEF TypedHere, J!Ended
<1>10. /\ p2 = "script" => s2 \in 1..m
       /\ p2 \in {"script", "done"}
       /\ p2 # "script" => s2 = 1
  BY <1>0, <1>2, <1>3, <1>4
<1>11. StepInRange(j)'
  BY <1>7, <1>10 DEF StepInRange, J!Running, p2, s2
<1>12. JobIs(j)'
  BY <1>8, OneKind DEF JobIs, p2, s2, r2, t2, n2
<1>. QED  BY <1>9, <1>11, <1>12 DEF Stays, p2, s2, r2, t2, n2

(* upload keeps what is said of an upload.                                 *)
LEMMA UploadAdvances ==
  ASSUME JobsTyped, NEW j \in Upload, StepInRange(j), JobIs(j), J!Step(j)
  PROVE  Stays(j)'
<1> DEFINE q == J!Now(j)
           p == path[j]   s == step[j]   r == row[j]   t == stream[j]   n == pieces[j]
           p2 == path'[j] s2 == step'[j] r2 == row'[j] t2 == stream'[j] n2 == pieces'[j]
           m == Len(J!Sequence(j))
<1>0. Parts \in Nat /\ Parts > 0 /\ ListingSteps \in Nat
  BY OneKind
<1>1. j \in J!Job
  BY DEF J!Job
<1>2. /\ s \in Nat /\ r \in J!Status /\ t \in Seq(J!Event) /\ n \in Nat
      /\ UploadIs(p, s, r, t, n)
  BY <1>1, HereTyped DEF JobIs
<1>4. /\ p = "script"
      /\ s \in 1..(Parts + 8) /\ m = Parts + 8
      /\ q.does = "row" <=> s \in {2, Parts + 5}
      /\ q.does = "append" <=> s \in {3, Parts + 7}
      /\ q.does = "piece" <=> s \in 5..(Parts + 4)
      /\ s \in {2, Parts + 5} => q.value = IF s = 2 THEN "stored" ELSE "completed"
      /\ s \in {3, Parts + 7} => q.value = IF s = 3 THEN "started" ELSE "completed"
      /\ q.does # "limit"
  <2>1. J!Running(j)
    BY <1>1, StepIs
  <2>. QED  BY <2>1, UploadNow
<1>3. /\ p2 = IF s = m THEN "done" ELSE p
      /\ s2 = IF s = m THEN 1 ELSE s + 1
      /\ r2 = IF q.does = "row" THEN q.value ELSE r
      /\ t2 = IF q.does = "append" THEN Append(t, q.value) ELSE t
      /\ n2 = IF q.does = "piece" THEN n + 1 ELSE n
  <2>1. q.does # "limit"
    BY <1>4
  <2>. QED  BY <1>1, <1>4, <2>1, StepIs
<1>5. /\ s = 1 => UploadIs(p, 2, r, t, n)
      /\ s = 2 => UploadIs(p, 3, "stored", t, n)
      /\ s = 3 => UploadIs(p, 4, r, Append(t, "started"), n)
      /\ s = 4 => UploadIs(p, 5, r, t, n)
      /\ s \in 5..(Parts + 4) => UploadIs(p, s + 1, r, t, n + 1)
      /\ s = Parts + 5 => UploadIs(p, s + 1, "completed", t, n)
      /\ s = Parts + 6 => UploadIs(p, s + 1, r, t, n)
      /\ s = Parts + 7 => UploadIs(p, s + 1, r, Append(t, "completed"), n)
      /\ s = Parts + 8 => UploadIs("done", 1, r, t, n)
  BY <1>0, <1>2, <1>4, UploadGoes
<1>7. /\ Len(J!Script[j]) = m
      /\ q.does = "row" => q.value \in J!Status
      /\ q.does = "append" => q.value \in J!Event
  BY <1>4 DEF J!Sequence, J!Status, J!Event
<1> HIDE DEF q, p, s, r, t, n, p2, s2, r2, t2, n2, m
<1>8. UploadIs(p2, s2, r2, t2, n2)
  <2>1. \/ s = 1 \/ s = 2 \/ s = 3 \/ s = 4 \/ s \in 5..(Parts + 4) \/ s = Parts + 5 \/ s = Parts + 6
        \/ s = Parts + 7 \/ s = Parts + 8
    BY <1>0, <1>4
  <2>2. CASE s \in 1..4
    BY <1>0, <1>3, <1>4, <1>5, <2>2
  <2>3. CASE s \in 5..(Parts + 4)
    BY <1>0, <1>3, <1>4, <1>5, <2>3
  <2>4. CASE s = Parts + 5
    BY <1>0, <1>3, <1>4, <1>5, <2>4
  <2>5. CASE s = Parts + 6
    BY <1>0, <1>3, <1>4, <1>5, <2>5
  <2>6. CASE s = Parts + 7
    BY <1>0, <1>3, <1>4, <1>5, <2>6
  <2>7. CASE s = Parts + 8
    BY <1>0, <1>3, <1>4, <1>5, <2>7
  <2>. QED  BY <1>0, <2>1, <2>2, <2>3, <2>4, <2>5, <2>6, <2>7
<1>9. TypedHere(p2, s2, r2, t2, n2)
  <2>1. t2 \in Seq(J!Event)
    BY <1>2, <1>3, <1>7, ToldMore
  <2>. QED  BY <1>2, <1>3, <1>4, <1>7, <2>1 DEF TypedHere, J!Ended
<1>10. /\ p2 = "script" => s2 \in 1..m
       /\ p2 \in {"script", "done"}
       /\ p2 # "script" => s2 = 1
  BY <1>0, <1>2, <1>3, <1>4
<1>11. StepInRange(j)'
  BY <1>7, <1>10 DEF StepInRange, J!Running, p2, s2
<1>12. JobIs(j)'
  BY <1>8, OneKind DEF JobIs, p2, s2, r2, t2, n2
<1>. QED  BY <1>9, <1>11, <1>12 DEF Stays, p2, s2, r2, t2, n2

(* Whatever its kind, a step of a job keeps what is said of it.            *)
LEMMA JobAdvances ==
  ASSUME JobsTyped, NEW j \in J!Job, StepInRange(j), JobIs(j), J!Step(j)
  PROVE  Stays(j)'
BY MediaAdvances, RunAdvances, ListingAdvances, BatchAdvances, UploadAdvances DEF J!Job

(* A job nothing happens to, though a step of another one throws.          *)
LEMMA JobRests ==
  ASSUME JobsTyped, NEW j \in J!Job, StepInRange(j), JobIs(j),
         faults' = faults \/ faults' = faults + 1,
         row'[j] = row[j], stream'[j] = stream[j], pieces'[j] = pieces[j],
         path'[j] = path[j], step'[j] = step[j]
  PROVE  Stays(j)'
<1>1. /\ TypedHere(path[j], step[j], row[j], stream[j], pieces[j])
      /\ step[j] \in Nat /\ row[j] \in J!Status /\ stream[j] \in Seq(J!Event) /\ faults \in Nat
  BY HereTyped
<1>2. j \in AiRun => RunIs(path[j], step[j], row[j], stream[j], pieces[j], faults')
  <2>1. j \in AiRun => RunIs(path[j], step[j], row[j], stream[j], pieces[j], faults)
    BY DEF JobIs
  <2>2. j \in AiRun => RunIs(path[j], step[j], row[j], stream[j], pieces[j], faults + 1)
    BY <1>1, <2>1, RunGoes
  <2>. QED  BY <2>1, <2>2
<1>3. JobIs(j)'
  BY <1>2 DEF JobIs
<1>4. StepInRange(j)'
  BY DEF StepInRange, J!Running
<1>. QED  BY <1>1, <1>3, <1>4 DEF Stays

(* A job cut off by the end of the process.                                *)
LEMMA JobIsCut ==
  ASSUME JobsTyped, NEW j \in J!Job, StepInRange(j), JobIs(j), J!Running(j),
         faults' = faults + 1,
         row'[j] = row[j], stream'[j] = stream[j], pieces'[j] = pieces[j],
         path'[j] = "cut", step'[j] = 1
  PROVE  Stays(j)'
<1> DEFINE p == path[j]   s == step[j]   r == row[j]   t == stream[j]   n == pieces[j]
           l == 3 * ListingSteps + 4
<1>1. /\ TypedHere(p, s, r, t, n)
      /\ s \in Nat /\ r \in J!Status /\ t \in Seq(J!Event) /\ faults \in Nat /\ n \in Nat
      /\ l \in Nat /\ l > 4
  BY HereTyped, OneKind
<1>2. /\ p \in {"script", "catch"}
      /\ p = "catch" => j \in MediaJob \cup AiRun
  BY DEF J!Running, StepInRange
<1>3. j \in MediaJob => MediaIs("cut", 1, r, t, n)
  BY <1>1, <1>2, MediaGoes DEF JobIs
<1>4. j \in AiRun => RunIs("cut", 1, r, t, n, faults + 1)
  BY <1>1, <1>2, RunGoes DEF JobIs
<1>5. j \in Listing => ListingIs("cut", 1, r, t, n, l, Drafts(j))
  <2>1. j \in Listing => p = "script" /\ ListingIs(p, s, r, t, n, l, Drafts(j))
    BY <1>2, OneKind DEF JobIs
  <2>. HIDE DEF p, s, r, t, n, l
  <2>. QED  BY <1>1, <2>1, ListingGoes, DraftsFew
<1>6. j \in Batch => BatchIs("cut", 1, r, t, n)
  BY <1>1, <1>2, OneKind, BatchGoes DEF JobIs
<1>7. j \in Upload => UploadIs("cut", 1, r, t, n)
  BY <1>1, <1>2, OneKind, UploadGoes DEF JobIs
<1>8. JobIs(j)'
  BY <1>3, <1>4, <1>5, <1>6, <1>7 DEF JobIs
<1>9. StepInRange(j)' /\ TypedHere("cut", 1, r, t, n)
  BY <1>1 DEF StepInRange, J!Running, TypedHere, J!Ended
<1>. QED  BY <1>8, <1>9 DEF Stays

(* A job that is asked for.                                                *)
LEMMA JobStarts ==
  ASSUME JobsTyped, NEW j \in J!Job, StepInRange(j), JobIs(j), path[j] = "idle",
         faults' = faults,
         row'[j] = row[j], stream'[j] = stream[j], pieces'[j] = pieces[j],
         path'[j] = "script", step'[j] = 1
  PROVE  Stays(j)'
<1> DEFINE s == step[j]   r == row[j]   t == stream[j]   n == pieces[j]
           l == 3 * ListingSteps + 4
<1>1. /\ TypedHere("idle", s, r, t, n)
      /\ s \in Nat /\ r \in J!Status /\ t \in Seq(J!Event) /\ faults \in Nat /\ n \in Nat
      /\ l \in Nat /\ l > 4
  BY HereTyped, OneKind
<1>3. j \in MediaJob => MediaIs("script", 1, r, t, n)
  BY <1>1, MediaGoes DEF JobIs
<1>4. j \in AiRun => RunIs("script", 1, r, t, n, faults)
  BY <1>1, RunGoes DEF JobIs
<1>5. j \in Listing => ListingIs("script", 1, r, t, n, l, Drafts(j))
  <2>1. j \in Listing => ListingIs("idle", s, r, t, n, l, Drafts(j))
    BY DEF JobIs
  <2>. HIDE DEF s, r, t, n, l
  <2>. QED  BY <1>1, <2>1, ListingGoes, DraftsFew
<1>6. j \in Batch => BatchIs("script", 1, r, t, n)
  BY <1>1, BatchGoes DEF JobIs
<1>7. j \in Upload => UploadIs("script", 1, r, t, n)
  BY <1>1, UploadGoes DEF JobIs
<1>8. JobIs(j)'
  BY <1>3, <1>4, <1>5, <1>6, <1>7 DEF JobIs
<1>10. 1 \in 1..Len(J!Script[j])
  <2> DEFINE m == Len(J!Script[j])
  <2>1. Parts \in Nat /\ ListingSteps \in Nat
    BY OneKind
  <2>2. j \in MediaJob => m = 10
    BY MediaScript
  <2>3. j \in AiRun => m = 7
    BY RunScript
  <2>4. j \in Listing => m = 3 * ListingSteps + 7
    BY ListingScript
  <2>5. j \in Batch => m = 4 * Parts + 2
    BY BatchScript
  <2>6. j \in Upload => m = Parts + 8
    BY UploadScript
  <2> HIDE DEF m
  <2>7. m >= 1 /\ m \in Nat
    BY <2>1, <2>2, <2>3, <2>4, <2>5, <2>6 DEF J!Job
  <2>. QED  BY <2>7 DEF m
<1>9. StepInRange(j)' /\ TypedHere("script", 1, r, t, n)
  BY <1>1, <1>10 DEF StepInRange, J!Running, TypedHere, J!Ended
<1>. QED  BY <1>8, <1>9 DEF Stays

(* createJob is three steps long.                                          *)
LEMMA CreateIsThree == Len(J!CreateJob) = 3
BY DEF J!CreateJob, J!Set, J!Tell, J!Do

(* A job that goes to its catch, or whose caller is given the error.       *)
LEMMA JobIsThrown ==
  ASSUME JobsTyped, NEW j \in J!Job, StepInRange(j), JobIs(j), J!Running(j),
         faults' = faults + 1,
         row'[j] = row[j], stream'[j] = stream[j], pieces'[j] = pieces[j], step'[j] = 1,
         \/ J!InTry(j) /\ path'[j] = "catch"
         \/ ~J!InTry(j) /\ ~J!Detached(j) /\ path'[j] = "thrown"
  PROVE  Stays(j)'
<1> DEFINE p == path[j]   s == step[j]   r == row[j]   t == stream[j]   n == pieces[j]
           l == 3 * ListingSteps + 4
           p2 == path'[j]
<1>1. /\ TypedHere(p, s, r, t, n)
      /\ s \in Nat /\ r \in J!Status /\ t \in Seq(J!Event) /\ faults \in Nat /\ n \in Nat
      /\ l \in Nat /\ l > 4
  BY HereTyped, OneKind
<1>2. /\ p \in {"script", "catch"}
      /\ p = "catch" => j \in MediaJob \cup AiRun
      /\ p = "script" => s >= 1
  BY <1>1 DEF J!Running, StepInRange
<1>3. /\ p2 = "catch" => p = "script" /\ j \in MediaJob \cup AiRun
      /\ j \in MediaJob => p = "script" /\ ((p2 = "catch" /\ s > 4) \/ (p2 = "thrown" /\ s <= 3))
      /\ j \in AiRun => \/ p = "script" /\ ((p2 = "catch" /\ s > 1) \/ (p2 = "thrown" /\ s = 1))
                        \/ p = "catch" /\ p2 = "thrown"
      /\ p2 \in {"catch", "thrown"}
  BY <1>1, <1>2, OneKind, CreateIsThree DEF J!InTry, J!Detached
<1>4. j \in MediaJob => MediaIs(p2, 1, r, t, n)
  <2>1. j \in MediaJob => MediaIs(p, s, r, t, n)
    BY DEF JobIs
  <2>. HIDE DEF p, s, r, t, n, p2
  <2>. QED  BY <1>1, <1>3, <2>1, MediaGoes
<1>5. j \in AiRun => RunIs(p2, 1, r, t, n, faults + 1)
  <2>1. j \in AiRun => RunIs(p, s, r, t, n, faults)
    BY DEF JobIs
  <2> DEFINE f == faults
  <2>. HIDE DEF p, s, r, t, n, p2, f
  <2>2. j \in AiRun => /\ p = "script" /\ s > 1 => RunIs("catch", 1, r, t, n, f + 1)
                       /\ p = "script" /\ s = 1 => RunIs("thrown", 1, r, t, n, f + 1)
                       /\ p = "catch" => RunIs("thrown", 1, r, t, n, f + 1)
    BY <1>1, <2>1, RunGoes DEF f
  <2>. QED  BY <1>3, <2>2 DEF f
<1>6. j \in Listing \cup Batch \cup Upload => p = "script" /\ p2 = "thrown"
  BY <1>2, <1>3, OneKind
<1>7. j \in Listing => ListingIs(p2, 1, r, t, n, l, Drafts(j))
  <2>1. j \in Listing => p = "script" /\ p2 = "thrown" /\ ListingIs(p, s, r, t, n, l, Drafts(j))
    BY <1>6 DEF JobIs
  <2>. HIDE DEF p, s, r, t, n, l, p2
  <2>. QED  BY <1>1, <2>1, ListingGoes, DraftsFew
<1>8. j \in Batch => BatchIs(p2, 1, r, t, n)
  <2>1. j \in Batch => p = "script" /\ p2 = "thrown" /\ BatchIs(p, s, r, t, n)
    BY <1>6 DEF JobIs
  <2>. HIDE DEF p, s, r, t, n, p2
  <2>. QED  BY <1>1, <2>1, BatchGoes
<1>9. j \in Upload => UploadIs(p2, 1, r, t, n)
  <2>1. j \in Upload => p = "script" /\ p2 = "thrown" /\ UploadIs(p, s, r, t, n)
    BY <1>6 DEF JobIs
  <2>. HIDE DEF p, s, r, t, n, p2
  <2>. QED  BY <1>1, <2>1, UploadGoes
<1>10. JobIs(j)'
  BY <1>4, <1>5, <1>7, <1>8, <1>9 DEF JobIs
<1>11. Len(J!Handler[j]) \in {2, 3}
  BY Handlers
<1>12. StepInRange(j)' /\ TypedHere(p2, 1, r, t, n)
  <2> DEFINE m == Len(J!Handler[j])
  <2>1. TypedHere(p2, 1, r, t, n)
    BY <1>1, <1>3 DEF TypedHere, J!Ended
  <2>0. m \in {2, 3}
    BY <1>11
  <2>. HIDE DEF m
  <2>2. p2 = "catch" => j \in MediaJob \cup AiRun /\ 1 \in 1..m
    BY <1>3, <2>0
  <2>3. StepInRange(j)'
    BY <1>3, <2>2, Zenon DEF StepInRange, J!Running, m, p2
  <2>. QED  BY <2>1, <2>3
<1>. QED  BY <1>10, <1>12 DEF Stays

(* An append of a run's event that its publisher swallows.                 *)
LEMMA JobSwallows ==
  ASSUME JobsTyped, NEW j \in AiRun, StepInRange(j), JobIs(j), J!Running(j),
         J!Now(j).does = "append", J!Advance(j), faults' = faults + 1,
         row'[j] = row[j], stream'[j] = stream[j], pieces'[j] = pieces[j]
  PROVE  Stays(j)' /\ (path'[j] = "script" => row[j] # "none")
<1> DEFINE p == path[j]   s == step[j]   r == row[j]   t == stream[j]   n == pieces[j]
           p2 == path'[j] s2 == step'[j]   f == faults
           m == Len(J!Sequence(j))
<1>1. /\ TypedHere(p, s, r, t, n) /\ j \in J!Job
      /\ s \in Nat /\ r \in J!Status /\ t \in Seq(J!Event) /\ f \in Nat /\ n \in Nat
      /\ RunIs(p, s, r, t, n, f)
  BY HereTyped DEF JobIs, J!Job
<1>2. /\ p2 = IF s = m THEN IF p = "catch" THEN "thrown" ELSE "done" ELSE p
      /\ s2 = IF s = m THEN 1 ELSE s + 1
  BY <1>1 DEF J!Advance, J!Finish, J!At, JobsTyped
<1>3. \/ p = "script" /\ s \in {3, 6} /\ m = 7
      \/ p = "catch" /\ s = 2 /\ m = 2
  BY RunNow DEF J!Running
<1>4. /\ p = "script" /\ s \in {3, 6} => RunIs(p, s + 1, r, t, n, f + 1)
      /\ p = "catch" /\ s = 2 => RunIs("thrown", 1, r, t, n, f + 1)
  BY <1>1, RunGoes
<1>5. Len(J!Script[j]) = 7
  BY RunScript
<1> HIDE DEF p, s, r, t, n, p2, s2, m
<1>6. RunIs(p2, s2, r, t, n, f + 1) /\ (p2 = "script" => s2 \in 1..7 /\ p = "script") /\ p2 \in {"script", "thrown"}
      /\ s2 \in Nat /\ (p2 # "script" => s2 = 1)
  BY <1>1, <1>2, <1>3, <1>4
<1>7. JobIs(j)'
  BY <1>6, OneKind DEF JobIs, p2, s2, r, t, n
<1>8. StepInRange(j)'
  BY <1>5, <1>6 DEF StepInRange, J!Running, p2, s2
<1>9. TypedHere(p2, s2, r, t, n)
  BY <1>1, <1>6 DEF TypedHere, J!Ended
<1>10. p2 = "script" => r # "none"
  BY <1>1, <1>3, <1>6 DEF RunIs
<1>. QED  BY <1>7, <1>8, <1>9, <1>10 DEF Stays, p2, s2, r, t, n

-----------------------------------------------------------------------------
(* The variables are functions on the jobs.                                *)
JobByJob ==
  /\ row = [k \in J!Job |-> row[k]] /\ stream = [k \in J!Job |-> stream[k]]
  /\ pieces = [k \in J!Job |-> pieces[k]] /\ path = [k \in J!Job |-> path[k]]
  /\ step = [k \in J!Job |-> step[k]]

(* Job by job the invariant is kept, so it is kept.                        *)
LEMMA TakenTogether ==
  ASSUME JobByJob', (faults \in 0..MaxFaults)', \A k \in J!Job : Stays(k)'
  PROVE  JobsTyped' /\ (\A k \in J!Job : StepInRange(k) /\ JobIs(k))'
<1>1. \A k \in J!Job : /\ (row')[k] \in J!Status /\ (stream')[k] \in Seq(J!Event)
                       /\ (pieces')[k] \in Nat /\ (step')[k] \in Nat
                       /\ (path')[k] \in {"idle", "script", "catch"} \cup J!Ended
  BY DEF Stays, TypedHere
<1>2. JobsTyped'
  BY <1>1 DEF JobByJob, JobsTyped
<1>3. (\A k \in J!Job : StepInRange(k) /\ JobIs(k))'
  BY DEF Stays
<1>. QED  BY <1>2, <1>3

(* An update at one job.                                                   *)
LEMMA ElsewhereSame ==
  ASSUME NEW D, NEW g, g = [k \in D |-> g[k]], NEW j \in D, NEW v, NEW h, h = [g EXCEPT ![j] = v]
  PROVE  h = [k \in D |-> h[k]] /\ \A k \in D : k # j => h[k] = g[k]
OBVIOUS

(* Typing makes the variables functions on the jobs.                       *)
LEMMA TypedByJob ==
  ASSUME JobsTyped
  PROVE  JobByJob /\ MaxFaults \in Nat /\ faults \in Nat
<1>1. MaxFaults \in Nat
  BY JobsAssumption DEF J!JobRunsAssumption
<1>. QED  BY <1>1 DEF JobsTyped, JobByJob

(* A step changes one job, and keeps what is said of all.                  *)
LEMMA StepKeepsJobs ==
  ASSUME JobsInv, NEW j \in J!Job, J!Step(j)
  PROVE  /\ JobsTyped' /\ (\A k \in J!Job : StepInRange(k) /\ JobIs(k))'
         /\ \A k \in J!Job : k # j => /\ (row')[k] = row[k] /\ (path')[k] = path[k]
                                     /\ (step')[k] = step[k]
<1>1. /\ JobsTyped /\ \A k \in J!Job : StepInRange(k) /\ JobIs(k)
      /\ JobByJob /\ MaxFaults \in Nat /\ faults \in Nat
  BY TypedByJob DEF JobsInv
<1>2. /\ faults' = faults
      /\ row' = [row EXCEPT ![j] = (row')[j]] /\ stream' = [stream EXCEPT ![j] = (stream')[j]]
      /\ pieces' = [pieces EXCEPT ![j] = (pieces')[j]]
      /\ path' = [path EXCEPT ![j] = (path')[j]] /\ step' = [step EXCEPT ![j] = (step')[j]]
  BY <1>1, StepIs
<1>3. row' = [k \in J!Job |-> (row')[k]] /\ \A k \in J!Job : k # j => (row')[k] = row[k]
  BY <1>1, <1>2, ElsewhereSame DEF JobByJob
<1>4. stream' = [k \in J!Job |-> (stream')[k]] /\ \A k \in J!Job : k # j => (stream')[k] = stream[k]
  BY <1>1, <1>2, ElsewhereSame DEF JobByJob
<1>5. pieces' = [k \in J!Job |-> (pieces')[k]] /\ \A k \in J!Job : k # j => (pieces')[k] = pieces[k]
  BY <1>1, <1>2, ElsewhereSame DEF JobByJob
<1>6. path' = [k \in J!Job |-> (path')[k]] /\ \A k \in J!Job : k # j => (path')[k] = path[k]
  BY <1>1, <1>2, ElsewhereSame DEF JobByJob
<1>7. step' = [k \in J!Job |-> (step')[k]] /\ \A k \in J!Job : k # j => (step')[k] = step[k]
  BY <1>1, <1>2, ElsewhereSame DEF JobByJob
<1>8. \A k \in J!Job : Stays(k)'
  <2>1. Stays(j)'
    BY <1>1, JobAdvances
  <2>2. ASSUME NEW k \in J!Job, k # j
        PROVE  Stays(k)'
    BY <1>1, <1>2, <1>3, <1>4, <1>5, <1>6, <1>7, <2>2, JobRests
  <2>. QED  BY <2>1, <2>2
<1>9. JobByJob' /\ (faults \in 0..MaxFaults)'
  BY <1>1, <1>2, <1>3, <1>4, <1>5, <1>6, <1>7 DEF JobByJob, JobsTyped
<1>. QED  BY <1>3, <1>6, <1>7, <1>8, <1>9, TakenTogether

(* Where only one job's place changes.                                     *)
LEMMA MoveKeepsJobs ==
  ASSUME JobsInv, NEW j \in J!Job, UNCHANGED <<row, stream, pieces>>, Stays(j)',
         faults' = faults \/ (faults < MaxFaults /\ faults' = faults + 1),
         NEW p, NEW s, path' = [path EXCEPT ![j] = p], step' = [step EXCEPT ![j] = s]
  PROVE  /\ JobsTyped' /\ (\A k \in J!Job : StepInRange(k) /\ JobIs(k))'
         /\ \A k \in J!Job : k # j => /\ (row')[k] = row[k] /\ (path')[k] = path[k]
                                     /\ (step')[k] = step[k]
<1>1. /\ JobsTyped /\ \A k \in J!Job : StepInRange(k) /\ JobIs(k)
      /\ JobByJob /\ MaxFaults \in Nat /\ faults \in Nat
  BY TypedByJob DEF JobsInv
<1>6. path' = [k \in J!Job |-> (path')[k]] /\ \A k \in J!Job : k # j => (path')[k] = path[k]
  BY <1>1, ElsewhereSame DEF JobByJob
<1>7. step' = [k \in J!Job |-> (step')[k]] /\ \A k \in J!Job : k # j => (step')[k] = step[k]
  BY <1>1, ElsewhereSame DEF JobByJob
<1>8. \A k \in J!Job : Stays(k)'
  <2>2. ASSUME NEW k \in J!Job, k # j
        PROVE  Stays(k)'
    BY <1>1, <1>6, <1>7, <2>2, JobRests
  <2>. QED  BY <2>2
<1>9. JobByJob' /\ (faults \in 0..MaxFaults)'
  BY <1>1, <1>6, <1>7 DEF JobByJob, JobsTyped
<1>. QED  BY <1>6, <1>7, <1>8, <1>9, TakenTogether

(* The process exits.                                                      *)
LEMMA DeathKeepsJobs ==
  ASSUME JobsInv, UNCHANGED <<row, stream, pieces>>, faults < MaxFaults, faults' = faults + 1,
         J!ProcessDies
  PROVE  /\ JobsTyped' /\ (\A k \in J!Job : StepInRange(k) /\ JobIs(k))'
         /\ \A k \in J!Job : /\ (path')[k] \notin {"script", "catch"}
<1>1. /\ JobsTyped /\ \A k \in J!Job : StepInRange(k) /\ JobIs(k)
      /\ JobByJob /\ MaxFaults \in Nat /\ faults \in Nat
  BY TypedByJob DEF JobsInv
<1>2. \A k \in J!Job : /\ J!Running(k) => (path')[k] = "cut" /\ (step')[k] = 1
                       /\ ~J!Running(k) => (path')[k] = path[k] /\ (step')[k] = step[k]
  BY DEF J!ProcessDies
<1>3. path' = [k \in J!Job |-> (path')[k]] /\ step' = [k \in J!Job |-> (step')[k]]
  BY DEF J!ProcessDies
<1>4. ASSUME NEW k \in J!Job PROVE Stays(k)'
  <2>1. CASE J!Running(k)
    BY <1>1, <1>2, <2>1, JobIsCut
  <2>2. CASE ~J!Running(k)
    BY <1>1, <1>2, <2>2, JobRests
  <2>. QED  BY <2>1, <2>2
<1>5. JobByJob' /\ (faults \in 0..MaxFaults)'
  BY <1>1, <1>3 DEF JobByJob
<1>6. \A k \in J!Job : (path')[k] \notin {"script", "catch"}
  BY <1>2 DEF J!Running
<1>. QED  BY <1>4, <1>5, <1>6, TakenTogether

-----------------------------------------------------------------------------
(* The limit.                                                              *)

(* Nobody starts, nobody inserts a row, nobody passes.                     *)
LEMMA LimitRests ==
  ASSUME LimitCounted, \A k \in J!Job : J!Running(k)' => J!Running(k),
         J!Recent' = J!Recent, Passing' \subseteq Passing
  PROVE  LimitCounted'
<1> DEFINE A == {k \in J!Job : J!Running(k)}
           B == {k \in J!Job : J!Running(k)'}
<1>1. /\ \A S \in SUBSET J!Job : IsFiniteSet(S) /\ Cardinality(S) \in Nat
      /\ Cardinality(J!Recent) \in Nat /\ DailyLimit \in Nat /\ Slots \in Nat
  BY RecentFinite
<1>2. A \in SUBSET J!Job /\ B \subseteq A /\ B \in SUBSET J!Job
  OBVIOUS
<1>3. Passing \in SUBSET J!Job
  BY DEF Passing, J!Job
<1>4. Passing' \in SUBSET J!Job
  BY <1>3
<1>5. Cardinality(A) <= Slots /\ Cardinality(J!Recent) + Cardinality(Passing) <= DailyLimit + Slots
  BY DEF LimitCounted
<1> HIDE DEF A, B
<1>6. Cardinality(B) <= Cardinality(A)
  BY <1>1, <1>2, FS_Subset
<1>7. Cardinality(Passing') <= Cardinality(Passing)
  BY <1>1, <1>3, FS_Subset
<1>8. Cardinality(B) <= Slots
  BY <1>1, <1>2, <1>5, <1>6
<1>9. Cardinality(J!Recent') + Cardinality(Passing') <= DailyLimit + Slots
  <2>1. Cardinality(Passing) \in Nat /\ Cardinality(Passing') \in Nat
    BY <1>1, <1>3, <1>4
  <2> DEFINE c == Cardinality(Passing)  d == Cardinality(Passing')  e == Cardinality(J!Recent)
  <2>2. c \in Nat /\ d \in Nat /\ e \in Nat /\ d <= c /\ e + c <= DailyLimit + Slots
    BY <1>1, <1>5, <1>7, <2>1
  <2> HIDE DEF c, d, e
  <2>3. e + d <= DailyLimit + Slots
    BY <1>1, <2>2
  <2>. QED  BY <2>3 DEF d, e
<1>. QED  BY <1>8, <1>9 DEF LimitCounted, B

(* As long as nobody starts, no more are under way.                        *)
LEMMA FewerRun ==
  ASSUME LimitCounted, \A k \in J!Job : J!Running(k)' => J!Running(k)
  PROVE  /\ Cardinality({k \in J!Job : J!Running(k)})' <= Slots
         /\ Cardinality(Passing') <= Slots
<1> DEFINE A == {k \in J!Job : J!Running(k)}
           B == {k \in J!Job : J!Running(k)'}
           P == Passing'
<1>1. /\ \A S \in SUBSET J!Job : IsFiniteSet(S) /\ Cardinality(S) \in Nat
      /\ Slots \in Nat
  BY RecentFinite
<1>2. A \in SUBSET J!Job /\ B \subseteq A /\ B \in SUBSET J!Job
  OBVIOUS
<1>3. P \subseteq B
  BY DEF Passing, J!Job, J!Running
<1>4. Cardinality(A) <= Slots
  BY DEF LimitCounted
<1> HIDE DEF A, B, P
<1>5. Cardinality(B) <= Cardinality(A) /\ Cardinality(B) \in Nat /\ Cardinality(A) \in Nat
  BY <1>1, <1>2, FS_Subset
<1>6. Cardinality(P) <= Cardinality(B) /\ Cardinality(P) \in Nat
  BY <1>1, <1>2, <1>3, FS_Subset
<1>7. Cardinality(B) <= Slots /\ Cardinality(P) <= Slots
  BY <1>1, <1>4, <1>5, <1>6
<1>. QED  BY <1>7 DEF B, P

(* A run that passes has counted the rows: the others that may insert one  *)
(* are under way.                                                          *)
LEMMA RunPasses ==
  ASSUME LimitCounted, \A k \in J!Job : J!Running(k)' => J!Running(k),
         J!Recent' = J!Recent, Cardinality(J!Recent) <= DailyLimit
  PROVE  LimitCounted'
<1>1. /\ Cardinality({k \in J!Job : J!Running(k)})' <= Slots
      /\ Cardinality(Passing') <= Slots
  BY FewerRun
<1> DEFINE d == Cardinality(Passing')  e == Cardinality(J!Recent)
<1>2. d \in Nat /\ e \in Nat /\ e <= DailyLimit /\ d <= Slots /\ DailyLimit \in Nat /\ Slots \in Nat
  <2>1. Passing' \in SUBSET J!Job
    BY DEF Passing, J!Job
  <2>. QED  BY <1>1, <2>1, RecentFinite
<1> HIDE DEF d, e
<1>3. e + d <= DailyLimit + Slots
  BY <1>2
<1>4. Cardinality(J!Recent') + Cardinality(Passing') <= DailyLimit + Slots
  BY <1>3 DEF d, e
<1>. QED  BY <1>1, <1>4 DEF LimitCounted

(* A run that inserts its row is no longer among those on their way.       *)
LEMMA RunInserts ==
  ASSUME LimitCounted, \A k \in J!Job : J!Running(k)' => J!Running(k),
         NEW j \in Passing, j \notin J!Recent,
         J!Recent' = J!Recent \cup {j}, Passing' = Passing \ {j}
  PROVE  LimitCounted'
<1>1. Cardinality({k \in J!Job : J!Running(k)})' <= Slots
  BY FewerRun
<1>2. /\ IsFiniteSet(J!Recent) /\ IsFiniteSet(Passing) /\ DailyLimit \in Nat /\ Slots \in Nat
      /\ Cardinality(J!Recent) \in Nat /\ Cardinality(Passing) \in Nat
  <2>1. J!Recent \in SUBSET J!Job /\ Passing \in SUBSET J!Job
    BY DEF J!Recent, Passing, J!Job
  <2>. QED  BY <2>1, RecentFinite
<1>3. Cardinality(J!Recent) + Cardinality(Passing) <= DailyLimit + Slots
  BY DEF LimitCounted
<1>4. Cardinality(J!Recent') = Cardinality(J!Recent) + 1
  BY <1>2, FS_AddElement
<1>5. Cardinality(Passing') = Cardinality(Passing) - 1
  BY <1>2, FS_RemoveElement
<1> DEFINE c == Cardinality(Passing)  d == Cardinality(Passing')
           e == Cardinality(J!Recent) f == Cardinality(J!Recent')
<1>6. c \in Nat /\ e \in Nat /\ d = c - 1 /\ f = e + 1 /\ e + c <= DailyLimit + Slots
  BY <1>2, <1>3, <1>4, <1>5
<1> HIDE DEF c, d, e, f
<1>7. f + d <= DailyLimit + Slots
  BY <1>2, <1>6
<1>8. Cardinality(J!Recent') + Cardinality(Passing') <= DailyLimit + Slots
  BY <1>7 DEF d, f
<1>. QED  BY <1>1, <1>8 DEF LimitCounted

(* Who passes has counted, who inserts is no longer to be counted apart.   *)
LEMMA StepKeepsLimit ==
  ASSUME JobsInv, NEW j \in J!Job, J!Step(j)
  PROVE  LimitCounted'
<1>1. /\ JobsTyped /\ LimitCounted /\ StepInRange(j) /\ JobIs(j)
      /\ \A k \in J!Job : k # j => /\ (row')[k] = row[k] /\ (path')[k] = path[k]
                                  /\ (step')[k] = step[k]
  BY StepKeepsJobs DEF JobsInv
<1> DEFINE q == J!Now(j)
           m == Len(J!Sequence(j))
<1>2. /\ J!Running(j)
      /\ \/ q.does = "limit" /\ (path')[j] = "refused" /\ (step')[j] = 1
         \/ /\ q.does = "limit" => Cardinality(J!Recent) <= DailyLimit
            /\ (path')[j] = IF step[j] = m THEN IF path[j] = "catch" /\ j \in AiRun THEN "thrown" ELSE "done"
                           ELSE path[j]
            /\ (step')[j] = IF step[j] = m THEN 1 ELSE step[j] + 1
      /\ (row')[j] = IF q.does = "row" /\ ~(path[j] = "catch" /\ row[j] = "none") THEN q.value
                    ELSE row[j]
  BY <1>1, StepIs
<1>3. \A k \in J!Job : J!Running(k)' => J!Running(k)
  BY <1>1, <1>2 DEF J!Running
<1>4. CASE j \notin AiRun
  <2>1. J!Recent' = J!Recent /\ Passing' = Passing
    BY <1>1, <1>4 DEF J!Recent, Passing, J!Job
  <2>. QED  BY <1>1, <1>3, <2>1, LimitRests
<1>5. CASE j \in AiRun
  <2>1. /\ path[j] = "script" =>
             /\ step[j] \in 1..7 /\ m = 7
             /\ q.does = "row" <=> step[j] \in {2, 5}
             /\ q.does = "limit" <=> step[j] = 1
             /\ step[j] \in {2, 5} => q.value = IF step[j] = 2 THEN "running" ELSE "completed"
        /\ path[j] = "catch" =>
             /\ q.does = "row" <=> step[j] = 1
             /\ q.does # "limit" /\ q.value = "failed"
    BY <1>1, <1>2, <1>5, RunNow
  <2>2. /\ path[j] = "script" =>
             row[j] = IF step[j] <= 2 THEN "none" ELSE IF step[j] <= 5 THEN "running" ELSE "completed"
        /\ path[j] \in {"script", "catch"}
    BY <1>1, <1>2, <1>5 DEF JobIs, RunIs, J!Running
  <2>3. AiRun \subseteq J!Job
    BY DEF J!Job
  <2> HIDE DEF q, m
  <2>4. CASE path[j] = "script" /\ step[j] = 1
    <3>1. (row')[j] = row[j]
      BY <1>2, <2>1, <2>4
    <3>2. J!Recent' = J!Recent
      BY <1>1, <2>3, <3>1 DEF J!Recent
    <3>3. CASE (path')[j] = "refused"
      <4>1. Passing' \subseteq Passing
        BY <1>1, <2>3, <3>1, <3>3 DEF Passing
      <4>. QED  BY <1>1, <1>3, <3>2, <4>1, LimitRests
    <3>4. CASE (path')[j] # "refused"
      <4>1. Cardinality(J!Recent) <= DailyLimit
        BY <1>2, <2>1, <2>4, <3>4
      <4>. QED  BY <1>1, <1>3, <3>2, <4>1, RunPasses
    <3>. QED  BY <3>3, <3>4
  <2>5. CASE path[j] = "script" /\ step[j] = 2
    <3>1. row[j] = "none" /\ (row')[j] = "running"
      BY <1>2, <2>1, <2>2, <2>5
    <3>2. j \in Passing /\ j \notin J!Recent /\ J!Recent' = J!Recent \cup {j}
      BY <1>1, <1>5, <2>3, <2>5, <3>1 DEF J!Recent, Passing
    <3>3. Passing' = Passing \ {j}
      BY <1>1, <1>5, <2>3, <2>5, <3>1 DEF Passing
    <3>. QED  BY <1>1, <1>3, <3>2, <3>3, RunInserts
  <2>6. CASE path[j] = "catch" \/ step[j] \notin {1, 2}
    <3>1. (row')[j] = "none" <=> row[j] = "none"
      BY <1>2, <2>1, <2>2, <2>6
    <3>2. J!Recent' = J!Recent
      BY <1>1, <2>3, <3>1 DEF J!Recent
    <3>3. (path')[j] = "script" => row[j] # "none"
      BY <1>2, <2>1, <2>2, <2>6
    <3>4. Passing' \subseteq Passing
      BY <1>1, <2>3, <3>1, <3>3 DEF Passing
    <3>. QED  BY <1>1, <1>3, <3>2, <3>4, LimitRests
  <2>. QED  BY <2>2, <2>4, <2>5, <2>6
<1>. QED  BY <1>4, <1>5

-----------------------------------------------------------------------------
(* Steps keep the invariant,                                               *)
LEMMA StepKeepsAll ==
  ASSUME JobsInv, NEW j \in J!Job, J!Step(j)
  PROVE  JobsInv'
BY StepKeepsJobs, StepKeepsLimit DEF JobsInv

(* and so does a new job, which takes a free slot,                         *)
LEMMA StartKeeps ==
  ASSUME JobsInv, NEW j \in J!Job, J!Start(j)
  PROVE  JobsInv'
<1>1. /\ JobsTyped /\ LimitCounted /\ StepInRange(j) /\ JobIs(j)
  BY DEF JobsInv
<1>2. /\ path[j] = "idle" /\ Cardinality({k \in J!Job : J!Running(k)}) < Slots
      /\ path' = [path EXCEPT ![j] = "script"] /\ step' = [step EXCEPT ![j] = 1]
      /\ UNCHANGED <<row, stream, pieces, faults>>
  BY SameSizes DEF J!Start, J!At
<1>3. (path')[j] = "script" /\ (step')[j] = 1
  BY <1>1, <1>2 DEF JobsTyped
<1>4. Stays(j)'
  BY <1>1, <1>2, <1>3, JobStarts
<1>5. /\ JobsTyped' /\ (\A k \in J!Job : StepInRange(k) /\ JobIs(k))'
      /\ \A k \in J!Job : k # j => /\ (row')[k] = row[k] /\ (path')[k] = path[k]
                                  /\ (step')[k] = step[k]
  BY <1>2, <1>4, MoveKeepsJobs
<1>6. LimitCounted'
  <2> DEFINE A == {k \in J!Job : J!Running(k)}
             B == {k \in J!Job : J!Running(k)'}
  <2>1. B = A \cup {j} /\ j \notin A /\ A \in SUBSET J!Job
    BY <1>2, <1>3, <1>5 DEF J!Running
  <2>2. Cardinality(A) < Slots
    BY <1>2
  <2> HIDE DEF A, B
  <2>3. Cardinality(B) <= Slots
    <3>1. IsFiniteSet(A) /\ Cardinality(A) \in Nat /\ Slots \in Nat
      BY <2>1, RecentFinite
    <3>2. Cardinality(B) = Cardinality(A) + 1
      BY <2>1, <3>1, FS_AddElement
    <3>. QED  BY <2>2, <3>1, <3>2
  <2>4. J!Recent' = J!Recent
    BY <1>2 DEF J!Recent
  <2>5. Passing' = Passing
    <3>1. j \notin Passing /\ j \notin Passing'
      BY <1>2, <1>3 DEF Passing
    <3>2. \A k \in AiRun : k # j => (path')[k] = path[k] /\ (step')[k] = step[k]
      BY <1>5 DEF J!Job
    <3>. QED  BY <1>2, <3>1, <3>2 DEF Passing
  <2>. QED  BY <1>1, <2>3, <2>4, <2>5 DEF LimitCounted, B
<1>. QED  BY <1>5, <1>6 DEF JobsInv

(* The process exits with whatever was under way.                          *)
LEMMA DeathKeeps ==
  ASSUME JobsInv, UNCHANGED <<row, stream, pieces>>, faults < MaxFaults, faults' = faults + 1,
         J!ProcessDies
  PROVE  JobsInv'
<1>1. /\ JobsTyped' /\ (\A k \in J!Job : StepInRange(k) /\ JobIs(k))'
      /\ \A k \in J!Job : /\ (path')[k] \notin {"script", "catch"}
  BY DeathKeepsJobs
<1>2. J!Recent' = J!Recent /\ Passing' \subseteq Passing
  BY <1>1 DEF J!Recent, Passing, J!Job
<1>3. \A k \in J!Job : J!Running(k)' => J!Running(k)
  BY <1>1 DEF J!Running
<1>4. LimitCounted'
  BY <1>2, <1>3, LimitRests DEF JobsInv
<1>. QED  BY <1>1, <1>4 DEF JobsInv

(* and a step that throws, wherever its rejection goes.                    *)
LEMMA ThrowKeeps ==
  ASSUME JobsInv, NEW j \in J!Job, J!Throws(j)
  PROVE  JobsInv'
<1>1. /\ JobsTyped /\ LimitCounted /\ StepInRange(j) /\ JobIs(j)
  BY DEF JobsInv
<1>2. /\ J!Running(j) /\ faults < MaxFaults /\ faults' = faults + 1
      /\ UNCHANGED <<row, stream, pieces>>
  BY DEF J!Throws
<1>3. \/ J!Swallowed(j) /\ J!Advance(j)
      \/ J!InTry(j) /\ J!At(j, "catch", 1)
      \/ J!ProcessDies
      \/ ~J!InTry(j) /\ ~J!Detached(j) /\ J!At(j, "thrown", 1)
  BY DEF J!Throws
<1>4. CASE J!ProcessDies
  BY <1>2, <1>4, DeathKeeps
<1>5. ASSUME NEW p, NEW s, path' = [path EXCEPT ![j] = p], step' = [step EXCEPT ![j] = s],
             Stays(j)', p = "script" => row[j] # "none"
      PROVE  JobsInv'
  <2>1. /\ JobsTyped' /\ (\A k \in J!Job : StepInRange(k) /\ JobIs(k))'
        /\ \A k \in J!Job : k # j => /\ (row')[k] = row[k] /\ (path')[k] = path[k]
                                    /\ (step')[k] = step[k]
    BY <1>2, <1>5, MoveKeepsJobs
  <2>2. (path')[j] = p
    BY <1>1, <1>5 DEF JobsTyped
  <2>3. J!Recent' = J!Recent
    BY <1>2 DEF J!Recent
  <2>4. Passing' \subseteq Passing
    <3>1. j \notin Passing'
      BY <1>2, <1>5, <2>2 DEF Passing
    <3>2. \A k \in AiRun : k # j => (path')[k] = path[k] /\ (step')[k] = step[k]
      BY <2>1 DEF J!Job
    <3>. QED  BY <1>2, <3>1, <3>2 DEF Passing
  <2>5. \A k \in J!Job : J!Running(k)' => J!Running(k)
    BY <1>2, <2>1 DEF J!Running
  <2>6. LimitCounted'
    BY <1>1, <2>3, <2>4, <2>5, LimitRests
  <2>. QED  BY <2>1, <2>6 DEF JobsInv
<1>6. CASE J!Swallowed(j) /\ J!Advance(j)
  <2>1. j \in AiRun /\ J!Now(j).does = "append"
    BY <1>6 DEF J!Swallowed
  <2>2. PICK p, s : path' = [path EXCEPT ![j] = p] /\ step' = [step EXCEPT ![j] = s]
    BY <1>6 DEF J!Advance, J!Finish, J!At
  <2>3. (path')[j] = p
    BY <1>1, <2>2 DEF JobsTyped
  <2>4. Stays(j)' /\ ((path')[j] = "script" => row[j] # "none")
    BY <1>1, <1>2, <1>6, <2>1, JobSwallows
  <2>. QED  BY <1>5, <2>2, <2>3, <2>4
<1>7. CASE J!InTry(j) /\ J!At(j, "catch", 1)
  <2>1. path' = [path EXCEPT ![j] = "catch"] /\ step' = [step EXCEPT ![j] = 1]
    BY <1>7 DEF J!At
  <2>2. (path')[j] = "catch" /\ (step')[j] = 1
    BY <1>1, <2>1 DEF JobsTyped
  <2>3. Stays(j)'
    BY <1>1, <1>2, <1>7, <2>2, JobIsThrown
  <2>. QED  BY <1>5, <2>1, <2>3
<1>8. CASE ~J!InTry(j) /\ ~J!Detached(j) /\ J!At(j, "thrown", 1)
  <2>1. path' = [path EXCEPT ![j] = "thrown"] /\ step' = [step EXCEPT ![j] = 1]
    BY <1>8 DEF J!At
  <2>2. (path')[j] = "thrown" /\ (step')[j] = 1
    BY <1>1, <2>1 DEF JobsTyped
  <2>3. Stays(j)'
    BY <1>1, <1>2, <1>8, <2>2, JobIsThrown
  <2>. QED  BY <1>5, <2>1, <2>3
<1>. QED  BY <1>3, <1>4, <1>6, <1>7, <1>8

(* All actions of the jobs keep the invariant.                             *)
LEMMA JobsNext ==
  ASSUME JobsInv, [J!Next]_(J!vars)
  PROVE  JobsInv'
<1>1. CASE J!Next
  <2>1. ASSUME NEW j \in J!Job, J!Start(j) PROVE JobsInv'
    BY <2>1, StartKeeps
  <2>2. ASSUME NEW j \in J!Job, J!Step(j) PROVE JobsInv'
    BY <2>2, StepKeepsAll
  <2>3. ASSUME NEW j \in J!Job, J!Throws(j) PROVE JobsInv'
    BY <2>3, ThrowKeeps
  <2>4. CASE J!Crash
    BY <2>4, DeathKeeps DEF J!Crash
  <2>. QED  BY <1>1, <2>1, <2>2, <2>3, <2>4 DEF J!Next
<1>2. CASE UNCHANGED J!vars
  <2>1. UNCHANGED <<row, stream, pieces, path, step, faults>>
    BY <1>2 DEF J!vars
  <2>. QED  BY <2>1 DEF JobsInv, JobsTyped, StepInRange, JobIs, LimitCounted, J!Running, J!Recent, Passing
<1>. QED  BY <1>1, <1>2

(* Before the first job everything is empty.                               *)
LEMMA JobsInit ==
  ASSUME J!Init
  PROVE  JobsInv
<1>1. /\ \A j \in J!Job : /\ row[j] = "none" /\ stream[j] = <<>> /\ pieces[j] = 0
                        /\ path[j] = "idle" /\ step[j] = 1
      /\ faults = 0 /\ row = [j \in J!Job |-> "none"] /\ stream = [j \in J!Job |-> <<>>]
      /\ pieces = [j \in J!Job |-> 0] /\ path = [j \in J!Job |-> "idle"] /\ step = [j \in J!Job |-> 1]
  BY DEF J!Init
<1>2. JobsTyped
  <2>1. MaxFaults \in Nat
    BY JobsAssumption DEF J!JobRunsAssumption
  <2>. QED  BY <1>1, <2>1 DEF JobsTyped, J!Status, J!Ended
<1>3. ASSUME NEW j \in J!Job PROVE StepInRange(j) /\ JobIs(j)
  <2>1. /\ ToldIn(<<>>, "created") = 0 /\ ToldIn(<<>>, "started") = 0 /\ ToldIn(<<>>, "step") = 0
        /\ ToldIn(<<>>, "completed") = 0 /\ ToldIn(<<>>, "failed") = 0
    BY ToldNothing
  <2>2. Parts \in Nat
    BY OneKind
  <2>3. StepInRange(j)
    BY <1>1 DEF StepInRange, J!Running
  <2>4. /\ MediaIs("idle", 1, "none", <<>>, 0) /\ RunIs("idle", 1, "none", <<>>, 0, 0)
        /\ ListingIs("idle", 1, "none", <<>>, 0, 3 * ListingSteps + 4, Drafts(j))
        /\ BatchIs("idle", 1, "none", <<>>, 0) /\ UploadIs("idle", 1, "none", <<>>, 0)
    BY <2>1, <2>2 DEF MediaIs, RunIs, ListingIs, BatchIs, UploadIs
  <2>. QED  BY <1>1, <2>3, <2>4 DEF JobIs
<1>4. LimitCounted
  <2>1. {j \in J!Job : J!Running(j)} = {} /\ J!Recent = {} /\ Passing = {}
    BY <1>1 DEF J!Running, J!Recent, Passing, J!Job
  <2>. QED  BY <2>1, FS_EmptySet, RecentFinite DEF LimitCounted
<1>. QED  BY <1>2, <1>3, <1>4 DEF JobsInv

(* processJob, executeWithContext, the listing pipeline, publishBatch and  *)
(* upload keep, at every await, what JobsInv says of their row, stream and *)
(* pieces, for any number of jobs and whatever throws.                     *)
THEOREM JobsInvariance == JobsSpec => []JobsInv
<1>1. Init /\ J!Init => JobsInv
  BY JobsInit
<1>2. JobsInv /\ [J!Next /\ UNCHANGED vars]_<<vars, jobs>> => JobsInv'
  <2>. SUFFICES ASSUME JobsInv, [J!Next /\ UNCHANGED vars]_<<vars, jobs>> PROVE JobsInv'
    OBVIOUS
  <2>1. [J!Next]_(J!vars)
    BY DEF jobs, J!vars
  <2>. QED  BY <2>1, JobsNext
<1>. QED  BY <1>1, <1>2, PTL DEF JobsSpec

(* Where a job is, its index is in range.                                  *)
LEMMA IndexInRange ==
  ASSUME JobsInv, NEW j \in J!Job
  PROVE  step[j] \in 1..(Len(J!Script[j]) + Len(J!Handler[j]))
<1> DEFINE m == Len(J!Script[j])  h == Len(J!Handler[j])
<1>1. h \in {2, 3}
  BY Handlers
<1>2. m \in Nat
  <2>1. Parts \in Nat /\ ListingSteps \in Nat
    BY OneKind
  <2>2. j \in MediaJob => m = 10
    BY MediaScript
  <2>3. j \in AiRun => m = 7
    BY RunScript
  <2>4. j \in Listing => m = 3 * ListingSteps + 7
    BY ListingScript
  <2>5. j \in Batch => m = 4 * Parts + 2
    BY BatchScript
  <2>6. j \in Upload => m = Parts + 8
    BY UploadScript
  <2> HIDE DEF m
  <2>. QED  BY <2>1, <2>2, <2>3, <2>4, <2>5, <2>6 DEF J!Job
<1>3. \/ step[j] \in 1..m \/ step[j] \in 1..h \/ step[j] = 1
  BY DEF JobsInv, StepInRange, J!Running
<1> HIDE DEF m, h
<1>4. step[j] \in 1..(m + h)
  BY <1>1, <1>2, <1>3
<1>. QED  BY <1>4 DEF m, h

(* The invariant gives the types,                                          *)
LEMMA JobsAreTyped == JobsInv => J!TypeOK
<1> SUFFICES ASSUME JobsInv PROVE J!TypeOK
  OBVIOUS
<1>1. JobsTyped
  BY DEF JobsInv
<1>2. \A j \in J!Job : pieces[j] \in 0..Parts
  <2> SUFFICES ASSUME NEW j \in J!Job PROVE pieces[j] \in 0..Parts
    OBVIOUS
  <2>1. JobIs(j) /\ Parts \in Nat /\ Parts > 0
    BY OneKind DEF JobsInv
  <2>2. pieces[j] \in 0..Parts \/ pieces[j] \in 0..1
    BY <2>1 DEF JobIs, MediaIs, RunIs, ListingIs, BatchIs, UploadIs, J!Job
  <2>. QED  BY <2>1, <2>2
<1>3. pieces \in [J!Job -> 0..Parts]
  BY <1>1, <1>2 DEF JobsTyped
<1>. QED  BY <1>1, <1>3, IndexInRange DEF J!TypeOK, JobsTyped

(* the agreement of rows, streams and answers,                             *)
LEMMA JobsAgree == JobsInv => OutcomesAgree
<1> SUFFICES ASSUME JobsInv PROVE J!OutcomesAgree
  BY DEF OutcomesAgree
<1>1. \A j \in J!Job : JobIs(j)
  BY DEF JobsInv
<1>2. J!MediaOutcomeAgrees
  BY <1>1 DEF J!MediaOutcomeAgrees, JobIs, MediaIs, J!Job, J!Last
<1>3. J!WorkedOnIsRunning
  <2>1. \A j \in J!Job : path[j] \in {"idle", "script", "catch", "done", "thrown", "refused", "cut"}
    BY DEF JobsInv, JobsTyped, J!Ended
  <2>2. ASSUME NEW j \in MediaJob, row[j] = "processing"
        PROVE  J!Running(j) \/ path[j] = "cut"
    <3>1. j \in J!Job
      BY DEF J!Job
    <3>. QED  BY <1>1, <2>1, <2>2, <3>1 DEF JobIs, MediaIs, J!Running
  <2>3. ASSUME NEW j \in AiRun, row[j] = "running"
        PROVE  J!Running(j) \/ path[j] = "cut" \/ (path[j] = "thrown" /\ faults >= 2)
    <3>1. j \in J!Job
      BY DEF J!Job
    <3>. QED  BY <1>1, <2>1, <2>3, <3>1 DEF JobIs, RunIs, J!Running
  <2>. QED  BY <2>2, <2>3 DEF J!WorkedOnIsRunning
<1>4. J!ErrorIsNotCompleted
  BY <1>1 DEF J!ErrorIsNotCompleted, JobIs, RunIs, J!Job
<1>. QED  BY <1>2, <1>3, <1>4, JobsAreTyped DEF J!OutcomesAgree

(* what streams tell,                                                      *)
LEMMA JobsTell == JobsInv => StreamsTellTheStory
<1> SUFFICES ASSUME JobsInv, NEW j \in J!Job
             PROVE  /\ \A e \in J!Event \ {"step"} : J!Count(j, e) <= 1
                    /\ J!Count(j, "completed") > 0 => row[j] \in {"completed", "failed"}
                    /\ J!Count(j, "failed") > 0 => J!Last(stream[j]) = "failed" /\ row[j] \in {"failed", "none"}
                    /\ j \in Batch => pieces[j] - J!Count(j, "step") \in {0, 1}
                    /\ J!CompletedIsWhole(j)
  BY DEF StreamsTellTheStory, J!StreamsTellTheStory
<1> DEFINE p == path[j]   s == step[j]   r == row[j]   t == stream[j]   n == pieces[j]
<1>1. JobIs(j) /\ Parts \in Nat /\ Parts > 0
  BY OneKind DEF JobsInv
<1>2. \A e : J!Count(j, e) = ToldIn(t, e)
  BY SameSizes DEF J!Count, ToldIn
<1>3. \A e \in J!Event \ {"step"} : ToldIn(t, e) <= 1
  <2>1. \A e \in {"created", "started", "completed", "failed"} : ToldIn(t, e) <= 1
    BY <1>1 DEF JobIs, MediaIs, RunIs, ListingIs, BatchIs, UploadIs, J!Job
  <2>. QED  BY <2>1 DEF J!Event
<1>4. ToldIn(t, "completed") > 0 => r \in {"completed", "failed"}
  BY <1>1 DEF JobIs, MediaIs, RunIs, ListingIs, BatchIs, UploadIs, J!Job
<1>5. ToldIn(t, "failed") > 0 => t[Len(t)] = "failed" /\ r \in {"failed", "none"}
  BY <1>1 DEF JobIs, MediaIs, RunIs, ListingIs, BatchIs, UploadIs, J!Job
<1>6. j \in Batch => n - ToldIn(t, "step") \in {0, 1}
  BY <1>1 DEF JobIs, BatchIs
<1>7. (j \notin AiRun /\ (r = "completed" \/ ToldIn(t, "completed") > 0)) =>
        /\ j \in Listing => ToldIn(t, "step") = ListingSteps
        /\ n = IF j \in Batch \cup Upload THEN Parts
               ELSE IF j \in MediaJob \cup Drafting THEN 1 ELSE 0
  <2>1. ListingSteps \in Nat /\ ((3 * ListingSteps + 4) - 3) \div 3 = ListingSteps
    BY OneKind
  <2>2. CASE j \in Listing
    BY <1>1, <2>1, <2>2, OneKind DEF JobIs, ListingIs, Drafts
  <2>3. CASE j \notin Listing
    BY <1>1, <2>3, OneKind DEF JobIs, MediaIs, BatchIs, UploadIs, J!Job
  <2>. QED  BY <2>2, <2>3
<1>8. J!CompletedIsWhole(j)
  BY <1>2, <1>7 DEF J!CompletedIsWhole
<1> HIDE DEF t
<1>9. J!Last(stream[j]) = t[Len(t)]
  BY DEF J!Last, t
<1>. QED  BY <1>2, <1>3, <1>4, <1>5, <1>6, <1>8, <1>9

(* and the bound of the daily limit.                                       *)
LEMMA JobsLimited == JobsInv => LimitOverrunBounded
<1> SUFFICES ASSUME JobsInv PROVE Cardinality(J!Recent) <= DailyLimit + Slots
  BY SameSizes DEF LimitOverrunBounded, J!LimitOverrunBounded
<1> DEFINE c == Cardinality(J!Recent)  d == Cardinality(Passing)
<1>1. c \in Nat /\ d \in Nat /\ DailyLimit \in Nat /\ Slots \in Nat
  BY RecentFinite
<1>2. c + d <= DailyLimit + Slots
  BY DEF JobsInv, LimitCounted
<1> HIDE DEF c, d
<1>3. c <= DailyLimit + Slots
  BY <1>1, <1>2
<1>. QED  BY <1>3 DEF c

(* However a job ends, its row, its stream and what its caller was told    *)
(* agree as far as the catches of processJob and recordFailure make them.  *)
THEOREM JobOutcomesAgree == JobsSpec => []OutcomesAgree
<1>1. JobsInv => OutcomesAgree
  BY JobsAgree
<1>. QED  BY <1>1, JobsInvariance, PTL

(* Half a result is never shown as a whole one, whatever step of           *)
(* processJob, RunPipeline, publishBatch or upload throws: a listing that  *)
(* is completed has told all its steps, and has its draft if one was asked *)
(* for and titled, nothing but a step is told twice, and a failure is the  *)
(* last word.                                                              *)
THEOREM JobStreamsTell == JobsSpec => []StreamsTellTheStory
<1>1. JobsInv => StreamsTellTheStory
  BY JobsTell
<1>. QED  BY <1>1, JobsInvariance, PTL

(* executeWithContext counts rows that others have not inserted yet: the   *)
(* limit is overrun by no more runs than can be under way at once.         *)
THEOREM LimitIsBounded == JobsSpec => []LimitOverrunBounded
<1>1. JobsInv => LimitOverrunBounded
  BY JobsLimited
<1>. QED  BY <1>1, JobsInvariance, PTL
=============================================================================
