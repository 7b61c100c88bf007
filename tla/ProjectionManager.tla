-------------------------- MODULE ProjectionManager --------------------------
(***************************************************************************)
(* ProjectionManager drives a projection off the global event log: each    *)
(* API instance that registered the projection loops over                  *)
(*                                                                         *)
(*   read the checkpoint, read the next rows by position, and for each row *)
(*   project it and move the checkpoint in one transaction.                *)
(*                                                                         *)
(* The log is EventFeed.  The projection is AdProjection: a row of an ad's *)
(* stream creates the ad's read model (the first) or updates it (the       *)
(* rest); a row of another stream may be counted on an ad                  *)
(* (conversation.message_received, budget.spent).                          *)
(***************************************************************************)
EXTENDS EventFeed, Sequences

CONSTANTS Instance,    \* API instances that run the projection's loop
          BatchSize,   \* BATCH_SIZE
          CountsOn     \* CountsOn[s]: the ad rows of s count on; s itself for
                       \* an ad's stream, NoAd for a stream of no interest
CONSTANT NoAd

ASSUME ProjectionManagerAssumption ==
  /\ BatchSize \in Nat \ {0}
  /\ NoAd \notin Stream
  /\ CountsOn \in [Stream -> Stream \cup {NoAd}]
  /\ \A s \in Stream : CountsOn[s] # NoAd => CountsOn[CountsOn[s]] = CountsOn[s]

VARIABLES
  checkpoint,  \* the projection's row of projection_checkpoint, 0 if none
  applied,     \* rows with an effect on the read model, in the order of their
               \* commits: the whole history of the read model
  loop,        \* where each instance is in runLoop / drainOnce
  from,        \* the checkpoint it read, 0 once it is used
  batch,       \* rows it read and has not dealt with yet, taken by position
  late         \* history: rows that committed when the projection had
               \* already read past their position

reader == <<checkpoint, applied, loop, from, batch>>
vars   == <<feed, reader, late>>

Loop == {"top", "reading", "applying", "sleeping", "down"}

TypeOK ==
  /\ FeedTypeOK
  /\ checkpoint \in Nat
  /\ applied \in Seq(FeedRow)
  /\ loop \in [Instance -> Loop]
  /\ from \in [Instance -> Nat]
  /\ batch \in [Instance -> SUBSET rows]
  /\ late \subseteq rows
  /\ \A i \in Instance : (loop[i] = "applying") = (batch[i] # {})

ReaderInit ==
  /\ checkpoint = 0
  /\ applied = <<>>
  /\ loop = [i \in Instance |-> "top"]
  /\ from = [i \in Instance |-> 0]
  /\ batch = [i \in Instance |-> {}]

Init == FeedInit /\ ReaderInit /\ late = {}

-----------------------------------------------------------------------------
Ad == {s \in Stream : CountsOn[s] = s}

(* Rows the projection handles. *)
Handled(r) == CountsOn[r.stream] # NoAd

(* The read model has a row for ad a. *)
Present(a) == \E i \in 1..Len(applied) : applied[i].stream = a

(* The first row of an ad's stream is ad.created, an upsert; any other is  *)
(* an update, which throws when the read model has no such row.            *)
Creates(r) == \A q \in rows : q.stream = r.stream => r.position <= q.position
Throws(r)  == r.stream \in Ad /\ ~Creates(r) /\ ~Present(r.stream)

(* The upsert leaves an ad that is there as it is; a row counted on an ad  *)
(* that is not there has no effect.                                        *)
HasEffect(r) ==
  /\ Handled(r)
  /\ Present(CountsOn[r.stream]) # (r.stream \in Ad /\ Creates(r))

-----------------------------------------------------------------------------
(* findUnique on the checkpoint. *)
ReadCheckpoint(i) ==
  /\ loop[i] = "top"
  /\ from' = [from EXCEPT ![i] = checkpoint]
  /\ loop' = [loop EXCEPT ![i] = "reading"]
  /\ UNCHANGED <<feed, checkpoint, applied, batch>>

(* readAll: rows after the checkpoint, by position, at most BATCH_SIZE. *)
Visible(p) == {r \in rows : r.position > p}

Page(S) == {r \in S : Cardinality({q \in S : q.position < r.position}) < BatchSize}

(* Mutant of ReadBatch: an empty page is taken for a batch. *)
ReadBatch_NoIdle(i) ==
  /\ loop[i] = "reading"
  /\ batch' = [batch EXCEPT ![i] = Page(Visible(from[i]))]
  /\ loop' = [loop EXCEPT ![i] = "applying"]
  /\ from' = [from EXCEPT ![i] = 0]
  /\ UNCHANGED <<feed, checkpoint, applied>>

ReadBatch(i) ==
  /\ loop[i] = "reading"
  /\ batch' = [batch EXCEPT ![i] = Page(Visible(from[i]))]
  /\ loop' = [loop EXCEPT ![i] = IF Visible(from[i]) = {} THEN "sleeping" ELSE "applying"]
  /\ from' = [from EXCEPT ![i] = 0]
  /\ UNCHANGED <<feed, checkpoint, applied>>

(* The rows of a page are taken in the order of their positions. *)
IsFirst(r, S) == \A q \in S : r.position <= q.position

(* Mutants of Apply: the checkpoint moves with the last row of the batch,  *)
(* or to the end of the batch with its first row.                          *)
Apply_CheckpointAtEnd(i) ==
  /\ loop[i] = "applying"
  /\ \E r \in batch[i] :
       /\ IsFirst(r, batch[i]) /\ ~Throws(r)
       /\ applied' = IF HasEffect(r) THEN Append(applied, r) ELSE applied
       /\ checkpoint' = IF batch[i] = {r} THEN r.position ELSE checkpoint
       /\ batch' = [batch EXCEPT ![i] = @ \ {r}]
       /\ loop' = [loop EXCEPT ![i] = IF batch[i] = {r} THEN "top" ELSE "applying"]
  /\ UNCHANGED <<feed, from>>

Apply_CheckpointFirst(i) ==
  /\ loop[i] = "applying"
  /\ \E r \in batch[i] :
       /\ IsFirst(r, batch[i]) /\ ~Throws(r)
       /\ applied' = IF HasEffect(r) THEN Append(applied, r) ELSE applied
       /\ \E q \in batch[i] : /\ \A x \in batch[i] : x.position <= q.position
                              /\ checkpoint' = q.position
       /\ batch' = [batch EXCEPT ![i] = @ \ {r}]
       /\ loop' = [loop EXCEPT ![i] = IF batch[i] = {r} THEN "top" ELSE "applying"]
  /\ UNCHANGED <<feed, from>>

(* One transaction: project the row and move the checkpoint. *)
Apply(i) ==
  /\ loop[i] = "applying"
  /\ \E r \in batch[i] :
       /\ IsFirst(r, batch[i]) /\ ~Throws(r)
       /\ applied' = IF HasEffect(r) THEN Append(applied, r) ELSE applied
       /\ checkpoint' = r.position
       /\ batch' = [batch EXCEPT ![i] = @ \ {r}]
       /\ loop' = [loop EXCEPT ![i] = IF batch[i] = {r} THEN "top" ELSE "applying"]
  /\ UNCHANGED <<feed, from>>

(* Mutant of Abandon: an error ends the loop. *)
Abandon_EndsLoop(i) ==
  /\ loop' = [loop EXCEPT ![i] = "ended"]
  /\ batch' = [batch EXCEPT ![i] = {}]
  /\ from' = [from EXCEPT ![i] = 0]
  /\ UNCHANGED <<feed, checkpoint, applied>>

(* An error: the open transaction rolls back, runLoop logs and sleeps.     *)
Abandon(i) ==
  /\ loop' = [loop EXCEPT ![i] = "sleeping"]
  /\ batch' = [batch EXCEPT ![i] = {}]
  /\ from' = [from EXCEPT ![i] = 0]
  /\ UNCHANGED <<feed, checkpoint, applied>>

(* project() throws. *)
ProjectThrows(i) ==
  /\ loop[i] = "applying"
  /\ \E r \in batch[i] : IsFirst(r, batch[i]) /\ Throws(r)
  /\ Abandon(i)

(* The database fails a read or a transaction. *)
DatabaseFails(i) ==
  /\ loop[i] \in {"top", "reading", "applying"}
  /\ Abandon(i)

Wake(i) ==
  /\ loop[i] = "sleeping"
  /\ loop' = [loop EXCEPT ![i] = "top"]
  /\ UNCHANGED <<feed, checkpoint, applied, from, batch>>

(* The process dies in the middle of a batch, and is started again. *)
Crash(i) ==
  /\ loop[i] # "down"
  /\ loop' = [loop EXCEPT ![i] = "down"]
  /\ batch' = [batch EXCEPT ![i] = {}]
  /\ from' = [from EXCEPT ![i] = 0]
  /\ UNCHANGED <<feed, checkpoint, applied>>

Boot(i) ==
  /\ loop[i] = "down"
  /\ loop' = [loop EXCEPT ![i] = "top"]
  /\ UNCHANGED <<feed, checkpoint, applied, from, batch>>

Drain(i) ==
  ReadCheckpoint(i) \/ ReadBatch(i) \/ Apply(i) \/ ProjectThrows(i) \/ Wake(i)

ReaderNext ==
  /\ \E i \in Instance : Drain(i) \/ DatabaseFails(i) \/ Crash(i) \/ Boot(i)
  /\ UNCHANGED late

(* How far the projection has read. *)
ReadUpTo == {checkpoint} \cup UNION {{r.position : r \in batch[i]} : i \in Instance}

(* The writers, who know nothing of projections. *)
WriterNext ==
  /\ FeedNext
  /\ UNCHANGED reader
  /\ late' = late \cup {r \in rows' \ rows : \E p \in ReadUpTo : r.position <= p}

Next == ReaderNext \/ WriterNext

(* The event loop runs every ready step, timers fire and a process that    *)
(* died is started again; faults come again and again, but do not hit the  *)
(* same step every time.                                                   *)
Fairness ==
  \A i \in Instance :
    /\ WF_vars((ProjectThrows(i) \/ Wake(i)) /\ UNCHANGED late)
    /\ WF_vars(Boot(i) /\ UNCHANGED late)
    /\ SF_vars(ReadCheckpoint(i) /\ UNCHANGED late)
    /\ SF_vars(ReadBatch(i) /\ UNCHANGED late)
    /\ SF_vars(Apply(i) /\ UNCHANGED late)

Spec == Init /\ [][Next]_vars /\ Fairness

-----------------------------------------------------------------------------
(* "strictly in order, exactly once": the read model's history never goes  *)
(* back in the log and holds no event twice, whatever fails, whoever       *)
(* restarts, and however the rows were committed.                          *)
AppliedInOrder ==
  \A k \in 1..(Len(applied) - 1) : applied[k].position < applied[k + 1].position

(* The checkpoint and the read model move together.  No effect lies beyond *)
(* the checkpoint, so nothing will be applied again after a crash.         *)
NothingBeyondCheckpoint ==
  \A k \in 1..Len(applied) : applied[k].position <= checkpoint

(* Each event is applied once, in the order of the log, and a crash leaves *)
(* nothing applied that the checkpoint does not cover (drainOnce).         *)
AppliedUpToCheckpoint == AppliedInOrder /\ NothingBeyondCheckpoint

(* Row r ought to show in the read model: it is an ad's own row, or is     *)
(* counted on an ad that was created before it.                            *)
Relevant(r) ==
  /\ Handled(r)
  /\ \/ r.stream \in Ad
     \/ \E q \in rows : q.stream = CountsOn[r.stream] /\ q.position < r.position

Effects == {applied[k] : k \in 1..Len(applied)}

(* "a crash never skips or double-applies": every committed row up to the  *)
(* checkpoint is in the read model.                                        *)
NothingSkipped ==
  \A r \in rows : Relevant(r) /\ r.position <= checkpoint => r \in Effects

(* Nothing is skipped before a row commits at a position the projection    *)
(* has read past: no crash, error or restart skips anything.               *)
OnlyLateRowsSkipped == late = {} => NothingSkipped

(* As long as no row commits late, every committed event reaches the read  *)
(* model, whatever fails on the way.                                       *)
EventuallyProjected ==
  \A s \in Stream, p \in 1..MaxPosition :
    LET r == [stream |-> s, position |-> p]
    IN  r \in rows /\ Relevant(r) ~> r \in Effects \/ late # {}
=============================================================================
