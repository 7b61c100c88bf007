------------------------------ MODULE EventFeed -----------------------------
(***************************************************************************)
(* The event_store table as readers of the global log see it: positions    *)
(* are drawn while transactions are open, and rows become visible when     *)
(* they commit, not in the order of their positions.  EventStore           *)
(* implements this module; ProjectionManager is built on it.               *)
(***************************************************************************)
EXTENDS Integers, FiniteSets

CONSTANTS Stream,       \* aggregate streams
          MaxPosition   \* bound: positions drawn in one behaviour

ASSUME EventFeedAssumption == MaxPosition \in Nat

VARIABLES rows,         \* committed rows
          open,         \* rows inserted by transactions still open
          nextPosition  \* next value of the global_position sequence

feed == <<rows, open, nextPosition>>

FeedRow == [stream : Stream, position : Nat \ {0}]

FeedTypeOK ==
  /\ rows \subseteq FeedRow
  /\ open \subseteq FeedRow
  /\ nextPosition \in Nat \ {0}

FeedInit ==
  /\ rows = {}
  /\ open = {}
  /\ nextPosition = 1

(* A transaction draws a position for a row of stream s. *)
Draw(s) ==
  /\ nextPosition <= MaxPosition
  /\ open' = open \cup {[stream |-> s, position |-> nextPosition]}
  /\ nextPosition' = nextPosition + 1
  /\ UNCHANGED rows

(* A transaction's rows become visible together.  They belong to one       *)
(* stream and follow everything that stream holds.                         *)
CommitRows(R) ==
  /\ R # {}
  /\ \A r, q \in R : r.stream = q.stream
  /\ \A r \in R, q \in rows : r.stream = q.stream => q.position < r.position
  /\ rows' = rows \cup R
  /\ open' = open \ R
  /\ UNCHANGED nextPosition

(* A transaction rolls back; its positions stay unused for ever. *)
Discard(R) ==
  /\ R # {}
  /\ open' = open \ R
  /\ UNCHANGED <<rows, nextPosition>>

FeedNext ==
  \/ \E s \in Stream : Draw(s)
  \/ \E R \in SUBSET open : CommitRows(R) \/ Discard(R)

FeedSpec == FeedInit /\ [][FeedNext]_feed
=============================================================================
