------------------------------ MODULE EventLog ------------------------------
(***************************************************************************)
(* What the event store promises to the rest of the platform: for every    *)
(* stream, a sequence of facts that only ever grows at its end, a whole    *)
(* command at a time.  Readers, writers, transactions, the unique index    *)
(* and the global positions are the business of EventStore.                *)
(***************************************************************************)
EXTENDS Naturals, Sequences, SequencesExt

CONSTANTS Stream,    \* aggregate streams, <<aggregateType, aggregateId>>
          MaxBatch   \* most events one command raises

VARIABLE log         \* log[s]: the facts of stream s, oldest first

TypeOK == log \in [Stream -> Seq(Nat)]

Init == log = [s \in Stream |-> <<>>]

(* One command's events become facts of stream s together. *)
Extend(s) ==
  /\ IsStrictPrefix(log[s], log'[s])
  /\ Len(log'[s]) <= Len(log[s]) + MaxBatch
  /\ log' = [log EXCEPT ![s] = log'[s]]

Next == \E s \in Stream : Extend(s)

Spec == Init /\ [][Next]_log
=============================================================================
