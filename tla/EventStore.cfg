\* Two concurrent calls on two streams, three calls in all, every fault.
\* The system may be idle once the bounded calls are over.
CHECK_DEADLOCK FALSE
SPECIFICATION FairSpec
CONSTANTS
  Stream = {s1, s2}
  Writer = {w1, w2}
  MaxBatch = 2
  MaxSaves = 3
INVARIANTS
  TypeOK
  StreamsInOrder
  ToldIsStored
PROPERTIES
  CommitOnCurrentHistory
  Implements
  AppendsEnd
