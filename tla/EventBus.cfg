\* Two instances share one group, every fault, trimming.
\* Idle once the bounded entries are dealt with.
CHECK_DEADLOCK FALSE
SPECIFICATION FairSpec
CONSTANTS
  Group = {workflow}
  Instance = {i1, i2}
  Count = 2
  MaxLen = 2
  MaxEntries = 4
INVARIANTS
  TypeOK
  HandedOutOnce
PROPERTIES
  FeedGoesOn
