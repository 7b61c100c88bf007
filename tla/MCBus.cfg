SPECIFICATION WorkflowsSpec
CONSTANTS
  Group = {workflow}
  Instance = {i1}
  Count = 1
  MaxLen = 1
  MaxEntries = 1
  Message = {m1}
  Price = {p1}
  BatchSize = 2
  MaxCrashes = 2
  MaxFaults = 2
INVARIANTS
  WorkflowsTried
  OutcomesWhole
PROPERTIES
  GroupGoesOn
\* Idle once every fact of the instance has been read.
CHECK_DEADLOCK FALSE
