\* One instance, writers that commit in any order, every fault.
CHECK_DEADLOCK FALSE
SPECIFICATION Spec
CONSTANTS
  ad1 = ad1
  ad2 = ad2
  conversation = conversation
  NoAd = NoAd
  Stream <- MCStream
  CountsOn <- MCCountsOn
  Instance = {i1}
  BatchSize = 2
  MaxPosition = 4
INVARIANTS
  TypeOK
  AppliedUpToCheckpoint
  OnlyLateRowsSkipped
PROPERTIES
  EventuallyProjected
