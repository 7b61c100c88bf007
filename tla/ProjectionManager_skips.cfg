\* One instance, writers that commit out of position order.
CHECK_DEADLOCK FALSE
SPECIFICATION Spec
CONSTANTS
  ad1 = ad1
  ad2 = ad2
  conversation = conversation
  NoAd = NoAd
  Stream <- SmallStream
  CountsOn <- SmallCountsOn
  Instance = {i1}
  BatchSize = 2
  MaxPosition = 2
INVARIANTS
  NothingSkipped
