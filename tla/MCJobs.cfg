SPECIFICATION JobsSpec
CONSTANTS
  Stream = {ad}
  MaxPosition = 1
  Instance = {i1}
  BatchSize = 1
  NoAd = NoAd
  CountsOn <- MCCountsOn
  MediaJob = {m1}
  AiRun = {a1, a2, a3}
  Listing = {l1, l2}
  Drafting = {l1}
  Batch = {b1}
  Upload = {u1}
  ListingSteps = 2
  Parts = 2
  Slots = 2
  DailyLimit = 0
  MaxStarts = 3
  MaxFaults = 2
SYMMETRY Symmetry
INVARIANTS
  OutcomesAgree
  StreamsTellTheStory
  LimitOverrunBounded
\* Nothing is left to do once the bounded requests are over.
CHECK_DEADLOCK FALSE
