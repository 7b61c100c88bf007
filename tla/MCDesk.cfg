\* Two calls at a time; three moves of a card, two exports of two ads.
\* Nothing is left to do once the bounded calls are over.
CHECK_DEADLOCK FALSE
SPECIFICATION DeskSpec
CONSTANTS
  FollowUp = {f1, f2}
  Rule = {r1}
  Call = {c1, c2}
  MaxRequests = 3
  MaxFaults = 1
  Stage = {"new", "in_progress", "waiting", "offer"}
  NoStage = "none"
  NewStage = "new"
  MaxOps = 6
  Ad = {a1, a2}
  MaxEdits = 1
  MaxExports = 2
INVARIANTS
  WorkAccounted
  LeadAndDeal
  FeedAccounted
PROPERTIES
  FollowUpsEnd
