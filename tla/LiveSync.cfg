\* Two calls of processQueue at a time; a failure or restart, a call from outside.
CHECK_DEADLOCK FALSE
SPECIFICATION Spec
CONSTANTS
  reviews = reviews
  messenger = messenger
  Worker = {messenger, reviews}
  Order <- MCOrder
  Full = Full
  None = None
  Webhook = Webhook
  Announced = {messenger}
  Messenger = messenger
  Ticker = {t1}
  Requester = {r1}
  TickRows = 1
  TickJobs = 1
  RequestJobs = 2
  MaxQueue = 1
  MaxFaults = 1
  MaxCalls = 1
INVARIANTS
  TypeOK
  ActiveWorkerRuns
  RunningHasRunner
  CompletedIsAnnounced
PROPERTIES
  DueIsRun
