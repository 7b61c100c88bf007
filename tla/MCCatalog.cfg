SPECIFICATION AdsSpec
CONSTANTS
  Ad = {ad}
  Item = {item}
  Call = {c1, c2}
  MaxOps = 2
  MaxMessages = 1
  MaxChanges = 1
  Worker = {messenger}
  Order <- MCOrder
  Announced = {}
  Messenger = messenger
  Full = Full
  None = None
  Webhook = Webhook
  Ticker = {}
  Requester = {}
  TickRows = 1
  TickJobs = 1
  RequestJobs = 1
  MaxQueue = 0
  MaxFaults = 0
  MaxCalls = 0
INVARIANTS
  AdIsItsStream
  CountersAccounted
PROPERTIES
  ItemsShown
\* Nothing is left to do once the bounded requests are over.
CHECK_DEADLOCK FALSE
