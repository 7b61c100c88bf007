SPECIFICATION Spec
CONSTANTS
  Call = {c1, c2}
  Poller = {c1}
  Message <- MCMessage
  Chat = {"chat1", "chat2"}
  Author = {"buyer", "account"}
  Item = {"item"}
  NoItem = "none"
  ChatOf <- MCChatOf
  AuthorOf <- MCAuthorOf
  ItemOf <- MCItemOf
  Snapshot <- MCSnapshot
  Rules = 2
  MaxCopies = 2
  MaxDeliveries = 2
  MaxFaults = 1
INVARIANTS
  LeadsWhole
  DuplicatesBounded
PROPERTIES
  KnownAreRecorded
\* Nothing is left to do once the bounded deliveries are over.
CHECK_DEADLOCK FALSE
