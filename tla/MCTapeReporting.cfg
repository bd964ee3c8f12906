SPECIFICATION FairSpec
CONSTANTS
  MaxTapes = 2
  MaxTrackers = 2
  Reachable = {1}
  ReportingQueueSize = 2
  Clients = {"c1", "c2"}
  MaxSessions = 1
  MaxMessages = 1
  Scenarios <- AllScenarios
INVARIANTS
  StagesInOrder
  NoPrematureReady
  InOrderDelivery
  ClientsFollow
PROPERTIES
  ReadyReachesTrackers
CHECK_DEADLOCK FALSE
