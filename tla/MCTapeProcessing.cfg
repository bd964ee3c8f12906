SPECIFICATION FairSpec
CONSTANTS
  MaxTapes = 3
  BatchThreads = {b1, b2}
  QueueSize = 1
  Configs <- ChainConfigs
INVARIANTS
  RecordingSurvives
  ReportedFileExists
  CommandOutputVerified
PROPERTIES
  EveryTapeLeaves
CHECK_DEADLOCK FALSE
