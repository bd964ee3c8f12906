SPECIFICATION Spec
CONSTANTS
  MaxTapes = 1
  BatchThreads = {b1}
  QueueSize = 1
  Configs <- KeepNativeConfigs
INVARIANTS
  TranscodedKept
CHECK_DEADLOCK FALSE
