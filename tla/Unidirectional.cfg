SPECIFICATION Spec
CONSTANTS
  QueueSize = 2
  AudioSegmentDuration = 2
  VadHoldOn = 1
  AlienPackets = 1
  CandidateTimeout = 0
  MinSeqDelta = 2
  MinPackets = 2
  Scenarios <- DiscardingScenarios
INVARIANT BidirectionalCallsStart
CHECK_DEADLOCK FALSE
