CONSTANTS
  MaxTapes = 1
  MaxChunks = 2
  MaxStops = 1
  MaxCalls = 3
  ChunkQueueLimit = 1
  CaptureFileSizeLimit = 1
  TapeDurationMinimumSec = 2
  Durations = {3}
  KeepValues = {}
  PartyFilterSettings = {FALSE}
SPECIFICATION Spec
PROPERTY DiscardedOnlyIfShort
CHECK_DEADLOCK FALSE
