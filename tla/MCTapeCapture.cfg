CONSTANTS
  MaxTapes = 2
  MaxChunks = 3
  MaxStops = 2
  MaxCalls = 4
  ChunkQueueLimit = 2
  CaptureFileSizeLimit = 1
  TapeDurationMinimumSec = 2
  Durations = {3}
  KeepValues = {FALSE}
  PartyFilterSettings = {TRUE, FALSE}
SPECIFICATION FairSpec
INVARIANTS NoLostWakeup DisposedOnce FiledInOrder
PROPERTIES FileFrozenAfterDisposal EveryEndedTapeSettles
CHECK_DEADLOCK FALSE
