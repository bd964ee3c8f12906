CONSTANTS
  Capacity = 8
  Trigger = 6
  HoldOff = 5
  TsModulus = 64
  MsStep = 1
  PacketSamples = 2
  MaxSamples = 9
  MaxChannels = 3
  BatchSize = 1
  Scenarios <- AllScenarios
SPECIFICATION Spec
CHECK_DEADLOCK FALSE
INVARIANTS InStep TimeAligned FileIsPrefix EverythingPlayed KeptSideHeard
PROPERTIES RefinesMixedAudio
