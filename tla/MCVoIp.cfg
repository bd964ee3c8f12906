SPECIFICATION FairSpec
CONSTANTS
  a1 = 1
  a2 = 2
  b1 = 3
  b2 = 4
  hostA = hostA
  hostB = hostB
  PacketIds = {1, 2}
  TimeoutSec = 2
  SeqModulus = 16
  StreamTimeout = 2
  TcpHeaderLength = 2
  Endpoints <- MCEndpoints
  NoEndpoint = NoEndpoint
  Hosts <- MCHosts
  NoHost = NoHost
  MaxIax2Sessions = 2
  Scenarios <- MCScenarios
INVARIANTS
  AssembledProperly
  Reassembled
  InOrderMessagesReported
  Iax2IndexesTrue
PROPERTIES
  UpRecordingSurvives
  SilentIax2RecordingsEnd
