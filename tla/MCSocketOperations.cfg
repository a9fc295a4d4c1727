SPECIFICATION OperationsFairSpec
CONSTANTS
  UINT32_MAX = 3
  e1 = e1
  p0 = p0
  p1 = p1
  Endpoints = {e1}
  Ids = {1}
  Payloads = {p0, p1}
  Datagrams <- MCDatagrams
  magic_header_bytes_ <- MCMagic
  DefaultAge = 2
  Ages = {}
  StartTime = 3
  MaxTime = 3
  NoFragment = NoFragment
  NoMessage = NoMessage
  Packets <- MCPackets
  DefaultEndpoint = DefaultEndpoint
  EmptyDatagram <- MCEmpty
  NoPacket = NoPacket
  ListLength = 2
  Systems = {"Linux", "Windows", "MacOS"}
  IoThreads = 2
  MaxCalls = 2
  MaxPackets = 1
INVARIANTS
  CallsAreInProgressOrCompleted
  RacesNeedTwoCalls
  OnlyBusyCallsMissTheSocket
  NothingWithoutErrorMeansShutdown
PROPERTIES
  ReceiveFromCanBeUnblocked
  ClosedSocketsCompleteTheirCalls
CHECK_DEADLOCK FALSE
