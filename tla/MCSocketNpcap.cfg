SPECIFICATION NpcapSpec
CONSTANTS
  UINT32_MAX = 3
  e1 = e1
  e2 = e2
  p0 = p0
  p1 = p1
  q0 = q0
  Endpoints = {e1, e2}
  Ids = {1}
  Payloads = {p0, p1, q0}
  Datagrams <- MCDatagrams
  magic_header_bytes_ <- MCMagic
  DefaultAge = 2
  Ages = {}
  StartTime = 3
  MaxTime = 3
  NoFragment = NoFragment
  NoMessage = NoMessage
  Packets <- MCPackets
  NoPacket = NoPacket
  UdpcapFailures = {"TIMEOUT"}
  Reopens = FALSE
  MaxRequests = 4
  MaxBinds = 1
  MaxPackets = 2
  MaxCalls = 2
INVARIANTS
  CallsHaveOneRequestOrResult
  EndpointsBelongToMessages
  OnlyUnfinishedCallsMissMembers
CHECK_DEADLOCK FALSE
