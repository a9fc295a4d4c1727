\* The clock starts past every age: 3 > 2.
SPECIFICATION SocketSpec
CONSTANTS
  UINT32_MAX = 3
  Endpoints = {e1, e2}
  Ids = {1}
  p0 = p0
  p1 = p1
  Payloads = {p0, p1}
  Datagrams <- MCDatagrams
  magic_header_bytes_ <- MCMagic
  DefaultAge = 2
  Ages = {1, 2}
  StartTime = 3
  MaxTime = 6
  NoFragment = NoFragment
  NoMessage = NoMessage
INVARIANTS
  RejectedPackagesDoNotPileUp
PROPERTIES
  ExpiredPackagesStayDead
