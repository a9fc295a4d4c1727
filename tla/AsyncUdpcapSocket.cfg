\* TIMEOUT is a Udpcap error that ecaludp has no code for.
SPECIFICATION AsyncFairSpec
CONSTANTS
  Packets = {p1}
  NoPacket = NoPacket
  UdpcapFailures = {"TIMEOUT"}
  Reopens = TRUE
  MaxRequests = 3
  MaxBinds = 2
  MaxPackets = 1
INVARIANTS
  AsyncTypeOK
  NoWakeUpIsLost
  EmptyHandlersNeedARebind
PROPERTIES
  ImplementsRequestQueue
  RequestsAreTakenUp
  DestructorReturns
CHECK_DEADLOCK FALSE
