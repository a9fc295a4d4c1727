\* Duplicates of every datagram of a message, and packages that expire.
SPECIFICATION LinkSpec
CONSTANTS
  UINT32_MAX = 7
  e1 = e1
  e2 = e2
  Endpoints = {e1, e2}
  long = long
  short = short
  tiny = tiny
  twin = twin
  Messages = {short, tiny}
  SenderOf <- MCSenderOf
  Chunks <- MCChunks
  Ids = {1}
  NoId = NoId
  IdsAreUnique = TRUE
  MayFail = TRUE
  MaxLosses = 1
  MaxDuplicates = 3
  Datagrams <- MCAliens
  magic_header_bytes_ <- MCMagic
  DefaultAge = 1
  Ages = {2}
  StartTime = 3
  MaxTime = 5
  Payloads <- MCData
  NoFragment = NoFragment
  NoMessage = NoMessage
INVARIANTS
  LinkTypeOK
  CopiesNeedDuplicates
PROPERTIES
  ImplementsChannel
\* Every message may have been sent and everything in flight received.
CHECK_DEADLOCK FALSE
