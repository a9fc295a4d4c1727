\* Two messages of one sender that are given the same id.
SPECIFICATION LinkSpec
CONSTANTS
  UINT32_MAX = 7
  e1 = e1
  e2 = e2
  Endpoints = {e1, e2}
  long = long
  short = short
  tiny = tiny
  twin = twin
  Messages = {long, short}
  SenderOf <- MCSenderOf
  Chunks <- MCChunks
  Ids = {1}
  NoId = NoId
  IdsAreUnique = FALSE
  MayFail = FALSE
  MaxLosses = 0
  MaxDuplicates = 0
  Datagrams <- MCAliens
  magic_header_bytes_ <- MCMagic
  DefaultAge = 1
  Ages = {}
  StartTime = 2
  MaxTime = 2
  Payloads <- MCData
  NoFragment = NoFragment
  NoMessage = NoMessage
INVARIANTS
  CompletePackagesHaveNoHoles
\* Every message may have been sent and everything in flight received.
CHECK_DEADLOCK FALSE
