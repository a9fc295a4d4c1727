\* Two fragmented messages of one sender, whose datagrams interleave; no expiry.
SPECIFICATION FairLinkSpec
CONSTANTS
  UINT32_MAX = 7
  e1 = e1
  e2 = e2
  Endpoints = {e1, e2}
  long = long
  short = short
  tiny = tiny
  twin = twin
  Messages = {long, short}
  SenderOf <- MCSenderOf
  Chunks <- MCChunks
  Ids = {1, 2}
  NoId = NoId
  IdsAreUnique = TRUE
  MayFail = TRUE
  MaxLosses = 1
  MaxDuplicates = 1
  Datagrams <- MCAliens
  magic_header_bytes_ <- MCMagic
  DefaultAge = 1
  Ages = {}
  StartTime = 2
  MaxTime = 2
  Payloads <- MCData
  NoFragment = NoFragment
  NoMessage = NoMessage
INVARIANTS
  Integrity
  CompletePackagesHaveNoHoles
PROPERTIES
  HonestTrafficIsNotMalformed
  UndamagedMessagesArrive
\* Every message may have been sent and everything in flight received.
CHECK_DEADLOCK FALSE
