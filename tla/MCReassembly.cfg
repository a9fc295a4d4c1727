\* Two senders, one id each, a clock that ticks once.
SPECIFICATION Spec
CONSTANTS
  UINT32_MAX = 3
  Endpoints = {e1, e2}
  Ids = {1}
  p0 = p0
  p1 = p1
  Payloads = {p0, p1}
  Datagrams <- MCDatagrams
  StartTime = 1
  MaxTime = 2
  NoFragment = NoFragment
  NoMessage = NoMessage
INVARIANTS
  TypeOK
  CounterCoversSlots
  NoCompletePackageLingers
  DiesOnlyOfCutOffFragments
PROPERTIES
  FirstDatagramWins
\* A null pointer dereference ends the program.
CHECK_DEADLOCK FALSE
