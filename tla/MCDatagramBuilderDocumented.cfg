\* Messages of the largest size there is.
SPECIFICATION Spec
CONSTANTS
  UINT32_MAX = 15
  MCMaxBuffers = 4
  MCMaxBufferSize = 4
  MCTotals = {15}
  BufferSequences <- MCBufferSequences
  MaxDatagramSizes <- MCSizes
INVARIANTS
  HeadersAreAsDocumented
\* The algorithm ends.
CHECK_DEADLOCK FALSE
