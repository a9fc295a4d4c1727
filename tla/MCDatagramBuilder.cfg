\* Messages of every size up to the largest uint32_t, and one more.
SPECIFICATION Spec
CONSTANTS
  UINT32_MAX = 15
  MCMaxBuffers = 4
  MCMaxBufferSize = 4
  MCTotals = {0, 1, 2, 3, 4, 5, 6, 7, 8, 9, 10, 11, 12, 13, 14, 15, 16}
  BufferSequences <- MCBufferSequences
  MaxDatagramSizes <- MCSizes
INVARIANTS
  PayloadIsTheUsersBytes
  DatagramsAreAsLargeAsAllowed
  InfoAnnouncesTheFragments
PROPERTIES
  BuilderTerminates
\* The algorithm ends.
CHECK_DEADLOCK FALSE
