\* Two objects, and a block more than they own: realloc has a place to go to.
SPECIFICATION RawMemorySpec
CONSTANTS
  Objects = {o1, o2}
  Absent = Absent
  Pointers = {a1, a2, a3}
  NULL = NULL
  Bytes = {0, 1}
  MaxSize = 3
INVARIANTS
  RawMemoryTypeOK
  BlocksHaveOneOwner
  SizesFitTheirBlocks
PROPERTIES
  ImplementsByteStrings
