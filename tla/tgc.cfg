CONSTANTS
  v0 = v0
  v1 = v1
  v2 = v2
  v3 = v3
  v4 = v4
  a0 = a0
  a1 = a1
  Buffer <- MCBuffer
  Base <- MCBase
  Nowhere = Nowhere
  Junk = Junk
  Sizes = {8}
  ArrayMin = 2
  MaxPointers = 1
  MaxBlocks = 4
SPECIFICATION Spec
SYMMETRY HeapSymmetry
INVARIANTS TypeOK CountIsLength HandlesDesignate
PROPERTY MarkedStay
CHECK_DEADLOCK FALSE
