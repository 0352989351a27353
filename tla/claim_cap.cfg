CONSTANTS
  v0 = v0
  v1 = v1
  v2 = v2
  v3 = v3
  v4 = v4
  a0 = a0
  a1 = a1
  Buffer <- MCBuffer5
  Base <- MCBase
  Nowhere = Nowhere
  Junk = Junk
  Sizes = {8}
  ArrayMin = 4
  MaxPointers = 0
  MaxBlocks = 5
SPECIFICATION Spec
INVARIANT FirstTenStay
CHECK_DEADLOCK FALSE
