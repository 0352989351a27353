CONSTANTS
  Bits = 8
  W = 256
  FLess <- MCFLess
  FEqual <- MCFEqual
  StackCap = 4
  RetCap = 0
  MaxVar = 2
  f0 = f0
  f1 = f1
  f2 = f2
  f3 = f3
  FrameId <- OneFrame
  Junk = Junk
  Programs <- I386Programs
  DataLo = 1
  DataHi = 0
  WordBytes = 4
  ByteValues = 4
  PtrBytes = 4
  Arch = "i386"
  HeaderBytes = 32
  v0 = v0
  v1 = v1
  v2 = v2
  a0 = a0
  a1 = a1
  Buffer <- I386Buffer
  Base <- MCBase
  Nowhere = Nowhere
  ArrayMin = 1
  MaxPointers = 1
  MaxBlocks = 3
  BufferAt <- I386BufferAt
  HeaderAt <- I386HeaderAt
  BufferRoom = 20
  Unset = Unset
  Functions <- I386Functions
  MaxCfuns = 6
  VargsCap = 2
SPECIFICATION ProcessSpec
INVARIANTS WritesStayInside
PROPERTY ImplementsBlockStore
CHECK_DEADLOCK FALSE
