CONSTANTS
  Bits = 4
  W = 16
  FLess <- MCFLess
  FEqual <- MCFEqual
  StackCap = 4
  RetCap = 3
  MaxVar = 2
  f0 = f0
  f1 = f1
  f2 = f2
  f3 = f3
  FrameId <- MCFrameId
  Junk = Junk
  Programs <- MCPrograms
  DataLo = 1
  DataHi = 1
  WordBytes = 2
  PtrBytes = 4
  Arch = "x86_64"
  HeaderBytes = 20
  ByteValues = 4
  v0 = v0
  v1 = v1
  v2 = v2
  a0 = a0
  a1 = a1
  Buffer <- MCBuffer
  Base <- MCBase
  Nowhere = Nowhere
  ArrayMin = 1
  MaxPointers = 1
  MaxBlocks = 4
  BufferAt <- MCBufferAt
  HeaderAt <- MCHeaderAt
  BufferRoom = 5
  Unset = Unset
  Functions <- MCFunctions
  MaxCfuns = 6
  VargsCap = 2
SPECIFICATION ProcessSpec
SYMMETRY FrameSymmetry
INVARIANTS FrameChain ReturnsBehindCalls NoTornValues HeapTypeOK HeadersDescribeBuffers WritesStayInside
PROPERTIES CallsNest ImplementsBlockStore
CHECK_DEADLOCK FALSE
