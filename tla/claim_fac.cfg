CONSTANTS
  Bits = 8
  W = 256
  FLess <- MCFLess
  FEqual <- MCFEqual
  StackCap = 8
  RetCap = 6
  MaxVar = 1
  f0 = f0
  f1 = f1
  f2 = f2
  f3 = f3
  f4 = f4
  f5 = f5
  f6 = f6
  FrameId <- ClaimFrameId
  Junk = Junk
  Programs <- FacProgram
  DataLo = 1
  DataHi = 1
  WordBytes = 2
  PtrBytes = 4
  ByteValues = 16
SPECIFICATION Spec
INVARIANT FacReturnsFactorial
CHECK_DEADLOCK FALSE
