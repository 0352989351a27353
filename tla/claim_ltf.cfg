CONSTANTS
  Bits = 3
  W = 8
  FLess <- MCFLess
  FEqual <- MCFEqual
  StackCap = 8
  RetCap = 6
  MaxVar = 1
  f0 = f0
  f1 = f1
  f2 = f2
  f3 = f3
  f4 = f4
  f5 = f5
  f6 = f6
  FrameId <- ClaimFrameId
  Junk = Junk
  Programs <- LtfPrograms
  DataLo = 1
  DataHi = 1
  WordBytes = 3
  PtrBytes = 6
  ByteValues = 2
SPECIFICATION Spec
INVARIANT LtfIsStrict
CHECK_DEADLOCK FALSE
