CONSTANTS
  Bits = 3
  W = 8
  FLess <- MCFLess
  FEqual <- MCFEqual
  StackCap = 2
  RetCap = 2
  MaxVar = 1
  f0 = f0
  f1 = f1
  f2 = f2
  f3 = f3
  FrameId <- MCFrameId
  Junk = Junk
  Programs <- TerminationPrograms
  DataLo = 1
  DataHi = 1
  WordBytes = 3
  PtrBytes = 6
  ByteValues = 2
SPECIFICATION FairSpec
INVARIANT TypeOK
PROPERTY Termination
CHECK_DEADLOCK FALSE
