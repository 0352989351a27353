CONSTANTS
  programArena = programArena
  ffiArena = ffiArena
  Arenas <- MCArenas
  Capacity <- MCCapacity
  Requests <- MCRequests
  ByteValues = 4
  ShortBytes = 1
  WordBytes = 2
  SizeBytes = 2
  OpcodeBytes = 2
  MaxLibs = 2
  MaxCfuns = 3
  MaxCode = 4
  ProgramArena <- programArena
  Programs <- MCPrograms
  Exports <- MCExports
  FfiArena <- ffiArena
  FunctionBytes = 2
  PointerBytes = 1
SPECIFICATION Spec
INVARIANTS TypeOK RoundTrip CallsMatchDeclarations ClosedOnce
  BlocksDisjoint OnlyLargeBlocksOverrun OnlyDisplacedRegionsLeak
PROPERTY ArenaSpec
CHECK_DEADLOCK FALSE
