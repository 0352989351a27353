CONSTANTS
  x = x
  y = y
  Ids <- MCIds
  Top = Top
  NoName = NoName
  NoValue = NoValue
  Sources <- MCSources
  CodeCap = 3
  DeclCap = 2
  CallCap = 2
  ProcCap = 2
SPECIFICATION Spec
SYMMETRY IdSymmetry
INVARIANTS TypeOK PassesAgree TargetsDesignate VerdictIsRight ConstantsLieWhole
CHECK_DEADLOCK FALSE
