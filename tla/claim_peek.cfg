CONSTANTS
  Character <- MCCharacter
  Letter <- MCLetter
  Digit <- MCDigit
  HexDigit <- MCHexDigit
  Escape <- MCEscape
  Keyword <- MCKeyword
  TempCap = 4
  Ids <- MCIds
  Top = Top
  NoName = NoName
  NoValue = NoValue
  Files <- MCFiles
SPECIFICATION Spec
INVARIANT PeekIsReset
CHECK_DEADLOCK FALSE
