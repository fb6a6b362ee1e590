SPECIFICATION Spec
INVARIANT MfaValueChecked
CHECK_DEADLOCK FALSE
CONSTANTS
  Byte <- MCByte
  ReadLen = 3
  Files <- MCFiles
  None = None
  Number <- MCNumber
  IntHalf = 16
  Minute = 4
  WithSciTokens = FALSE
  MaxLength = 0
