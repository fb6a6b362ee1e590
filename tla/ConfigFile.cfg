SPECIFICATION Spec
INVARIANTS ConfigTypeOK NoOverrun PairsAsWritten AcceptedAsMeant NeverLaxer
PROPERTY Terminates
CHECK_DEADLOCK FALSE
CONSTANTS
  Byte <- MCByte
  ReadLen = 3
  Files <- MCFiles
  None = None
  Number <- MCNumber
  IntHalf = 16
  Minute = 4
  WithSciTokens = TRUE
  MaxLength = 5
