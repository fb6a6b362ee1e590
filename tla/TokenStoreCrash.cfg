SPECIFICATION Spec
INVARIANT NoTokenForgotten
PROPERTY RevokeIsFinal
CONSTANTS
  None = None
  Garbled = Garbled
  Procs = {p1}
  Hosts = {h1, h2}
  Timeouts = {0}
  Minute = 2
  KnownHost = h1
  MaxTokens = 6
  MaxCommands = 3
  MayCrash = TRUE
  MaxEvents = 2
  MaxTime = 0
CHECK_DEADLOCK FALSE
