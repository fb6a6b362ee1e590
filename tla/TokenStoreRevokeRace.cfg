SPECIFICATION Spec
PROPERTY RevokeIsFinal
CONSTANTS
  None = None
  Garbled = Garbled
  Procs = {p1, p2}
  Hosts = {h1}
  Timeouts = {0}
  Minute = 2
  KnownHost = h1
  MaxTokens = 4
  MaxCommands = 3
  MayCrash = FALSE
  MaxEvents = 1
  MaxTime = 0
CHECK_DEADLOCK FALSE
