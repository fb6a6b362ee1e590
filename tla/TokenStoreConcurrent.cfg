SPECIFICATION Spec
PROPERTY NoDeadToken
SYMMETRY Symmetry
CONSTANTS
  None = None
  Garbled = Garbled
  Procs = {p1, p2}
  Hosts = {h1}
  Timeouts = {0}
  Minute = 2
  KnownHost = h1
  MaxTokens = 4
  MaxCommands = 2
  MayCrash = FALSE
  MaxEvents = 1
  MaxTime = 0
CHECK_DEADLOCK FALSE
