SPECIFICATION Spec
INVARIANT TypeOK
PROPERTY AuthorizedOnce
CONSTANTS
  None = None
  Garbled = Garbled
  Procs = {p1}
  Hosts = {h1}
  Timeouts = {0, 1}
  Minute = 2
  KnownHost = None
  MaxTokens = 5
  MaxCommands = 3
  MayCrash = FALSE
  MaxEvents = 2
  MaxTime = 3
CHECK_DEADLOCK FALSE
