SPECIFICATION Spec
CONSTANTS
  MaxSessions = 1
  MaxLines = 2
  AsRoot = FALSE
  Options = {}
PROPERTIES
  StopIsGraceful
CHECK_DEADLOCK FALSE
