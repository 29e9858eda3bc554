SPECIFICATION FairSpec
CONSTANTS
  MaxSessions = 1
  MaxLines = 2
  AsRoot = FALSE
  Options = {}
PROPERTIES
  DisconnectEnds
CHECK_DEADLOCK FALSE
