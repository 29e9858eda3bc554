SPECIFICATION Spec
CONSTANTS
  MaxSessions = 1
  MaxLines = 2
  AsRoot = TRUE
  Options = {}
INVARIANTS
  EndedMeansDown
CHECK_DEADLOCK FALSE
