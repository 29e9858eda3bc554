SPECIFICATION FairSpec
CONSTANTS
  MaxSessions = 2
  MaxLines = 2
  AsRoot = FALSE
  Options = {"split", "spa"}
INVARIANTS
  EndedMeansDown
  StopFindsBackend
PROPERTIES
  KeepsContract
  FoundIsStopped
CHECK_DEADLOCK FALSE
