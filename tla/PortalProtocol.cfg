SPECIFICATION FairSpec
CONSTANTS
  Dialects = {"v2", "h3c"}
  MaxDups = 2
INVARIANTS
  ConnectedWasAccepted
  ConnectedIsKeptAlive
PROPERTIES
  DisconnectEnds
  KeepsContract
CHECK_DEADLOCK FALSE
