SPECIFICATION FairSpec
CONSTANTS
  MaxRetries = 3
  MaxDups = 1
  MaxRechecks = 1
INVARIANTS
  GivesUpOnlyUnanswered
  ConnectedWasAccepted
PROPERTIES
  FailureIsFinal
  KeepsContract
  DisconnectEnds
  HandshakeEnds
CHECK_DEADLOCK FALSE
