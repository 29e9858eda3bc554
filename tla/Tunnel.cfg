SPECIFICATION FairSpec
CONSTANTS
  MaxMiss = 2
  MaxData = 3
  MaxControl = 1
  MaxFlight = 3
INVARIANTS
  LossesAreBehindConfig
  OneWriter
PROPERTIES
  OfflineOnlyUnanswered
  HeartbeatEnds
  PumpEnds
CHECK_DEADLOCK FALSE
