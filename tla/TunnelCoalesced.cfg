SPECIFICATION Spec
CONSTANTS
  MaxMiss = 2
  MaxData = 2
  MaxControl = 1
  MaxFlight = 3
INVARIANTS
  FramesArriveInOrder
CHECK_DEADLOCK FALSE
