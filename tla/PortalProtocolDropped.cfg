SPECIFICATION FairSpec
CONSTANTS
  Dialects = {"v2", "h3c"}
  MaxDups = 2
PROPERTIES
  DroppedServerIsDetected
CHECK_DEADLOCK FALSE
