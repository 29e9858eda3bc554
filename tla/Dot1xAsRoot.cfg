SPECIFICATION FairSpec
CONSTANTS
  Kind = "Dot1x"
  Modes = {"Static"}
  ViaPkexec = TRUE
  Files = {"orig", "new"}
PROPERTIES
  DisconnectEnds
CHECK_DEADLOCK FALSE
