SPECIFICATION Spec
CONSTANTS
  Kind = "Dot1x"
  Modes = {"Static"}
  ViaPkexec = FALSE
  Files = {"orig", "new"}
PROPERTIES
  RouteIsPutBack
CHECK_DEADLOCK FALSE
