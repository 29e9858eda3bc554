\* Each is refuted; with -continue TLC goes on from the first to the second.
SPECIFICATION Spec
CONSTANTS
  Kind = "Dot1x"
  Modes = {"Static"}
  ViaPkexec = FALSE
  Files = {"orig", "new"}
INVARIANTS
  NothingIsLeft
  ResolverIsNeverLost
CHECK_DEADLOCK FALSE
