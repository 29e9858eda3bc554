SPECIFICATION FilesSpec
CONSTANTS
  Sessions = {s1, s2}
  Overlap = FALSE
  RestoreFails = FALSE
INVARIANTS
  EverythingIsRestored
