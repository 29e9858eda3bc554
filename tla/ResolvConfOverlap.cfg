SPECIFICATION FilesSpec
CONSTANTS
  Sessions = {s1, s2}
  Overlap = TRUE
  RestoreFails = FALSE
INVARIANTS
  NeverCapturesItself
