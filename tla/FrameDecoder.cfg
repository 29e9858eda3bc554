SPECIFICATION StreamSpec
CONSTANTS
  Base = 3
  Types = {0, 1}
  Values = {0, 1}
  MaxFrames = 2
  MaxPayload = 3
INVARIANTS
  FramesSurvive
CHECK_DEADLOCK FALSE
