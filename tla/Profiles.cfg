SPECIFICATION Spec
CONSTANTS
  id1 = id1
  id2 = id2
  pw1 = pw1
  pw2 = pw2
  h1 = h1
  h2 = h2
  Ids = {id1, id2}
  Keys = {id1, id2}
  Kinds = {"Dot1x", "Portal", "L2tp"}
  Hosts = {h1, h2}
  Ports = {2000, 50100}
  Interfaces = {"eth0"}
  Wired <- OneWired
  Wireless <- None
  Passwords = {pw1, pw2}
  NoPassword = NoPassword
  WithWallet = TRUE
  FaultKinds = {"load", "save", "write", "backend"}
  MaxImported = 2
  MaxHandlers = 2
INVARIANTS
  PasswordHasProfile
  LatestPasswordIsUsed
  OnlyTouchedFieldsChange
PROPERTIES
  KeepsBook
SYMMETRY Alike
CHECK_DEADLOCK FALSE
