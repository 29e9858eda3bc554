\* A dialog in which nothing is touched gives the profile the first interface.
SPECIFICATION Spec
CONSTANTS
  id1 = id1
  id2 = id2
  pw1 = pw1
  pw2 = pw2
  h1 = h1
  h2 = h2
  Ids = {id1}
  Keys = {id1}
  Kinds = {"Dot1x"}
  Hosts = {h1}
  Ports = {2000}
  Interfaces = {"eth0", "eth1"}
  Wired <- TwoWired
  Wireless <- None
  Passwords = {pw1}
  NoPassword = NoPassword
  WithWallet = FALSE
  FaultKinds = {}
  MaxImported = 1
  MaxHandlers = 2
INVARIANT InterfaceIsKept
CHECK_DEADLOCK FALSE
