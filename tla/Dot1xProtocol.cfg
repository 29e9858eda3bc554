SPECIFICATION FairSpec
CONSTANTS
  Kind = "Wlan"
  Modes = {"Inherit", "Dhcp", "Static"}
  ViaPkexec = FALSE
  Files = {"orig", "new"}
INVARIANTS
  LinkFollowsClient
  ResolverIsKept
PROPERTIES
  KeepsContract
  DisconnectEnds
CHECK_DEADLOCK FALSE
