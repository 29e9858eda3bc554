SPECIFICATION FairSpec
CONSTANTS
  MaxHops = 3
  MaxGuard = 3
  Retries = 3
INVARIANTS
  ExitCodesAreRight
  TunnelIsCleanedUp
PROPERTIES
  PasswordIsNotRetried
  AuthenticationEnds
CHECK_DEADLOCK FALSE
