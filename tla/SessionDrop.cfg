SPECIFICATION Spec
CONSTANTS
  MaxHops = 3
  MaxGuard = 3
  Retries = 3
INVARIANTS
  DropIsAFailure
CHECK_DEADLOCK FALSE
