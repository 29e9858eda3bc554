SPECIFICATION FairSpec
CONSTANTS
  Profiles <- EveryKind
  NoProfile = NoProfile
  MaxPosted = 2
INVARIANTS
  PendingRetryHasNoSession
  UserStopIsFinal
  PermanentFailureIsFinal
  RetriesAreBounded
  SessionHasFullBudget
  WindowShowsSession
PROPERTIES
  RetryHappens
