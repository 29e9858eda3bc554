SPECIFICATION Spec
CONSTANTS
  Profiles <- EveryKind
  NoProfile = NoProfile
  MaxPosted = 2
INVARIANTS
  GivingUpIsFinal
