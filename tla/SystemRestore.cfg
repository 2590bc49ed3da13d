SPECIFICATION RestoreFairSpec
CONSTANTS
  NFiles = 2
  NSidecars = 2
  MaxErrors = 3
  MaxCrashes = 2
INVARIANTS
  AppliedMeansRestored
  RolledBackMeansUntouched
  ServesOldOrNew
  CrashesAloneAreHarmless
  MarkerConsumed
PROPERTIES
  EventuallyServes
