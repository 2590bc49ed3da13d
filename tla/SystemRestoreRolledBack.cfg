SPECIFICATION RestoreSpec
CONSTANTS
  NFiles = 2
  NSidecars = 2
  MaxErrors = 1
  MaxCrashes = 1
INVARIANTS
  RolledBackMeansOriginal
