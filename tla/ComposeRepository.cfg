SPECIFICATION Spec
CONSTANTS
  s1 = s1
  s2 = s2
  File <- MCFile
  DirectoryOf <- MCDirectoryOf
  ProjectOf <- MCProjectOf
  Filter = {"all", "running"}
  PageSize = 1
  ScanLimit = 2
  CacheDuration = 1
  Scan <- MCScan
  None = None
  MaxAsk = 2
  MaxChange = 1
  MaxTime = 1
  MaxFailure = 1
SYMMETRY MCSymmetry
INVARIANTS
  IndexIsTrue
PROPERTIES
  RefreshIsTrue
CHECK_DEADLOCK FALSE
