SPECIFICATION Spec
CONSTANTS
  a = a
  b = b
  web = web
  p1 = p1
  p2 = p2
  p3 = p3
  r1 = r1
  r2 = r2
  d1 = d1
  d2 = d2
  Standalone <- MCStandalone
  Service <- MCService
  Name <- MCName
  Port <- MCPort
  Id <- MCId
  Req <- MCReq
  CacheDir <- MCCacheDir
  None = None
  MaxAsk = 3
  MaxFault = 1
SYMMETRY MCSymmetry
INVARIANTS
  NeverLost
  ShownWhileRebuilt
  CleanUpIsExact
PROPERTIES
  AnswerIsTrue
  FailureRestores
CHECK_DEADLOCK FALSE
