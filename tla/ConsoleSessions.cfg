SPECIFICATION FairSpec
CONSTANTS
  x1 = x1
  x2 = x2
  n1 = n1
  n2 = n2
  s1 = s1
  s2 = s2
  u1 = u1
  u2 = u2
  Session <- MCSession
  Name <- MCName
  Socket <- MCSocket
  User <- MCUser
  None = None
  MaxSessions = 1
INVARIANTS
  ShellsWithinLimit
  NameFindsItsShell
  RunningIsTimed
PROPERTIES
  DisconnectEndsSession
CHECK_DEADLOCK FALSE
