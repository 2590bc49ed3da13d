SPECIFICATION Spec
CONSTANTS
  u1 = u1
  u2 = u2
  s1 = s1
  s2 = s2
  r1 = r1
  r2 = r2
  Name <- MCName
  Socket <- MCSocket
  Request <- MCRequest
  Role <- MCRole
  Nobody = Nobody
  MaxPassword = 1
INVARIANTS
  AdministratorRemains
  SessionsFollowAccounts
SYMMETRY Symmetry
VIEW View
