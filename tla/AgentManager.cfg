SPECIFICATION FairSpec
CONSTANTS
  s1 = s1
  c1 = c1
  c2 = c2
  c3 = c3
  t1 = t1
  t2 = t2
  Socket <- MCSocket
  Client <- MCClient
  Task <- MCTask
  None = None
  MaxChange = 2
INVARIANTS
  OneConnection
  OnlineIsTrue
PROPERTIES
  ForwardsOverItsLogin
  ForwardSettles
CHECK_DEADLOCK FALSE
