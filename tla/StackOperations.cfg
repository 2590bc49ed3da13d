SPECIFICATION StackFairSpec
CONSTANTS
  r1 = r1
  r2 = r2
  e1 = e1
  e2 = e2
  Endpoint <- MCEndpoint
  Vacant = Vacant
  Request <- MCRequest
INVARIANTS
  TerminalIsHeld
PROPERTIES
  NoContainerIsAbandoned
  EveryRequestIsAnswered
