SPECIFICATION ListingSpec
CONSTANTS
  web = web
  b1 = b1
  Stack <- MCStack
  Hidden = {}
  Browser <- MCBrowser
  States <- MCStates
  NoStack = NoStack
  MaxRefresh = 3
  MaxEvent = 1
  MaxFault = 1
PROPERTIES
  FullIsTrue
  SettledIsTrue
  LoginIsAnswered
CHECK_DEADLOCK FALSE
