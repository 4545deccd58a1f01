SPECIFICATION FairSpec
CONSTANTS
  Clients = {c1}
  Rates <- MCRates
  MaxRate = 2
  RateBound = 4
  MaxActions = 2
  Patient = FALSE
CHECK_DEADLOCK FALSE
PROPERTY ControlsSynced
