SPECIFICATION FairLegacySpec
CONSTANTS
  Clients = {c1, c2, c3}
  Rates <- MCRates
  MaxRate = 1
  RateBound = 2
  MaxActions = 0
  Patient = TRUE
  LegacySets = {{}, {c1, c2}}
  Mixed = FALSE
CHECK_DEADLOCK FALSE
INVARIANTS
  ClientsAgree
  EchoesAreBounded
PROPERTY AnswersEnd
