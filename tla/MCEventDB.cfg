SPECIFICATION EventDBSpec
CONSTANTS
  Msgs = {a, b}
  MaxTime = 5
  Times <- MCTimes
  MaxRows = 4
  QueryTimes <- MCQueryTimes
  Counts <- MCCounts
CHECK_DEADLOCK FALSE
INVARIANTS
  LoopAgrees
  PagingLosesNothing
  ForwardSoftLimit
  MillisecondsStayWhole
