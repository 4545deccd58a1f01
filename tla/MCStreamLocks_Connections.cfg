SPECIFICATION FairSpec
CONSTANTS
  Threads = {t1, t2}
  Streams = {s1, s2}
  Handlers <- WithoutTimer
CHECK_DEADLOCK FALSE
INVARIANTS
  TypeOK
  PlayingAgrees
  NoCircularWait
PROPERTY EveryHandlerReturns
