SPECIFICATION FairSpec
CONSTANTS
  Msgs = {a, b}
  MaxTime = 3
  Times <- MCTimes
  MaxRows = 3
  Speeds <- MCSpeeds
  SeekTimes <- MCSeekTimes
  BufSize = 2
  Step = 2
  MaxExpired = 2
CHECK_DEADLOCK FALSE
INVARIANTS
  TypeOK
  NeverStalls
  PausedIsDisarmed
  TsIsFront
  Gapless
  QueueAfterSent
PROPERTIES
  PausedIsSilent
  TurnsAtPosition
  ImplementsCursor
  EveryMessagePlayed
