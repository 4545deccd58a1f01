SPECIFICATION FairSpec
CONSTANTS
  Conns = {c1, c2}
  Speeds <- MCSpeeds
  Types <- AllTypes
  MaxMsgs = 3
CHECK_DEADLOCK FALSE
INVARIANTS
  TypeOK
  ClientOfOwnStream
  PlayingAgrees
  NothingLeftBehind
PROPERTY ClosedLeaves
