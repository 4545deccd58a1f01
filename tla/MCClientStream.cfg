SPECIFICATION FairSpec
CONSTANTS
  Nodes = {n1, n2}
  MaxMsgs = 3
  MaxStops = 1
  MaxErrors = 1
  MaxHasty = 1
CHECK_DEADLOCK FALSE
INVARIANTS
  ReadyMeansNotEmpty
  ConnectedIsRead
  HeardInOrder
  NodesAnnouncedOnce
PROPERTIES
  ComesBack
  CacheIsDrained
