SPECIFICATION Spec
CONSTANTS
  Types = {"start", "gps", "edge"}
  Layers = {"physical", "hop"}
  Filters <- MCFilters
  Relays <- MCRelays
  Batches <- MCBatches
  Width = 2
  SocketSize = 2
  MaxFrames = 3
CHECK_DEADLOCK FALSE
INVARIANT
  StreamIsIntact
