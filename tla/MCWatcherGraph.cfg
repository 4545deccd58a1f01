SPECIFICATION Spec
CONSTANTS
  n1 = n1
  n2 = n2
  hop = hop
  extra = extra
  t = t
  Nids = {n1, n2}
  LayerNames = {physical, hop, extra}
  Physical = physical
  Texts = {t}
  MaxNumNodes = 2
  MaxNumLayers = 3
  Times <- MCTimes
  Lifetimes <- MCLifetimes
  Messages <- MCMessages
CHECK_DEADLOCK FALSE
INVARIANTS
  TypeOK
  IndexesAgree
  AbsentHasNoExpiration
  LabelsOfThisDirection
PROPERTY ImplementsEdges
