CONSTANTS
  OperationId = {o1, o2}
  ClientId = {c1, c2}
  Key = {kc, ku}
  CacheableKey = {kc}
  SortKey = {1, 2}
  WorkerId = {w1}
  None = None
  MaxTime = 1
  MaxVersion = 2
  MaxDropped = 2
SPECIFICATION DbSpec
INVARIANTS
  ConnectedClientsExact
  KeyMapExact
  
PROPERTY OrphanCollected
CHECK_DEADLOCK FALSE
