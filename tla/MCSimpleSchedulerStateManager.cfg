CONSTANTS
  OperationId = {o1}
  ClientId = {c1}
  Key = {k1}
  CacheableKey = {k1}
  SortKey = {1, 9}
  BoostedKey = 9
  None = None
  WorkerId = {w1, w2}
  Updater = {u1, u2, timer}
  Timer = timer
  Filter = {f1}
  max_update_retries = 2
  max_job_retries = 1
  client_action_timeout = 1
  no_event_action_timeout = 1
  max_executing_timeout = 1
  MaxTime = 2
  MaxVersion = 2
  MaxDropped = 1
SPECIFICATION MCSpec
SYMMETRY SmSymmetry
INVARIANTS
  RetriesBounded
  ListedOnce
PROPERTIES
  FinishedIsFinal
  Lifecycle
CHECK_DEADLOCK FALSE
