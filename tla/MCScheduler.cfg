CONSTANTS
  OperationId = {o1}
  ClientId = {c1}
  Key = {k1, timed, bad}
  TimedKey = timed
  CacheableKey = {k1, timed}
  InvalidKey = {bad}
  SortKey = {1, 9}
  BoostedKey = 9
  None = None
  WorkerId = {w1, w2}
  Updater = {o1, w1, w2, timer, evictor}
  Timer = timer
  Evictor = evictor
  Filter = {f1}
  Outcome = {"Completed", "Sigkill", "Error", "MissingInputs", "Backpressure"}
  AdminCall = {"GoingAway", "SetDrainWorker"}
  max_update_retries = 2
  max_job_retries = 1
  client_action_timeout = 1
  no_event_action_timeout = 1
  max_executing_timeout = 1
  capacity = 1
  max_inflight_tasks = 1
  worker_timeout = 1
  MaxTime = 2
  MaxVersion = 3
  MaxDropped = 1
  MaxInbox = 3
SPECIFICATION SchedSafetySpec
CONSTRAINT Regime
SYMMETRY SchedSymmetry
INVARIANTS
  
  ExecutingAttended
  GoneIsForgotten
CHECK_DEADLOCK FALSE
