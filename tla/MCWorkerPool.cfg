CONSTANTS
  OperationId = {o1, o2, o3}
  WorkerId = {w1, w2}
  None = None
  MaxTime = 1
  capacity = 1
  max_inflight_tasks = 2
  worker_timeout = 1
  AdminCall = {"Shutdown", "SetDrainWorker"}
SPECIFICATION PoolSpec
SYMMETRY PoolSymmetry
INVARIANTS
  
  InflightBounded
PROPERTIES
  BackpressureRespected
CHECK_DEADLOCK FALSE
