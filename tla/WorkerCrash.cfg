SPECIFICATION Spec
CONSTANTS
  t1 = t1  t2 = t2  p1 = p1  p2 = p2
  Tasks <- MCTasks
  Workers <- MCPools
  Pools <- MCPools
  PoolOf <- MCPoolOf
  Priority <- PriorityMixed
  MaxRetries <- RetriesMixed
  NoTask = NoTask
  NoEntry = NoEntry
  MaxSlow = 0
  MaxQueueSize = 0
  MaxCancels = 0
  MaxAborts = 0
  Retention = TRUE
  MaxCrashes = 1
SYMMETRY MCSymmetry
INVARIANTS TypeInv NoLostTask FailedReachesDLQ
PROPERTIES QueuePromise
CHECK_DEADLOCK FALSE
