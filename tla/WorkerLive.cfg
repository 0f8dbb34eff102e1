SPECIFICATION FairSpec
CONSTANTS
  t1 = t1  t2 = t2  p1 = p1  p2 = p2
  Tasks <- MCTasks
  Workers <- MCOnePool
  Pools <- MCOnePool
  PoolOf <- MCOnePoolOf
  Priority <- PriorityMixed
  MaxRetries <- RetriesMixed
  NoTask = NoTask
  NoEntry = NoEntry
  MaxSlow = 0
  MaxQueueSize = 0
  MaxCancels = 1
  MaxAborts = 0
  Retention = FALSE
  MaxCrashes = 1
PROPERTIES EventuallySettled QueuesDrain
CHECK_DEADLOCK FALSE
