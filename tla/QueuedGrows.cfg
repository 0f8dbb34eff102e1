SPECIFICATION StatsSpec
CONSTANTS
  t1 = t1  t2 = t2  p1 = p1
  Tasks <- TwoTasks
  Workers <- OnePool
  Pools <- OnePool
  PoolOf <- OwnPool
  Priority <- TwoStreams
  MaxRetries <- MCMaxRetries
  NoTask = NoTask
  NoEntry = NoEntry
  MaxSlow = 0
  MaxQueueSize = 0
  MaxCancels = 0
  MaxAborts = 0
  Retention = FALSE
  MaxCrashes = 0
PROPERTIES QueuedIsBacklog
CHECK_DEADLOCK FALSE
