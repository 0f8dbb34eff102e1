SPECIFICATION SystemSpec
CONSTANTS
  t1 = t1  t2 = t2  p1 = p1  p2 = p2  s1 = s1  s2 = s2
  Tasks <- OneTask
  Workers <- OnePool
  Pools <- OnePool
  PoolOf <- OwnPool
  Schedulers <- TwoServers
  Priority <- MCPriority
  MaxRetries <- MCMaxRetries
  NoTask = NoTask
  NoEntry = NoEntry
  MaxSlow = 0
  MaxQueueSize = 0
  MaxCancels = 0
  MaxAborts = 0
  Retention = FALSE
  MaxCrashes = 0
  MaxExpiries = 1
  MaxSchedCrashes = 1
  MaxRaces = 1
INVARIANTS LostIsWaiting SchedulerExclusion
PROPERTIES ServicePromise
