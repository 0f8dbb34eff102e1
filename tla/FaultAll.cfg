SPECIFICATION FaultySpec
CONSTANTS
  t1 = t1  t2 = t2  p1 = p1  p2 = p2  s1 = s1  s2 = s2
  Tasks <- OneTask
  Workers <- OnePool
  Pools <- OnePool
  PoolOf <- OwnPool
  Schedulers <- OneServer
  Priority <- MCPriority
  MaxRetries <- MCMaxRetries
  NoTask = NoTask
  NoEntry = NoEntry
  MaxSlow = 0
  MaxQueueSize = 0
  MaxCancels = 0
  MaxAborts = 0
  Retention = FALSE
  MaxCrashes = 1
  MaxExpiries = 0
  MaxSchedCrashes = 0
  MaxRaces = 0
  Faults = {"get", "set", "xadd", "zadd", "zrem", "dlq", "ack"}
  MaxFaults = 1
INVARIANTS FaultyTypeInv  NoTaskVanishes LookupIsSound DeadLetterCommitted
