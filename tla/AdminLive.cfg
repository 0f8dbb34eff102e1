SPECIFICATION FairAdminSpec
CONSTANTS
  t1 = t1  p1 = p1  s1 = s1  o1 = o1
  Tasks <- OneTask
  Workers <- OnePool
  Pools <- OnePool
  PoolOf <- OwnPool
  Schedulers <- OneServer
  Operators <- OneOperator
  Requests <- AllRequests
  MaxRequests = 1
  MaxRefusals = 1
  Priority <- MCPriority
  MaxRetries <- MCMaxRetries
  NoTask = NoTask
  NoEntry = NoEntry
  MaxSlow = 0
  MaxQueueSize = 0
  MaxCancels = 0
  MaxAborts = 1
  Retention = TRUE
  MaxCrashes = 1
  MaxExpiries = 0
  MaxSchedCrashes = 0
  MaxRaces = 0
INVARIANTS AdminTypeInv RetryKeepsTask FailedIsListed
PROPERTIES EverythingSettles
CHECK_DEADLOCK FALSE
