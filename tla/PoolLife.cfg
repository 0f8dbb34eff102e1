SPECIFICATION FairPoolSpec
CONSTANTS
  w1 = w1  w2 = w2  r1 = r1  a1 = a1
  Workers <- OneWorker
  Readers <- OneReader
  Admins <- OneAdmin
  MaxLate = 1
  MaxPauses = 1
  MaxMissed = 0
INVARIANTS PoolInv GracefulMeansDone OneMoreTask NoGhostWorker
PROPERTIES StopReturns StaysListed KeepsDequeuing
CHECK_DEADLOCK FALSE
