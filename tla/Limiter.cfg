SPECIFICATION LimitSpec
CONSTANTS
  c1 = c1  q1 = q1  q2 = q2
  Clients <- OneClient
  Requests <- TwoRequests
  NoClient = NoClient
  Rps = 2
  Ticks = 3
  MaxTime = 7
  MaxCleanups = 1
  MaxLimiters = 2
SYMMETRY MCSymmetry
INVARIANTS LimitInv OneBucket WindowBound NoFalseRefusal
CHECK_DEADLOCK FALSE
