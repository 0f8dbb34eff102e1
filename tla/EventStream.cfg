SPECIFICATION FairStreamSpec
CONSTANTS
  c1 = c1
  Clients <- OneClient
  MaxEvents = 2
  EventCap = 1
  BroadcastCap = 1
  SendCap = 1
  ClientCap = 1
INVARIANTS HubInv ClosedOnce NoSilentGap CompleteView ClientInv FreshView EveryEventAccounted
PROPERTIES MissedIsTold PumpsEnd StopReturns CloseEnds
CHECK_DEADLOCK FALSE
