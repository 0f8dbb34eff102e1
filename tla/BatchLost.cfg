SPECIFICATION StreamSpec
CONSTANTS
  c1 = c1
  Clients <- OneClient
  MaxEvents = 2
  EventCap = 1
  BroadcastCap = 1
  SendCap = 1
  ClientCap = 1
INVARIANTS MessagesAreDecoded
CHECK_DEADLOCK FALSE
