SPECIFICATION FairSpec
CONSTANTS
  s1 = s1
  s2 = s2
  None = None
  Addr <- OwnAddr
  Entitled <- SomeEvents
  Sockets <- TwoSockets
  Cap = 1
  MaxEvents = 1
PROPERTIES
  Delivered
  HandlersReturn
INVARIANTS
  NoDeadConn
  WrittenOnce
CHECK_DEADLOCK FALSE
