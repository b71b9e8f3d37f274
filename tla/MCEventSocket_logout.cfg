SPECIFICATION Spec
CONSTANTS
  s1 = s1
  s2 = s2
  None = None
  Addr <- OwnAddr
  Entitled <- SomeEvents
  Sockets <- OneSocket
  Cap = 2
  MaxEvents = 2
INVARIANTS
  InvalidJustEnds
CHECK_DEADLOCK FALSE
