SPECIFICATION FairSpec
CONSTANTS
  c1 = c1
  c2 = c2
  l1 = l1
  l2 = l2
  Callers <- CallersTwo
  Listeners <- ListenersTwo
  Ops <- OpsOne
  Capacity = 1
  MaxWrites = 3
INVARIANTS
  ExactSuffix
  CallerOrder
PROPERTIES
  AtomicBroadcast
  DispatchReturns
  EventuallyReceived
CHECK_DEADLOCK FALSE
