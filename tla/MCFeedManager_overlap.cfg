SPECIFICATION Spec
CONSTANTS
  u1 = u1
  u2 = u2
  x = x
  y = y
  r1 = r1
  r2 = r2
  None = None
  Users <- TwoUsers
  Links <- TwoLinks
  Reqs <- TwoReqs
  Clients <- BothClients
  Driver = "postgres"
  Discovered <- YLeadsToX
  MaxID = 2
  MaxRestarts = 0
SYMMETRY Symmetry
PROPERTIES
  LinkStable
  AttachedAsAsked
  SubscriptionStays
CHECK_DEADLOCK FALSE
