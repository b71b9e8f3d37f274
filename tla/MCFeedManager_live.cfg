SPECIFICATION FairSpec
CONSTANTS
  u1 = u1
  u2 = u2
  x = x
  y = y
  r1 = r1
  r2 = r2
  None = None
  Users <- TwoUsers
  Links <- TwoLinks
  Reqs <- OneReq
  Clients <- ApiOnly
  Driver = "postgres"
  Discovered <- YLeadsToX
  MaxID = 2
  MaxRestarts = 1
PROPERTIES
  SubscribedIsPolled
CHECK_DEADLOCK FALSE
