SPECIFICATION FairSpec
CONSTANTS
  t1 = t1
  Starter = Starter
  MaxFeed = 2
  MaxKept = 1
  Tasks <- OneTask
INVARIANTS
  OneRequestPerFeed
PROPERTIES
  HandedOver
CHECK_DEADLOCK FALSE
