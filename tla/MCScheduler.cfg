SPECIFICATION FairSpec
CONSTANTS
  a = a
  b = b
  c1 = c1
  c2 = c2
  None = None
  Feeds <- FeedsTwo
  Callers <- CallersTwo
  Contents <- Documents
  Kind <- KindOf
INVARIANTS
  NoPanic
  OneUpdaterPerFeed
  SerialStores
PROPERTIES
  PollsAsSpecified
  KeepsPolling
CHECK_DEADLOCK FALSE
