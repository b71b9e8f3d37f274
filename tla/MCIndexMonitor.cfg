SPECIFICATION Spec
CONSTANTS
  f1 = f1
  f2 = f2
  j1 = j1
  j2 = j2
  None = None
  Manager = Manager
  Feeds <- TwoFeeds
  Jobs <- TwoJobs
  MaxArticle = 4
  MaxNew = 3
  BatchSize = 2
SYMMETRY Symmetry
INVARIANTS
  NothingMissing
  NoOrphan
PROPERTIES
  RemovedOnlyWhenDeleted
CHECK_DEADLOCK FALSE
