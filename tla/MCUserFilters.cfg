SPECIFICATION Spec
CONSTANTS
  f1 = f1
  f2 = f2
  t1 = t1
  r1 = r1
  r2 = r2
  Feeds <- TwoFeeds
  Tags <- OneTag
  Requests <- TwoRequests
  MaxEvents = 1
SYMMETRY Symmetry
INVARIANTS
  NoTagsWithoutUser
  FiltersFollowTags
CHECK_DEADLOCK FALSE
