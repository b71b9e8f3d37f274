SPECIFICATION Spec
CONSTANTS
  Nobody = Nobody
  NoWord = NoWord
  Upper <- MCUpper
  LinkWords <- MCLinkWords
  Many = 20
  FiveDaysAgo = 1
  DayAgo = 4
  QuarterAgo = 6
  Now = 8
  ArticlesLimit = 2
  Users = {"u1", "u2"}
  Feeds = {1, 2}
  Tags = {5}
  Docs <- MCDocs
  Profiles <- MCProfiles
  Rows <- MCRows
  Stale <- MCStale
  Subscribed <- MCSubscribed
  Labelled <- MCLabelled
  Asks <- MCAsks
  MaxPolls = 2
  MaxAsked = 1
  MaxEdits = 1
  MaxFailures = 1
INVARIANTS
  ListsAgree
  CategoriesAddUp
  PagesComplete
PROPERTIES
  MarksAreAsked
  MonitorMarksOnce
  EventuallyMarked
CHECK_DEADLOCK FALSE
