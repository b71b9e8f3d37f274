SPECIFICATION FairSpec
CONSTANTS
  a1 = a1
  a2 = a2
  a3 = a3
  w1 = w1
  w2 = w2
  None = None
  Articles <- ThreeArticles
  Workers <- TwoWorkers
PROPERTIES
  HandlerReturns
INVARIANTS
  OncePerArticle
  AllTried
  NoneCutShort
CHECK_DEADLOCK FALSE
