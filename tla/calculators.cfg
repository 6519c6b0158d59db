\* Two calculators whose calls may fail.
SPECIFICATION FairSpec
CONSTANTS
  h1 = h1
  h2 = h2
  x1 = x1
  x2 = x2
  Holders = {h1, h2}
  ClaimContexts = {x1, x2}
  TOTAL_EVENTS = 2
  Workers = {w1, w2}
  Joiners = {}
  Readings <- FindsNothing
  Failures <- CallFailures
  Feeds <- MixedFeeds
INVARIANTS
  TypeOK
  CacheIsCurrent
  OneDocumentPerWorker
PROPERTIES
  UpToDate
  ReachesTheEnd
CHECK_DEADLOCK FALSE
