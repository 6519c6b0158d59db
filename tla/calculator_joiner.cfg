\* A calculator and runs of the event joiner, failures, crashes, every reading of the query.
SPECIFICATION Spec
CONSTANTS
  h1 = h1
  h2 = h2
  x1 = x1
  x2 = x2
  Holders = {h1, h2}
  ClaimContexts = {x1, x2}
  TOTAL_EVENTS = 2
  Workers = {w1, w2}
  Joiners = {w2}
  Readings <- AnyReading
  Failures <- ButMisses
  Feeds <- ShortFeeds
INVARIANTS
  ValuesAreEarned
  RacersMakeOneEach
PROPERTIES
  DocumentsKeepTheirKey
  FirstIsFinal
