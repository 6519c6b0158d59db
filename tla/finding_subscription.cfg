\* One client, no failure: what is emitted right after the create.
SPECIFICATION HistorySpec
CONSTANTS
  Clients = {c1}
  Callers = {p1}
  NoCall = NoCall
  Gone = Gone
  NoLimit = NoLimit
  Limits = {NoLimit}
  MayRecreate = FALSE
  Faults <- NoFaults
  ChannelCap = 2
  Malformed = {}
  MaxEvents = 2
INVARIANTS
  AnsweredMeansSubscribed
CHECK_DEADLOCK FALSE
