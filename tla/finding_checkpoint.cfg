\* One client, no failure: what happens to the rows when /batch is posted again.
SPECIFICATION HistorySpec
CONSTANTS
  Clients = {c1}
  Callers = {p1}
  NoCall = NoCall
  Gone = Gone
  NoLimit = NoLimit
  Limits = {NoLimit}
  MayRecreate = TRUE
  Faults <- NoFaults
  ChannelCap = 2
  Malformed = {}
  MaxEvents = 2
INVARIANTS
  CheckpointsSurvive
CHECK_DEADLOCK FALSE
