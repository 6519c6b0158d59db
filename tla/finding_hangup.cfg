\* One client, peers that hang up: the handlers that come later.
SPECIFICATION FairRoundsSpec
CONSTANTS
  Clients = {c1}
  Callers = {p1, p2}
  NoCall = NoCall
  Gone = Gone
  NoLimit = NoLimit
  Limits = {NoLimit}
  MayRecreate = TRUE
  Faults <- HangupFaults
  ChannelCap = 1
  Malformed = {}
  MaxEvents = 1
PROPERTIES
  HandlersReturn
CHECK_DEADLOCK FALSE
