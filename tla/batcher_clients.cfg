\* Two clients that fetch the same feed events, share the store and keep asking.
SPECIFICATION FairRoundsSpec
CONSTANTS
  Clients = {c1, c2}
  Callers = {p1, p2}
  NoCall = NoCall
  Gone = Gone
  NoLimit = NoLimit
  Limits = {NoLimit}
  MayRecreate = FALSE
  Faults <- AnsweredFaults
  ChannelCap = 1
  Malformed = {}
  MaxEvents = 2
INVARIANTS
  AtMostOnce
PROPERTIES
  OnlyNamedLosses
  HandlersReturn
  PolledEventsArrive
