\* One client, every failure, two requests at a time.
SPECIFICATION RoundsSpec
CONSTANTS
  Clients = {c1}
  Callers = {p1, p2}
  NoCall = NoCall
  Gone = Gone
  NoLimit = NoLimit
  Limits = {0, 1, NoLimit}
  MayRecreate = TRUE
  Faults <- AllFaults
  ChannelCap = 2
  Malformed = {2}
  MaxEvents = 4
SYMMETRY InterchangeableCallers
INVARIANTS
  TypeOK
  AtMostOnce
  NobodyWaitsTwoRounds
  DeadStreamsAreFlagged
  LiveClientsAreFound
PROPERTIES
  OnlyNamedLosses
  ImplementsDelivery
