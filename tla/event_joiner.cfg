\* The service and its batcher, with a store that works.
SPECIFICATION FairJoinerSpec
CONSTANTS
  Clients = {c1}
  Callers = {p1, p2}
  NoCall = NoCall
  Gone = Gone
  NoLimit = NoLimit
  Limits = {1, NoLimit}
  MayRecreate = TRUE
  Faults <- WorkingStore
  ChannelCap = 2
  Malformed = {2}
  MaxEvents = 4
  ClientId = c1
  Service = p1
  RunFaults <- AnyRunFault
INVARIANTS
  JoinerTypeOK
  PointsNeverGoBack
  FeedOrder
  SleepsWithNothingUnsaved
PROPERTIES
  EndToEndLosses
  RunsEnd
  StreamComesBack
