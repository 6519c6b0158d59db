\* The tasks of a client whose batcher is replaced on and on.
SPECIFICATION FairSpec
CONSTANTS
  Tasks = {t1, t2, t3}
  NoTask = NoTask
  ChannelCap = 2
  MaxEvents = 4
  Faults <- Breaks
PROPERTIES
  ImplementsSource
  OrphansEnd
