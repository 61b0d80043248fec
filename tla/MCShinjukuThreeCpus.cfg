\* The source as it is, on the fewest CPUs that do_dispatching accepts.
SPECIFICATION FairSpec
CONSTANTS
  NumCpus = 3
  Contexts = {k1}
  Packets = {p1}
  Spins <- OneSpin
  QueueSize = 2
  MaxBatch = 2
  RecordsContext = FALSE
  MaxExpiries = 0
  None = None
PROPERTY QueuedIsTaken
