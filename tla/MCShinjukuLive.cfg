\* One served worker, two preemptions at most: enough for dispatcher and worker
\* to wait for each other.
SPECIFICATION ServedSpec
CONSTANTS
  NumCpus = 5
  Contexts = {k1, k2}
  Packets = {p1, p2}
  Spins <- OneSpin
  QueueSize = 2
  MaxBatch = 2
  RecordsContext = TRUE
  MaxExpiries = 2
  None = None
PROPERTY HandedIsAnswered
CHECK_DEADLOCK FALSE
