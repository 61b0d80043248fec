\* The source as it is.
SPECIFICATION Spec
CONSTANTS
  NumCpus = 5
  Contexts = {k1}
  Packets = {p1}
  Spins <- OneSpin
  QueueSize = 2
  MaxBatch = 2
  RecordsContext = FALSE
  MaxExpiries = 0
  None = None
INVARIANT SavesRegisters
