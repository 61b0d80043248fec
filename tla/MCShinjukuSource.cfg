\* The source as it is, two workers served, and a queue that overflows.
SPECIFICATION ServedSpec
CONSTANTS
  NumCpus = 6
  Contexts = {k1, k2}
  Packets = {p1, p2}
  Spins <- OneSpin
  QueueSize = 1
  MaxBatch = 2
  RecordsContext = FALSE
  MaxExpiries = 2
  None = None
INVARIANTS OneOwner RunsItsRequest
PROPERTY CallSlotFreed
