\* One worker is served (CPU 2 of 5), with preemptions and a queue as long as the
\* pool is large.  The dispatcher and its worker may end up waiting for each other.
SPECIFICATION Spec
CONSTANTS
  NumCpus = 5
  Contexts = {k1, k2}
  Packets = {p1, p2, p3}
  Spins <- OneSpin
  QueueSize = 2
  MaxBatch = 2
  RecordsContext = TRUE
  MaxExpiries = 2
  None = None
SYMMETRY Symmetry
INVARIANTS TypeOK IInv NoBug PacketKept NoContextLost PreemptionsPaid
CHECK_DEADLOCK FALSE
