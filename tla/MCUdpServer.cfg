\* Three threads and three datagrams.
SPECIFICATION FairSpec
CONSTANTS
  Threads = {t1, t2, t3}
  max_rpc = 3
  MAX_RPC = 3
INVARIANTS TypeOK OnePlace NoLostWakeup DrainedWhenDone
PROPERTIES QueuedIsHandled Terminates
