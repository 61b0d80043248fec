\* lat has as many places as the two threads have latencies when each only sends
\* its Exit, and too few when each has MAX_REQ_PER_THREAD requests before it.
SPECIFICATION FairSpec
CONSTANTS
  Clients = {c1, c2}
  ReqNums = {0, 1}
  NUM_SERVERS = 2
  MAX_REQ_PER_THREAD = 1
  Keys = {k1, k2}
  Buckets = {b1}
  hash <- OneBucket
  None = None
INVARIANTS EntryWhole TableOutlivesThreads LatExact
PROPERTIES ClientTerminates ServerDrains
