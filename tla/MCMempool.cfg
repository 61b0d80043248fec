\* Two pools (two cores) on one datastore of three chunks of two elements and an
\* element that fills no chunk; the pages hold whatever was there before, so that any
\* chunk may end in a wild pointer.
SPECIFICATION Spec
CONSTANTS
  Pools = {p1, p2}
  NrElems = 7
  ChunkSize = 2
  ZeroedPages = FALSE
  MaxDrift = 4
SYMMETRY Symmetry
INVARIANTS TypeOK NumFreeBound NoAlias NoLeak FreeChunksExact
PROPERTY ImplementsAllocator
CHECK_DEADLOCK FALSE
