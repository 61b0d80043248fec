\* Rings of three slots: two requests fit, and head and tail wrap at different times.
\* The system may stop: after a receive error the workers only yield.
SPECIFICATION FairSpec
CONSTANTS
  RING_BUFFER_SIZE = 3
  Rpcs = {r1, r2}
  None = None
CHECK_DEADLOCK FALSE
INVARIANTS TypeOK SlotsMatch
PROPERTIES ImplementsQueues AcceptedIsTaken
