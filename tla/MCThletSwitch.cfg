SPECIFICATION FairSpec
CONSTANTS
  Threads = {t1, t2, t3}
  THLET_SWITCH_ITER = 2
  None = None
INVARIANTS PrintedComplete QuietAtFinish ComputationsDisjoint
PROPERTY Terminates
