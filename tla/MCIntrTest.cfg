\* Three IPIs: the first may come before the receiver is armed, the last may be
\* answered early, and one lies between.
SPECIFICATION FairSpec
CONSTANT NUM_ITERS = 3
INVARIANTS Lockstep
PROPERTIES SenderFinishes
