\* Four threads: one that unlocks, one that waits behind it, and two usurpers,
\* so that usurpers form a queue of their own.
CONSTANTS
  Threads = {t1, t2, t3, t4}
  NULL = NULL
  MaxCalls = 2
\* Nobody asks for the lock more than MaxCalls times; EveryoneServed says that
\* nobody stops before.
SPECIFICATION FairSpec
INVARIANTS
  MutualExclusion
  NodesInUse
PROPERTY
  EveryoneServed
CHECK_DEADLOCK FALSE
