\* Three calls over three models and two places: eviction, sharing, queueing,
\* failed loads and their late waiters all occur.
SPECIFICATION FairSpec
CONSTANTS
  Clients = {c1, c2, c3}
  Resources = {r1, r2, r3}
  ConcurrentLimit = 2
  None = None
INVARIANTS
  InUseInMemory
  MemoryBound
  NoLostWakeup
PROPERTIES
  ImplementsPool
  LoadAnswered
