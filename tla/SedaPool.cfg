SPECIFICATION Spec
CONSTANTS
  Workers = {w1, w2}
  Clients = {c1}
  Admin = admin
  Stages = {s1, s2}
  KillThreads = killThreads
  Events = {e1, e2}
  KillEvent = kill
  NoEvent = noEvent
  SpuriousThreadCond = TRUE
SYMMETRY Symmetry
INVARIANTS TypeOK AssertionsHold RefCountsOutstanding DetachedIsQuiescent NoStrandedWork PoolDestroyedEmpty
CHECK_DEADLOCK FALSE
