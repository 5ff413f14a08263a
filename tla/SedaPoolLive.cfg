SPECIFICATION FairSpec
CONSTANTS
  Workers = {w1, w2}
  Clients = {c1}
  Admin = admin
  Stages = {s1}
  KillThreads = killThreads
  Events = {e1, e2}
  KillEvent = kill
  NoEvent = noEvent
  SpuriousThreadCond = FALSE
PROPERTIES EventsAreServed CleanupCompletes
CHECK_DEADLOCK FALSE
