CONSTANTS
  s1 = s1
  s2 = s2
  a = a
  b = b
  Jobs = {1, 2, 3}
  Sessions = {s1, s2}
  SessionOf <- MCSessionOf
  RuntimeOf <- MCRuntimeOf
  Concurrency = 1
  Gated = {2}
  Environments <- MCEnvironments
SPECIFICATION FairSpec
CHECK_DEADLOCK FALSE
INVARIANTS DrainInv WakeupsKept
PROPERTIES QueuedIsTaken CloseEnds
