SPECIFICATION Spec
CONSTANTS
  a = a
  b = b
  NoPod = none
  Pods = {a, b}
  Committers = {a}
  MaxEvents = 3
  Oversize = {1}
  Trace = {2}
  RingMax = 1
  OutboxMax = 2
  ParkedMax = 1
  Reorders = FALSE
  Faults = {"leave","pause","evict","listen","publish","emit","save","fetch","evictReceive"}
  MaxFaults = 2
  OpeningFaults = 2
  QueueMax = 2
INVARIANTS ReplayInv StreamInv InSync
CHECK_DEADLOCK FALSE
