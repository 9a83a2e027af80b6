CONSTANTS
  a = a
  b = b
  plain = plain
  probe = probe
  nested = nested
  loose = loose
  inner = inner
  NoCall = NoCall
  Calls <- MCCalls
  Keys = {1, 2, 3}
  List <- MCList
  Parent <- MCParent
  Detached = {loose}
  Probes = {probe, inner}
SPECIFICATION FairSpec
CHECK_DEADLOCK FALSE
INVARIANTS QueueInv
PROPERTIES ImplementsLease StartsUnderLease EveryCallReturns
