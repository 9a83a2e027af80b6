CONSTANTS
  p = p
  q = q
  outer = outer
  nested = nested
  inner = inner
  peek = peek
  branch = branch
  check = check
  other = other
  probe = probe
  again = again
  NoCall = NoCall
  Keys = {1, 2}
  List <- MCList
  Parent <- MCParent
  When <- MCWhen
  PodOf <- MCPodOf
  Pods = {p, q}
  PoolSize = 1
  Calls = {outer, nested, inner, peek, branch, check, other, probe}
  Detached = {branch}
  Probes = {check, peek, probe}
SPECIFICATION FairSpec
CHECK_DEADLOCK FALSE
INVARIANTS LockInv Serialized
PROPERTIES EveryCallReturns
