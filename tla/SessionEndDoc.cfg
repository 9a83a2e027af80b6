CONSTANTS
  toEnd = toEnd
  toActive = toActive
  None = None
  Creates = {c1, c2}
  Patches = {toEnd, toActive}
  PatchTo <- MCPatchTo
  Deletes = {d1, d2}
  Runs = {job}
  MaxTrouble = 1
SPECIFICATION LifecycleSpec
CHECK_DEADLOCK FALSE
INVARIANTS SingleEndSignal
