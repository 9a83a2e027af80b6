CONSTANTS
  toEnd = toEnd
  toActive = toActive
  s1 = s1
  s2 = s2
  p = p
  q = q
  None = None
  Creates = {c1, c2}
  Patches = {toEnd, toActive}
  PatchTo <- MCPatchTo
  Deletes = {d1, d2}
  Runs = {job}
  MaxTrouble = 1
  Actions = {x, y}
  Submits = {y}
  Openers = {x}
  Messages = {m1, m2}
  NoAction = NoAction
  MaxRounds = 2
  Workers = {u}
  Sweepers = {u}
  NoWorker = NoWorker
  Overlap = 2
  AppendTime = 1
  MaxSkew = 1
  MaxTime = 2
  MaxFaults = 1
  Plans <- MCPlans
  LogicalTurns = {1}
  NoTurn = 0
  MaxExecutions = 2
  Executions = {e1}
  NoExecution = NoExecution
  SettlingJobs = {s1, s2}
  MaxWait <- MCMaxWait
  Infinity = 9
  EndOfTime = 3
  Keys <- MCKeys
  Payloads = {1, 2}
  GrantTTL = 1
  StaleTTL = 1
  PerSession = 1
  Global = 2
  MaxAsks = 2
  LastTime = 2
SPECIFICATION MCSpec
CHECK_DEADLOCK FALSE
INVARIANTS LifecycleInv TurnControlInv ProjectionInv  StandsOnLanded BarrierInv
PROPERTIES OwnIncarnationOnly EndsOnce  NewInputEndsRounds NoRowAfterJob AllowedByPlayer
