CONSTANTS
  w1 = w1
  w2 = w2
  j1 = j1
  j2 = j2
  j3 = j3
  r1 = r1
  Workers = {w1, w2}
  Mortal = {w1, w2}
  Jobs = {j1}
  Runtimes = {r1}
  RuntimeOf <- MCRuntimeOf
  QueueTimed = {j1}
  ExecTimed = {j1}
  Settling = {}
  NoWorker = NoWorker
  Turn = Turn
  NoHolder = NoHolder
  NoJob = NoJob
  Clock = {0}
  QueueLimit = 2
  Keep = 1
  MaxRev = 3
  MaxChanges = 1
  LockLoss = FALSE
SPECIFICATION Spec
SYMMETRY WorkerSymmetry
CHECK_DEADLOCK FALSE
INVARIANTS TypeOK OutcomeMatchesCommit CommitterKeepsRow StaleOnlyAfterChange
PROPERTIES TerminalIsFinal  CommitIsAuthorised
