CONSTANTS
  w1 = w1
  w2 = w2
  j1 = j1
  j2 = j2
  j3 = j3
  r1 = r1
  Workers = {w1, w2}
  Mortal = {w2}
  Jobs = {j1, j2}
  Runtimes = {r1}
  RuntimeOf <- MCRuntimeOf
  QueueTimed = {j1}
  ExecTimed = {}
  Settling = {}
  NoWorker = NoWorker
  Turn = Turn
  NoHolder = NoHolder
  NoJob = NoJob
  Clock = {0}
  QueueLimit = 2
  Keep = 2
  MaxRev = 2
  MaxChanges = 0
  LockLoss = TRUE
SPECIFICATION LiveSpec
PROPERTIES EveryJobSettles LocksAreReturned
INVARIANTS OutcomeMatchesCommit
