CONSTANTS
  w1 = w1
  w2 = w2
  j1 = j1
  j2 = j2
  j3 = j3
  r1 = r1
  Workers = {w1}
  Mortal = {}
  Jobs = {j1, j2, j3}
  Runtimes = {r1}
  RuntimeOf <- MCRuntimeOf
  QueueTimed = {}
  ExecTimed = {}
  Settling = {r1}
  NoWorker = NoWorker
  Turn = Turn
  NoHolder = NoHolder
  NoJob = NoJob
  Clock = {0}
  QueueLimit = 3
  Keep = 1
  MaxRev = 2
  MaxChanges = 0
  LockLoss = FALSE
SPECIFICATION Spec
SYMMETRY JobSymmetry
PROPERTIES SettlingCommitsInSourceOrder
