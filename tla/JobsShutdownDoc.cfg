CONSTANTS
  w1 = w1
  w2 = w2
  j1 = j1
  j2 = j2
  j3 = j3
  r1 = r1
  Workers = {w1}
  Mortal = {w1}
  Jobs = {j1}
  Runtimes = {r1}
  RuntimeOf <- MCRuntimeOf
  QueueTimed = {}
  ExecTimed = {}
  Settling = {}
  NoWorker = NoWorker
  Turn = Turn
  NoHolder = NoHolder
  NoJob = NoJob
  Clock = {0}
  QueueLimit = 2
  Keep = 1
  MaxRev = 2
  MaxChanges = 0
  LockLoss = FALSE
SPECIFICATION Spec
CHECK_DEADLOCK FALSE
PROPERTIES CommittingIsNotRequeued
