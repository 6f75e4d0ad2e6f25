SPECIFICATION Spec
CONSTANTS
  m1 = m1
  m2 = m2
  bad = bad
  Mutation <- MCKeyable
  Unkeyable = {}
  SyncEachWrite = TRUE
  MinThreshold = 2
  HardLimit = 2
  Faults = {"flush_dirsync"}
  MaxGen = 3
  MaxKills = 0
  MaxPowerLosses = 0
INVARIANT NoAckedLoss
CHECK_DEADLOCK FALSE
