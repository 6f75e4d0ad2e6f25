SPECIFICATION Spec
CONSTANTS
  m1 = m1
  m2 = m2
  bad = bad
  Mutation <- MCMutation
  Unkeyable <- MCUnkeyable
  SyncEachWrite = TRUE
  MinThreshold = 9
  HardLimit = 2
  Faults = {"walsync", "write", "flush_dirsync", "truncate_before", "sweep"}
  MaxGen = 3
  MaxKills = 1
  MaxPowerLosses = 1
SYMMETRY MCSymmetry
INVARIANT NoAckedLoss
PROPERTY ImplementsStore
CHECK_DEADLOCK FALSE
