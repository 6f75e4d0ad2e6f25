SPECIFICATION Spec
CONSTANTS
  m1 = m1
  m2 = m2
  bad = bad
  Mutation <- MCMutation
  Unkeyable <- MCUnkeyable
  SyncEachWrite = TRUE
  MinThreshold = 2
  HardLimit = 2
  Faults = {"walsync", "write", "merge_dirsync", "truncate_before", "truncate_sync", "truncate_seek", "rename", "delete", "toc_delete", "sweep"}
  MaxGen = 3
  MaxKills = 1
  MaxPowerLosses = 1
SYMMETRY MCSymmetry
INVARIANTS TypeOK NoAckedLoss OperationGoesOn
PROPERTIES ImplementsStore PublishedImmutable
CHECK_DEADLOCK FALSE
