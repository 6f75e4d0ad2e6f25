SPECIFICATION Spec
CONSTANTS
  m1 = m1
  m2 = m2
  big = big
  Mutation <- MCMutation
  Oversized <- MCOversized
  NoMutation = NoMutation
  Faults = {"flush", "fsync", "setlen", "seek", "copy"}
  MaxLen = 2
  MaxRot = 1
  MaxRotate = 0
  MaxClock = 0
SYMMETRY MCSymmetry
INVARIANTS TypeOK AckedRecoverable EvidenceKept
PROPERTY LossReported
CHECK_DEADLOCK FALSE
