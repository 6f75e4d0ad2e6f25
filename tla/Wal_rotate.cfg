SPECIFICATION Spec
CONSTANTS
  m1 = m1
  m2 = m2
  big = big
  Mutation <- MCMutation
  Oversized <- MCOversized
  NoMutation = NoMutation
  Faults = {"append"}
  MaxLen = 2
  MaxRot = 0
  MaxRotate = 1
  MaxClock = 1
SYMMETRY MCSymmetry
INVARIANTS EvidenceKept ArchivedKept
CHECK_DEADLOCK FALSE
