CONSTANTS
    Merges = {"m1"}
    Runs = {1, 2}
    Owner <- const_OneMerge
    Rows <- const_Rows
    Budget = 1
    MinCap = 1
    MaxCap = 2
    BufferRows = 2
SPECIFICATION Spec
INVARIANTS TypeOK CompleteIsWhole
PROPERTIES TeardownEnds CallReturns
