CONSTANTS
    Merges = {"m1", "m2"}
    Runs = {1, 2}
    Owner <- const_TwoMerges
    Rows <- const_Rows
    Budget = 2
    MinCap = 1
    MaxCap = 2
    BufferRows = 1
SPECIFICATION Spec
INVARIANT CountersSettle
PROPERTY SoloUnthrottled
