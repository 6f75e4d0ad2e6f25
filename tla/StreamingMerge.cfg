CONSTANTS
    SimpleCells = {"s"}
    Elements = {}
    Infinity = 9
    Partitions = {1, 2}
    Clusters = {1, 2, 3}
    Merges <- const_Timely
    MaxFailures = 1
SPECIFICATION Spec
INVARIANTS TypeOK MergedView RowsInOrder
PROPERTY Completes
