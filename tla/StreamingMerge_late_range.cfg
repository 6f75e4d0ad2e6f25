CONSTANTS
    SimpleCells = {"s"}
    Elements = {}
    Infinity = 9
    Partitions = {1, 2}
    Clusters = {1, 2, 3}
    Merges <- const_Late
    MaxFailures = 0
SPECIFICATION Spec
INVARIANT MergedView
