CONSTANTS
    SimpleCells = {"s"}
    Elements = {"e"}
    Infinity = 9
    GcGrace = 0
    Ttl = 2
    MinThreshold = 2
    MaxWrites = 3
    MaxClock = 3
    MaxSSTables = 3
    Backdated = FALSE
    PurgeFaults = FALSE
SPECIFICATION Spec
INVARIANTS TypeOK NoResurrection
CHECK_DEADLOCK FALSE
