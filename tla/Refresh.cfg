CONSTANTS
    Gens = {1, 2, 3}
    Tasks = {101, 102}
SPECIFICATION Spec
INVARIANTS TypeOK RefreshShows
PROPERTIES NeverForgets  RefreshReturns
