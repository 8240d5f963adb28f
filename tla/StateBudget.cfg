SPECIFICATION Spec
CONSTANTS
    Threads = {t1, t2}
    Objects = {o1, o2}
    Slots = {1, 2}
    Sizes = {1, 2}
    Budget = 2
    MaxDepth = 1
SYMMETRY Interchangeable
CHECK_DEADLOCK FALSE
INVARIANTS
    LiveIsExact
    StorageWithinBudget
PROPERTIES
    ReleasesAtRest
