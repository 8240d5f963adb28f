SPECIFICATION Spec
CONSTANTS
    d1 = d1
    d2 = d2
    g1 = g1
    DiagKeys = {d1, d2}
    ArenaKeys = {g1}
    NoTable = NoTable
    TableBytes = 2
    CompactAt = 1
    Files <- MCFiles
    MaxNodes = 2
    MaxOps = 7
CHECK_DEADLOCK FALSE
INVARIANTS
    FifoListsResident
    TableMatchesKey
    BytesAccounted
