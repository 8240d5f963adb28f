SPECIFICATION Spec
CONSTANTS
    c1 = c1
    c2 = c2
    Contents = {c1, c2}
    TableBytes <- MCTableBytes
    HeaderBytes = 1
    RootCap = 2
    Budgets = {0, 2, 3}
    Sizes = {0, 1, 2}
    MaxPayloads = 2
    MaxBytes = 4
    MaxContents = 1
    MaxShots = 3
INVARIANTS
    SkipIsExact
PROPERTIES
    ReaderInsertFits
    ImplementsQuota
