SPECIFICATION Spec
CONSTANTS
    t1 = t1 t2 = t2 ideal = ideal p = p q = q s = s r = r
    plain = plain rowsE = rowsE none = none nobody = nobody
    Threads = {t1, t2}
    Handles = {p, q, s, r}
    Ideal = ideal
    Emin <- MCEmin
    NoRows = plain
    Bad = {q}
    Bytes <- MCBytes
    Budgets = {2}
    Unbounded = 9
    Mixed = FALSE
    Asks <- MCAsks
    MaxCalls = 5
    NoCall = none
    NoThread = nobody
INVARIANT NothingLeftBehind
PROPERTIES PayloadsWithinBudget Implements
CHECK_DEADLOCK FALSE
