SPECIFICATION Spec
CONSTANTS
    p1 = p1
    p2 = p2
    x1 = x1
    x2 = x2
    Plans = {p1, p2}
    NoPlan = NoPlan
    Cut = Cut
    Axes = {x1, x2}
    Signs = {0, 1}
    Lam <- MCLam
    MemoCap = 1
    MaxWalks = 4
    MaxFails = 1
INVARIANTS
    TypeOK
    NodesTellTheLaw
PROPERTIES
    DrawsByTheChainRule
CHECK_DEADLOCK FALSE
