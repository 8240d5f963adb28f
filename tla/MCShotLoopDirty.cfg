SPECIFICATION Spec
CONSTANTS
    s1 = s1
    s2 = s2
    Seeds = {s1, s2}
    NChannels = 3
    Draws = 5
    Fires <- MCFires
    Term = {3}
    EarlyBad <- MCEarlyBad
    Bad <- MCBad
    BatchMax = 2
    SelfCheck = 1
    MaxShots = 5
    MaxAhead = 2
    CutPoints = {"fast"}
INVARIANTS
    RowsArePure
