SPECIFICATION DirectorySpec
CONSTANTS
    t1 = t1 t2 = t2 t3 = t3 one = one two = two k1 = k1 k2 = k2 k3 = k3 a = a b = b
    Sources = {a, b}
    Users = {t1, t2, t3}
    Process <- MCProcess
    LawOf <- MCLawOf
    Keys <- MCKeys
    Size <- MCSize
    MaxLooks = 4
    MaxRuns = 3
    MaxDamages = 1
    MaxAlterations = 2
INVARIANT ServedIsOwn
 
CHECK_DEADLOCK FALSE
