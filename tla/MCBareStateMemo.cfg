SPECIFICATION Spec
CONSTANTS
    t1 = t1
    t2 = t2
    k1 = k1
    k2 = k2
    k3 = k3
    Threads = {t1, t2}
    Keys = {k1, k2, k3}
    Rejects = {k3}
    NoKey = NoKey
    Thrown = Thrown
    EntryBytes <- MCEntryBytes
    Modes = {"off", "on", "verify"}
    EnvCaps <- MCEnvCaps
    CapChoices <- MCCapChoices
    EntryCaps <- MCEntryCaps
    MaxCalls = 4
    MaxSets = 1
    MaxFails = 1
CHECK_DEADLOCK FALSE
INVARIANTS
    IndexIsLive
    CapsHold
    InOrderOfUse
PROPERTIES
    ImplementsPure
