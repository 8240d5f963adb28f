SPECIFICATION ESpec
CONSTANTS
    Themes <- MCThemes
    Exports <- MCExports
    Modes = {"crossing", "all", "hoist"}
    Copies = {FALSE, TRUE}
    Dead = {FALSE, TRUE}
INVARIANTS
    ResidualExact
    RecordsExact
    EarlyRejectSound
    WalkExact
    BareExact
    CollapseExact
    BornExact
    ReferenceExact
    FaultExact
    ModelExact
    DeterminismExact
PROPERTIES
    CoherentExact
    RelabelExact
    DeferExact
    EliminateExact
CHECK_DEADLOCK FALSE
