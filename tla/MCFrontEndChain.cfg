SPECIFICATION ESpec
CONSTANTS
    Themes <- MCChain
    Exports <- MCExports
    Modes = {"crossing"}
    Copies = {FALSE}
    Dead = {FALSE}
INVARIANTS
    RelabelNeverRefused
CHECK_DEADLOCK FALSE
