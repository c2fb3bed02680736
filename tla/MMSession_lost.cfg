SPECIFICATION Spec
CONSTANTS
    Terminals = {a, b}
    CDRs = {1, 2}
    None = None
    AckRoom = 2
    TableCount = 2
INVARIANT
    NoRecordLost
CHECK_DEADLOCK FALSE
