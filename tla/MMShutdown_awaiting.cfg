SPECIFICATION FairShutdownSpec
CONSTANTS
    Terminals = {a}
    CDRs = {1}
    None = None
    AckRoom = 1
    TableCount = 2
PROPERTY
    ShutdownHappens
CHECK_DEADLOCK FALSE
