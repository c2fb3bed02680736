SPECIFICATION FairShutdownSpec
CONSTANTS
    Terminals = {a, b}
    CDRs = {1}
    None = None
    AckRoom = 2
    TableCount = 2
INVARIANTS
    TypeOK
    SavedBeforeAcked
    UploadAcksWait
PROPERTY
    ShutdownUnlessAwaiting
CHECK_DEADLOCK FALSE
