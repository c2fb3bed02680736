SPECIFICATION FairSpec
CONSTANTS
    None = None
    Unknown = Unknown
    Failed = Failed
    e1 = e1
    t1 = t1
    t2 = t2
    Editions <- MCEditions
    Types <- MCTypes
    FirstFiles <- MCFiles
    AT_TRIES = 2
    RSP_TRIES = 2
    MaxLines = 2
    MaxSaid = 2
    MaxTorn = 1
    MaxStarts = 2
    MaxOptions = 2
    MaxEdits = 1
    Mixed = FALSE
INVARIANTS
    TypeOK
    InitMeansConfigured
    ConnectNoticed
    ClosedOnce
    EndsClosed
PROPERTIES
    InterruptStops
    TypesKept
CHECK_DEADLOCK FALSE
