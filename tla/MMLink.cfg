SPECIFICATION LinkSpec
CONSTANTS
    Tables = {t1, t2, rep}
    Terminals = {a}
    None = None
    MonitorCarrier = TRUE
    MaxChunks = 2
    MaxPackets = 5
    Replies = {rep}
    MaxFaults = 4
INVARIANTS
    LinkTypeOK
PROPERTY
    ImplementsTransfer
