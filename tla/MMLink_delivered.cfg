SPECIFICATION LinkSpec
CONSTANTS
    Tables = {t1, t2, rep}
    Terminals = {a}
    None = None
    MonitorCarrier = TRUE
    MaxChunks = 2
    MaxPackets = 4
    Replies = {rep}
    MaxFaults = 5
INVARIANTS
    SuccessMeansDelivered
