SPECIFICATION FairReceiveSpec
CONSTANTS
    Tables = {t1}
    Terminals = {a, b}
    None = None
    MonitorCarrier = TRUE
    MaxChunks = 2
    MaxPackets = 5
    PKT_TIMEOUT_MAX = 1
INVARIANTS
    TypeOK
    TxSeqNumbersPackets
    SendStatusHonest
    RepliesAddressCaller
    SilentWhenDown
PROPERTY
    CallsReturn
