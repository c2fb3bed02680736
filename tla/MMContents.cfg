SPECIFICATION Spec
CONSTANTS
    None = None
    GAP = GAP
    Setups <- MCSetups
    FileSizes <- MCFileSizes
    Noises <- MCNoises
INVARIANTS
    TypeOK
    IntactIsSent
    UndamagedArrives
    TranscriptAgrees
    TablesInOrder
    AcksOnce
    ReplyToCaller
    ChunksRebuild
    RatedAsDialed
    RequiredSent
    FormsMatch
    NumbersKept
    CallsTwiceDaily
CHECK_DEADLOCK FALSE
