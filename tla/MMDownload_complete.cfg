SPECIFICATION Spec
CONSTANTS
    coin = coin
    multi = multi
    coinPhone = coinPhone
    multiPhone = multiPhone
    cardTable = cardTable
    Terminals = {multiPhone}
    Models = {multi}
    Default = default
    Tables = {cardTable}
    EndData = EndData
    None = None
    ModelOf <- MCModelOf
    NoModel = multi
    TableList <- MCTableList
    NotFor <- MCNotFor
    Complete = FALSE
    Files <- MCFiles
    MaxTime = 2
INVARIANT
    CompleteIsDelivered
CHECK_DEADLOCK FALSE
