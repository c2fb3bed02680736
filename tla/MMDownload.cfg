SPECIFICATION Spec
CONSTANTS
    coin = coin
    multi = multi
    coinPhone = coinPhone
    multiPhone = multiPhone
    cardTable = cardTable
    Terminals = {coinPhone, multiPhone}
    Models = {coin, multi}
    Default = default
    Tables = {cardTable}
    EndData = EndData
    None = None
    ModelOf <- MCModelOf
    NoModel = multi
    TableList <- MCTableList
    NotFor <- MCNotFor
    Complete = FALSE
    Files <- MCFiles
    MaxTime = 2
INVARIANTS
    TypeOK
    LogProves
CHECK_DEADLOCK FALSE
