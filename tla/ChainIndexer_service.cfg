SPECIFICATION FairSpec
CONSTANTS
    Tokens = {t1}
    Intervals = {"1m", "5m"}
    Width <- MCWidth
    Prices = {1}
    StartBlock = 2
    WithRejected = FALSE
    MaxBlocks = 4
    MaxLogs = 3
    BlockBatchSize = 2
    MaxExits = 1
    NoTx = NoTx
PROPERTIES
    ImplementsReadModel
    EveryLogIndexed
