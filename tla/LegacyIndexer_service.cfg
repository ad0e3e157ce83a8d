SPECIFICATION FairSpec
CONSTANTS
    Tokens = {t1}
    Intervals = {"5m"}
    Width <- MCWidth
    Prices = {1}
    StartBlock = 1
    WithRejected = FALSE
    MaxBlocks = 2
    MaxLogs = 3
    BlockBatchSize = 2
    MinBatch = 1
    RecoverAfter = 2
    RpcLimit = 2
    MaxFailures = 1
    MaxExits = 1
PROPERTIES
    EveryLogStored
