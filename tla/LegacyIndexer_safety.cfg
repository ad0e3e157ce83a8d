SPECIFICATION Spec
CONSTANTS
    Tokens = {t1}
    Intervals = {"5m"}
    Width <- MCWidth
    Prices = {1, 2}
    StartBlock = 1
    WithRejected = FALSE
    MaxBlocks = 3
    MaxLogs = 3
    BlockBatchSize = 2
    MinBatch = 1
    RecoverAfter = 2
    RpcLimit = 3
    MaxFailures = 1
    MaxExits = 1
INVARIANTS
    TypeOK
    NothingLost
    BatchAtomic
    StatusExact
    HighLowExact
    RepeatNeedsRestart
PROPERTIES
    GraduatedStays
