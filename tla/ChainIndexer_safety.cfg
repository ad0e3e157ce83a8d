SPECIFICATION Spec
CONSTANTS
    Tokens = {t1, t2}
    Intervals = {"1m", "5m"}
    Width <- MCWidth
    Prices = {1, 2}
    StartBlock = 1
    WithRejected = TRUE
    MaxBlocks = 3
    MaxLogs = 3
    BlockBatchSize = 2
    MaxExits = 2
    NoTx = NoTx
SYMMETRY TokenSymmetry
INVARIANTS
    TypeOK
    LedgerExact
    TokensCurrent
    CandlesExact
    NoGap
    RejectedHolds
PROPERTIES
    CheckpointForward
