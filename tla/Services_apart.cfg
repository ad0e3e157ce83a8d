SPECIFICATION ServicesSpec
CONSTANTS
    Services = {"token", "upload"}
    UploadService = "upload"
    Ports = {"p1", "p2"}
    Identities = {"api", "other"}
    NoIdentity = "none"
    Environments <- MCEnvironments
    MaxServerStarts = 3
    MaxInt = 15
    MaxInt32 = 7
    MaxPageSize = 4
    MaxTokens = 4
    MaxCreated = 2
    Chains <- MCChains
    MaxChain = 2
    DefaultChain = 2
    MediaTypes = {"jpg", "image/gif", "webp", "svg", ""}
    UrlLifetime = 2
    MaxUploadTime = 3
    Addresses = {"a", "b"}
    FavoriteTokens = {"t"}
    LoginCalls = {"x", "y"}
    NonceLifetime = 1
    AccessExpire = 1
    RefreshExpire = 2
    MaxLoginTime = 2
    MaxNonces = 2
    MaxUsers = 2
    Opens = {1, 2, 3, 4}
    Zones <- MCZones
    Limits <- MCLimits
    DefaultLimit = 2
    MaxLimit = 3
    PageNumbers <- MCPageNumbers
    PageLengths <- MCPageLengths
    DefaultLength = 3
    MaxMatching = 4
    Tokens = {"t"}
    Intervals = {"5m"}
    Width <- MCWidth
    Prices = {1}
    StartBlock = 1
    WithRejected = FALSE
    MaxBlocks = 3
    MaxLogs = 3
    Indexers = {i1, i2}
    RangeSize = 2
SYMMETRY IndexerSymmetry
INVARIANTS
    HandledIsAuthorized
    DenialNeedsRestart
    MissNeedsTie
    SignedIsAllowed
    KlineWalkExact
    KlineRangeExact
    PageFitsTotal
    LedgerHasNoGap
    OverlapRowsExact
PROPERTY
    UsedNonceIsGone
