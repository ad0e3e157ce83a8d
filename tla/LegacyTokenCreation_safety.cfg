SPECIFICATION Spec
CONSTANTS
    Calls = {c1, c2}
    Creators = {a1, a2}
    NoCreator = NoCreator
    NoCreation = NoCreation
    Names = {n1}
    VanityNonces = {1}
    MaxTime = 1
    MaxStarted = 3
    MaxFailures = 1
SYMMETRY Symmetric
INVARIANTS
    AnswersAreSaved
    NonceRepeatNeedsFailure
    RefusalNeedsCause
