SPECIFICATION FairSpec
CONSTANTS
    Attempts = {a1, a2}
    MaxFailures = 1
INVARIANTS
    TypeOK
    AnsweredIsStored
    StoredErrorNeedsCause
    ClosedBeforeExit
PROPERTIES
    ServiceShutdownEnds
    ApiShutdownEnds
