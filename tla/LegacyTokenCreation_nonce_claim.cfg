SPECIFICATION Spec
CONSTANTS
    Calls = {c1, c2}
    Creators = {a1, a2}
    NoCreator = NoCreator
    NoCreation = NoCreation
    Names = {n1}
    VanityNonces = {1}
    MaxTime = 0
    MaxStarted = 2
    MaxFailures = 1
SYMMETRY Symmetric
INVARIANT NonceIsNext
