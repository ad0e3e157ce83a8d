SPECIFICATION Spec
CONSTANTS
    Calls = {c1, c2}
    Creators = {a1, a2}
    NoCreator = NoCreator
    NoCreation = NoCreation
    Names = {n1, n2}
    VanityNonces = {1}
    MaxTime = 0
    MaxStarted = 2
    MaxFailures = 0
SYMMETRY Symmetric
INVARIANT AddressIsOfItsArguments
