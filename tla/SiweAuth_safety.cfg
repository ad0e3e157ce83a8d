SPECIFICATION Spec
CONSTANTS
    Addresses = {a1, a2}
    Calls = {c1, c2, c3}
    NoAddress = NoAddress
    Lifetime = 1
    MaxTime = 2
    MaxChallenges = 2
    MaxFailures = 1
SYMMETRY Symmetric
INVARIANTS
    ConsumedOnce
    SpentIsRefused
    TokensNameTheirUser
PROPERTIES
    LostLoginHasAccount
