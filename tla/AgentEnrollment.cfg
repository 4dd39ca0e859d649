SPECIFICATION AgentSpec
CONSTANTS
    Children = {c1, c2}
    Codes = {k1, k2}
    Attempts = {a1, a2}
    PCs = {p1, p2}
    Unminted = Unminted
    Deleted = Deleted
    NoDevice = NoDevice
    None = None
    NoCred = NoCred
    Torn = Torn
    NoPolicy = NoPolicy
    CodeTTL = 1
    MaxTime = 2
    MaxVersion = 2
SYMMETRY AgentSymmetry
INVARIANTS
    TypeOK
    OneActiveDevice
    CodeUsedOnce
    ClaimInv
    AgentTypeOK
    OnePCPerChild
    LinkedOnceEnforcesOwnChild
PROPERTIES
    RevokedForGood
    ImplementsLinking
