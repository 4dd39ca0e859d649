SPECIFICATION Spec
CONSTANTS
    Domains = {d1, d2}
    Posts = {p1, p2}
    Resolvers = {r1, r2}
    None = None
    NoRule = NoRule
    MaxAsks = 2
    MaxRequests = 2
    MaxVersion = 3
SYMMETRY RequestSymmetry
INVARIANTS
    TypeOK
    PendingBounded
PROPERTIES
    DecidedOnce
    ApprovalTakesEffect
    ImplementsInbox
