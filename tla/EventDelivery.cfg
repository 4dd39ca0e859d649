SPECIFICATION Spec
CONSTANTS
    Adders = {a1, a2}
    Posts = {p1, p2}
    None = none
    Limit = 2
    Batch = 2
    Refused <- RefusedSet
    OfflineAfter = 0
    Overlap = 2
    MaxEvents = 3
INVARIANTS
    TypeOK
    OverflowCost
    QueueBounded
    AlertsBounded
PROPERTY
    SilenceShown
