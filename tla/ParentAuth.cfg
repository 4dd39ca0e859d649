SPECIFICATION Spec
CONSTANTS
    Attempts = {a1, a2}
    Requests = {r1, r2}
    Given = Given
    None = None
    NoRow = NoRow
    IdleTTL = 2
    AbsoluteTTL = 3
    TouchAfter = 1
    MaxTime = 4
SYMMETRY AuthSymmetry
INVARIANTS
    TypeOK
    SessionInv
PROPERTIES
    AcceptedInTime
    ClearedByItsHolder
    ImplementsAccount
