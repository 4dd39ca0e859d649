SPECIFICATION Spec
CONSTANTS
    Panels = {children, requests}
    Calls = {c1, c2}
    Children = {a, b}
    None = none
    MaxSessions = 2
SYMMETRY DashboardSymmetry
INVARIANTS
    TypeOK
    ConsoleIsServed
    LockEndsSession
    BusyFormIsAwaited
    SavesOwnPolicy
