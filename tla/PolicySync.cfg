CONSTANTS
    young = young
    teen = teen
    threats = threats
    social = social
    h1 = h1
    h2 = h2
    AgeBands <- MCAgeBands
    Categories <- MCCategories
    Threats = threats
    Preset <- MCPreset
    Slots = {}
    Domains = {d1}
    Handlers <- MCHandlers
    NoRule = NoRule
    Never = Never
    NoPolicy = NoPolicy
    MaxVersion = 2
    MaxTime = 1
    MaxLists = 0
SPECIFICATION Spec
SYMMETRY HandlerSymmetry
INVARIANTS
    TypeOK
    SyncInv
    CurrentVersionIsCurrentContent
    ThreatsStayOn
