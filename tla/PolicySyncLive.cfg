CONSTANTS
    young = young
    teen = teen
    threats = threats
    social = social
    h1 = h1
    h2 = h2
    AgeBands = {young}
    Categories = {threats}
    Threats = threats
    Preset <- MCPreset
    Slots = {s1}
    Domains = {}
    Handlers = {h1}
    NoRule = NoRule
    Never = Never
    NoPolicy = NoPolicy
    MaxVersion = 2
    MaxTime = 0
    MaxLists = 1
SPECIFICATION FairSpec
PROPERTIES
    EventuallyInSync
    ImplementsRelay
