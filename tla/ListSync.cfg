SPECIFICATION SpecInTime
CONSTANTS
    adult = adult
    social = social
    Categories <- MCCategories
    Manifest <- MCManifest
    NoPolicy = NoPolicy
    Torn = Torn
    MaxLists = 3
    MaxPolicy = 2
INVARIANTS
    TypeOK
    StampIsTrue
    StampInv
PROPERTIES
    ImplementsRelay
    PolicyReachesAgent
