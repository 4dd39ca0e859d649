SPECIFICATION FairSpec
CONSTANTS
    adult = adult
    social = social
    Categories <- MCCategories
    Manifest <- MCManifest
    NoPolicy = NoPolicy
    Torn = Torn
    MaxLists = 1
    MaxPolicy = 2
PROPERTIES
    PolicyReachesAgent
