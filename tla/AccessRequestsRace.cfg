SPECIFICATION Spec
CONSTANTS
    Domains = {d1}
    Posts = {p1}
    Resolvers = {r1, r2}
    None = None
    NoRule = NoRule
    MaxAsks = 2
    MaxRequests = 1
    MaxVersion = 3
PROPERTIES
    DenialLeavesRuleAlone
