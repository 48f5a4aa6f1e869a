SPECIFICATION Spec
CONSTANTS
    Resources <- MCResources
    Selectors <- MCSelectors
    Edges <- MCEdges
    Policies <- MCPolicies
    MaxResources = 3
    MaxSelectors = 2
    MaxEdges = 3
    MaxLabel = 128
    MaxPolicies = 2
    NoDefinition = NoDefinition
    NoPolicy = NoPolicy
    NoPayload = NoPayload
    Refused = Refused
INVARIANTS
    IdentitiesAreUnique
CHECK_DEADLOCK FALSE
