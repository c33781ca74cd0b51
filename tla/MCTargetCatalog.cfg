SPECIFICATION Spec
CONSTANTS
    Clusters = {1}
    VCenters = {7, 8}
    VMs = {v1}
    Plans = {p1}
    Requests = {r1, r2, r3}
    NetNames = {"n1", "n2"}
    ClassNames = {"s1", "s2"}
    Namespaces = {"prod", "test"}
    Seeds <- MCSeeds
    Needs <- MCNeeds
    NetRows <- MCNetRows
    StoreRows <- MCStoreRows
    Strategies <- MCStrategies
    Pastes <- MCPastes
    MaxEvents = 3
CHECK_DEADLOCK FALSE
SYMMETRY RequestSymmetry
INVARIANT TypeOK
PROPERTIES DefaultsStayUnique ReferencesAreKept CompleteMappingsCover
