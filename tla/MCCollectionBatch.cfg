SPECIFICATION BatchFairSpec
CONSTANTS
    MaxTargets = 5
    VCenters = {"vc1"}
    MaxConcurrency = 3
    PerVCenter = 1
    Threshold = 2
INVARIANTS
    WithinCaps
    BreakerMatchesResults
    FewStragglers
CHECK_DEADLOCK FALSE
PROPERTIES
    BatchReturns
