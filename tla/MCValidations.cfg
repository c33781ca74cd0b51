SPECIFICATION Spec
CONSTANTS
    VMs = {v1, v2}
    Jobs = {j1, j2}
    Guests <- MCGuests
    Starts <- MCStarts
    CriticalServices <- MCCritical
    KnownGoodServices <- MCKnownGood
    KnownRenames <- MCRenames
    DefaultRoutes <- MCDefaultRoutes
    Production = {v1, v2}
    Settable = {"discovered"}
    MaxSnapshots = 1
    MaxEvents = 1
    Judgements = {"pass", "fail", "other"}
    none = none
    MaxRetries = 1
    Selected = {"trustyai", "vllm", "maas"}
    Environment <- MCEnvironment
SYMMETRY Symmetry
INVARIANTS
    TypeOK
    PassesAgree
    StatusFollowsVerdict
    VerdictsHaveAnAuthor
CHECK_DEADLOCK FALSE
