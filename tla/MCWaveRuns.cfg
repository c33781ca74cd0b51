SPECIFICATION FairSpec
CONSTANTS
    VMs = {v1, v2}
    Requests = {q1, q2}
    MaxRuns = 2
INVARIANTS
    VerdictsRestOnCaptures
    CompletedRunsAreWhole
PROPERTY RunsSettle
