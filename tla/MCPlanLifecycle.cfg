SPECIFICATION FairSpec
CONSTANTS
    VMs = {v1, v2, v3}
    Selections <- AllVMs
    Deletable = {v1}
    Requests = {r1}
    Faults = {"no_sweep", "no_backend"}
    MaxPlans = 2
INVARIANTS
    NoOrphanedCommitment
    StrandedOnlyByDelete
PROPERTIES
    StatusOnlyMovesForward
    MembershipChangesOnlyWhileComplete
    KeepsCommitments
    GenerationSettles
