SPECIFICATION Spec
CONSTANTS
    Plans = {1, 2}
    Requests = {a, b}
    Layouts <- MCLayouts
    Mappings <- MCMappings
    Patches <- MCPatches
    SmallPartition = 3
    MaxVMsPerWave = 2
    MaxPeers = 2
    MaxNumber = 2
    InitialNumbers = {1, 2}
    MaxVMsPerPlan = 2
    MaxEvents = 3
SYMMETRY Symmetry
INVARIANTS TypeOK RulesAreConfirmed OfferedTargetsAdmit
PROPERTY EditsKeepPartitions
CHECK_DEADLOCK FALSE
