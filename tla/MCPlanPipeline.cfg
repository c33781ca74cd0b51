SPECIFICATION Spec
CONSTANTS
    Fleets <- MCFleets
    Mappings <- MCMappings
    Shapes <- MCShapes
    Catalogs <- MCCatalogs
    Addresses <- MCAddresses
    Inside <- MCInside
    MaxVMs = 4
    SmallPartition = 3
    MaxVMsPerWave = 2
    MaxPeers = 2
    MaxVMsPerPlan = 4
    MaxCalls = 1
    MaxAttempts = 2
    MaxEvents = 1
INVARIANTS RenderedAsResolved VMsArePlaced WavesRespectTheRules StageZeroSuffices PreflightHolds
PROPERTY DownloadsAreWhole
