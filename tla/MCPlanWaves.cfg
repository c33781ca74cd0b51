SPECIFICATION FairSpec
CONSTANTS
    VMs = {v1, v2}
    MaxNumber = 3
    MaxTasks = 2
    Collected = {3}
INVARIANTS
    WavesDisjoint
    TextDescribesWave
PROPERTIES
    NewWavesHaveNewNumbers
    AnswersLand
