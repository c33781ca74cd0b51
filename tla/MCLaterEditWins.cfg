SPECIFICATION Spec
CONSTANTS
    VMs = {v1, v2}
    MaxNumber = 2
    MaxTasks = 2
    Collected = {1, 2}
PROPERTIES
    LaterEditWins
