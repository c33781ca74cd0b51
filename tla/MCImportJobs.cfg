SPECIFICATION Spec
CONSTANTS
    Machines = {m1, m2, m3}
    Routings = {{m1, m2}}
    Foreign = {m1, m3}
    Jobs = {1, 2}
    Requests = {r1, r2}
    Tasks = {t1, t2}
    MaxEvents = 1
SYMMETRY Symmetry
CHECK_DEADLOCK FALSE
INVARIANTS
    ActiveImportsAreRunning
    SeenVMsAreNotFlagged
PROPERTIES
    CompletedImportsAreWhole
    FlagsAreLast
