SPECIFICATION Spec
CONSTANTS
    VMs = {v1, v2}
    Selections <- AnyVMs
    Deletable = {v1, v2}
    Requests = {r1, r2}
    Faults = {}
    MaxPlans = 2
SYMMETRY Symmetry
INVARIANT
    OneLivePlanPerVM
