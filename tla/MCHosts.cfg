CONSTANTS
    n1 = n1
    n2 = n2
    Nodes <- TwoNodes
    VMs = {}
    Sia = Sia
    None = None
    Requests = {"start", "stop", "wipe", "delete"}
    FollowsState = TRUE
    Faults = {"lossy", "local", "silent"}
    MaxOps = 5
    MaxWrites = 2
SPECIFICATION Spec
CHECK_DEADLOCK FALSE
SYMMETRY NodeSymmetry
INVARIANTS
    UnsavedIsNewest
    ErasedStaysErased
    
