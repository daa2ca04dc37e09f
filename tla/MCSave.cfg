CONSTANTS
    n1 = n1
    n2 = n2
    Nodes <- OneNode
    VMs = {}
    Sia = Sia
    None = None
    Requests = {"start", "stop", "delete"}
    FollowsState = FALSE
    Faults = {"fail", "lossy", "restart", "local"}
    MaxOps = 5
    MaxWrites = 2
SPECIFICATION Spec
CHECK_DEADLOCK FALSE
INVARIANTS
    NewestKept
    ReleasedIsClean
    CleanupHasHost
