CONSTANTS
    n1 = n1
    n2 = n2
    Nodes <- TwoNodes
    VMs <- OneNode
    Sia = Sia
    None = None
    Requests = {"start", "stop", "wipe", "delete"}
    FollowsState = TRUE
    Faults = {"retire", "lossy", "expire"}
    MaxOps = 4
    MaxWrites = 2
SPECIFICATION FairSpec
CHECK_DEADLOCK FALSE
INVARIANTS
    TypeOK
    NewestKept
PROPERTIES
    StopFinishes
    HostWipes
    
