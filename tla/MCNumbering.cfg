CONSTANTS
    n1 = n1
    n2 = n2
    Nodes <- OneNode
    VMs <- OneNode
    Sia = Sia
    None = None
    Requests = {"start", "stop", "wipe", "list"}
    FollowsState = TRUE
    Faults = {}
    MaxOps = 6
    MaxWrites = 1
SPECIFICATION FairSpec
CHECK_DEADLOCK FALSE
PROPERTIES
    StopFinishes
