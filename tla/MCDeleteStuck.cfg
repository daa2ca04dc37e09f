CONSTANTS
    n1 = n1
    n2 = n2
    Nodes <- TwoNodes
    VMs <- TwoNodes
    Sia = Sia
    None = None
    Requests = {"start", "delete"}
    FollowsState = TRUE
    Faults = {"retire"}
    MaxOps = 4
    MaxWrites = 1
SPECIFICATION FairSpec
CHECK_DEADLOCK FALSE
PROPERTIES
    ErasureFinishes
