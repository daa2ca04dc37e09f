CONSTANTS
    n1 = n1
    n2 = n2
    Nodes <- TwoNodes
    VMs <- TwoNodes
    Sia = Sia
    None = None
    Requests = {"start"}
    FollowsState = TRUE
    Faults = {"local", "retire"}
    MaxOps = 5
    MaxWrites = 2
SPECIFICATION Spec
CHECK_DEADLOCK FALSE
PROPERTIES
    RemoteSnapshotKept
