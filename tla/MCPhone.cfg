CONSTANTS
    n1 = n1
    n2 = n2
    Nodes <- OneNode
    VMs <- OneNode
    Sia = Sia
    None = None
    Requests = {"start", "stop", "wipe", "delete", "session", "settings", "list"}
    FollowsState = TRUE
    Faults = {"lossy", "quota", "expire", "unreachable", "taint", "reboot"}
    MaxOps = 5
    MaxWrites = 1
SPECIFICATION Spec
CHECK_DEADLOCK FALSE
INVARIANTS
    NewestKept
    ManifestBacked
    PhoneAccepts
PROPERTIES
    GenerationRises
