CONSTANTS
    a1 = a1
    a2 = a2
    a3 = a3
    Accounts <- OneAccount
    None = None
    MaxVMs = 1
    TrialMaxVMs = 1
    WarmSpares = 0
    MaxRows = 1
    MaxCreates = 2
    Events = {"operator", "unclear", "refuse", "lag"}
SPECIFICATION FairSpec
CHECK_DEADLOCK FALSE
PROPERTIES
    RetiredIsDeleted
    NoInstanceLeaks
