CONSTANTS
    a1 = a1
    a2 = a2
    a3 = a3
    Accounts <- TwoAccounts
    None = None
    MaxVMs = 1
    TrialMaxVMs = 1
    WarmSpares = 1
    MaxRows = 1
    MaxCreates = 2
    Events = {"operator", "fail", "unclear", "restart", "cut", "refuse", "attest", "noNode", "beat", "place", "timeout", "unused", "silent", "leave"}
SPECIFICATION Spec
CHECK_DEADLOCK FALSE
SYMMETRY AccountSymmetry
INVARIANTS
    TypeOK
    OneInstance
    ApprovedBeforeUnlock
PROPERTIES
    DeletesOnlyUnwanted
