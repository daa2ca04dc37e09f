CONSTANTS
    a1 = a1
    a2 = a2
    a3 = a3
    Accounts <- TwoAccounts
    None = None
    MaxVMs = 3
    TrialMaxVMs = 1
    WarmSpares = 1
    MaxRows = 4
    MaxCreates = 0
    Events = {"operator", "leave", "deposit"}
SPECIFICATION Spec
CHECK_DEADLOCK FALSE
SYMMETRY AccountSymmetry
INVARIANTS
    FleetWithinLimit
    TrialsWithinShare
PROPERTIES
    Dedicated
