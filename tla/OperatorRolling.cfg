SPECIFICATION OperatorSpec
CONSTANTS
    Operators = {p1, p2}
    Claims = {c1, c2}
    Leases = {l1}
    Configured = {l1}
    Nobody = Nobody
    NoLease = NoLease
    Duration <- OneTick
    LeaseLabels <- NoLabels
    RequiredLabels <- NoRequirement
    Hazards = {"apiError", "overtake"}
    StartupCleanup = {TRUE, FALSE}
    MaxCrashes = 1
INVARIANT OperatorTypeOK
INVARIANT LeaseNameHasFinalizer
PROPERTY DeletingNeverBinds
CHECK_DEADLOCK FALSE
SYMMETRY Alike
