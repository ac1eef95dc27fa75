SPECIFICATION OperatorSpec
CONSTANTS
    Operators = {p1, p2}
    Claims = {c1, c2}
    Leases = {l1}
    Configured = {l1}
    Nobody = Nobody
    NoLease = NoLease
    Duration <- OneTick
    LeaseLabels <- NoLabels
    RequiredLabels <- NoRequirement
    Hazards = {}
    StartupCleanup = {TRUE}
    MaxCrashes = 0
INVARIANT NoSharedLease
CHECK_DEADLOCK FALSE
