SPECIFICATION Spec
CONSTANTS
    Operators = {p1}
    Claims = {c1, c2}
    Leases = {l1}
    Configured = {l1}
    Nobody = Nobody
    NoLease = NoLease
    Duration <- OneTick
    LeaseLabels <- NoLabels
    RequiredLabels <- NoRequirement
    l2 = l2
    Hazards = {"apiError", "recreate"}
INVARIANT NoSharedLease
