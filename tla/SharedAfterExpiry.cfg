SPECIFICATION Spec
CONSTANTS
    Operators = {p1}
    Claims = {c1, c2}
    Leases = {l1}
    Configured = {l1}
    Nobody = Nobody
    NoLease = NoLease
    Duration <- TwoTicks
    LeaseLabels <- NoLabels
    RequiredLabels <- NoRequirement
    l2 = l2
    Hazards = {"expiry"}
INVARIANT NoSharedLease
