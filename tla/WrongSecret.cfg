SPECIFICATION PoolSpec
CONSTANTS
    Operators = {p1}
    Claims = {c1}
    Leases = {l1, l2}
    Configured = {l1, l2}
    Nobody = Nobody
    NoLease = NoLease
    NoKey = NoKey
    Lost = Lost
    Duration <- OneTick
    LeaseLabels <- NoLabels
    RequiredLabels <- NoRequirement
    Hazards = {"lag"}
    ProviderFaults = {}
INVARIANT BoundHasKey
CHECK_DEADLOCK FALSE
