SPECIFICATION PoolSpec
CONSTANTS
    Operators = {p1}
    Claims = {c1}
    Leases = {l1}
    Configured = {l1}
    Nobody = Nobody
    NoLease = NoLease
    NoKey = NoKey
    Lost = Lost
    Duration <- OneTick
    LeaseLabels <- NoLabels
    RequiredLabels <- NoRequirement
    Hazards = {}
    ProviderFaults = {}
INVARIANT FreeIsClean
CHECK_DEADLOCK FALSE
