SPECIFICATION DeploymentSpec
CONSTANTS
    Operators = {p1}
    Claims = {c1, c2}
    Leases = {l1, l2}
    Configured = {l1, l2}
    Nobody = Nobody
    NoLease = NoLease
    NoKey = NoKey
    Lost = Lost
    Duration <- OneTick
    LeaseLabels <- NoLabels
    RequiredLabels <- NoRequirement
    Hazards = {"provError", "recreate"}
    ProviderFaults = {"acquireError", "releaseError", "cleanupError"}
    StartupCleanup = {TRUE}
    MaxCrashes = 1
    Local = {c1}
SYMMETRY AlikeLeases
INVARIANT DeploymentTypeOK
INVARIANT LedPoolIsConsistent
INVARIANT LedClaimHasKey
PROPERTY StartRevokesKeys
PROPERTY ImplementsAssignment
CHECK_DEADLOCK FALSE
