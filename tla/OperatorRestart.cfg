SPECIFICATION FairOperatorSpec
CONSTANTS
    Operators = {p1}
    Claims = {c1, c2}
    Leases = {l1}
    Configured = {l1}
    Nobody = Nobody
    NoLease = NoLease
    Duration <- OneTick
    LeaseLabels <- NoLabels
    RequiredLabels <- NoRequirement
    Hazards = {"expiry", "leaseDeleted", "overtake"}
    StartupCleanup = {TRUE}
    MaxCrashes = 1
PROPERTY CleanStart
PROPERTY DeletionCompletes
CHECK_DEADLOCK FALSE
