SPECIFICATION LeaseSpec
CONSTANTS
    Operators = {p1, p2}
    c1 = c1
    c2 = c2
    Claims = {c1, c2}
    Leases = {l1, l2}
    Nobody = Nobody
    Duration <- MCDuration
    LeaseLabels <- MCNoLabels
    RequiredLabels <- MCNoRequirement
INVARIANT LeaseTypeOK
PROPERTY ImplementsLock
