SPECIFICATION FairSpec
CONSTANTS
    Operators = {p1}
    Claims = {c1, c2}
    Leases = {l1, l2}
    Configured = {l1, l2}
    Nobody = Nobody
    NoLease = NoLease
    Duration <- OneTick
    LeaseLabels <- TwoLabels
    RequiredLabels <- BothRequired
    l2 = l2
    Hazards = {"expiry", "provError"}
INVARIANT BoundMatchesLabels
PROPERTY DeletionCompletes
PROPERTY ExpiredIsRemoved
PROPERTY WaitingIsServed
