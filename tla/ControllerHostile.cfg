SPECIFICATION Spec
CONSTANTS
    Operators = {p1}
    Claims = {c1}
    Leases = {l1, l3, l4}
    Configured = {l1, l3}
    Nobody = Nobody
    NoLease = NoLease
    Duration <- OneTick
    LeaseLabels <- NoLabels
    RequiredLabels <- NoRequirement
    l2 = l2
    Hazards = {"lag", "apiError", "lostReply", "provError", "detailsError", "edit", "recreate", "leaseDeleted"}
INVARIANT IInv
INVARIANT WorkerKnowsHolder
PROPERTY DeletingNeverBinds
PROPERTY BoundNeverRebinds
PROPERTY BindOwnsLease
PROPERTY RemovedReleased
SYMMETRY AlikeLeases
