SPECIFICATION Spec
CONSTANTS
    Procs = {p1}
    N = 2
    Physical = {1}
    Pinned = {1, 2}
    Snapshots = {2}
    Configs <- LastMayBeRemoved
    ReclaimOpts <- WithAndWithoutReclaim
    MaxSagas = 2
    MaxReceipts = 4
    MaxCrashes = 2
    MaxFailures = 1
    MaxCaptures = 1
INVARIANTS
    TypeOK
    SuppressBeforeReclaim
    EndedByLastReceipt
    VerifiedIsErased
PROPERTIES
    NoReceiptMidStep
    ImplementsErasure
CHECK_DEADLOCK FALSE
