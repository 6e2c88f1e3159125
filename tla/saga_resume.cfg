SPECIFICATION FairSpec
CONSTANTS
    Procs = {p1}
    N = 2
    Physical = {1, 2}
    Pinned = {1, 2}
    Snapshots = {2}
    Configs <- AllConfigured
    ReclaimOpts <- ReclaimOnly
    MaxSagas = 2
    MaxReceipts = 5
    MaxCrashes = 2
    MaxFailures = 1
    MaxCaptures = 0
INVARIANT EndedSagasLeaveNothing
PROPERTY FirstSagaEnds
CHECK_DEADLOCK FALSE
