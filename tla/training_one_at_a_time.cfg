SPECIFICATION Spec
CONSTANTS
    Subjects = {1, 2, 3}
    Shards = 2
    AdapterFirst = TRUE
    MaxRunning = 1
    MaxFaults = 1
    Nobody = Nobody
INVARIANTS
    TypeOK
    DatasetStaysErased
    ReclaimForgets
    OthersUnharmed
CHECK_DEADLOCK FALSE
