SPECIFICATION Spec
CONSTANTS
    Subjects = {1, 3}
    Shards = 2
    AdapterFirst = FALSE
    MaxRunning = 2
    MaxFaults = 0
    Nobody = Nobody
INVARIANTS
    DatasetStaysErased
CHECK_DEADLOCK FALSE
