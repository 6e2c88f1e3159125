SPECIFICATION Spec
CONSTANTS
    Apps = {p1}
    Documents <- SharedOnly
    Questions = {"q1"}
    CacheKinds = {"semantic"}
    Repeats = TRUE
    Nothing = Nothing
    MaxTraces = 1
    MaxDocuments = 3
    MaxFaults = 0
INVARIANT
    NoUntracedCopy
CHECK_DEADLOCK FALSE
