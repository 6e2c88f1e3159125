SPECIFICATION Spec
CONSTANTS
    Apps = {p1, p2}
    Documents <- SharedAndDerived
    Questions = {"q1"}
    CacheKinds = {"exact", "semantic"}
    Repeats = FALSE
    Nothing = Nothing
    MaxTraces = 1
    MaxDocuments = 2
    MaxFaults = 1
INVARIANTS
    TypeOK
    NoUntracedCopy
    GapsAreReal
    VerifiedStaysGone
PROPERTIES
    OthersSpared
SYMMETRY
    Symmetry
CHECK_DEADLOCK FALSE
