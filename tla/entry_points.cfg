SPECIFICATION Spec
CONSTANTS
    Subjects = {"s1", "s2"}
    Calls = {c1, c2}
    Stores = {"kb", "qa"}
    InUse = {{"tools"}, {"page"}, {"terminal", "program"}}
    MaxMoves = 2
    MaxRestarts = 1
INVARIANTS
    TypeOK
    ErasesWhatWasShown
    OneAdapter
SYMMETRY
    Symmetry
CHECK_DEADLOCK FALSE
