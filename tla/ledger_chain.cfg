SPECIFICATION FairSpec
CONSTANTS
    Procs = {p1, p2}
    MaxReceipts = 3
    MaxCuts = 2
INVARIANTS
    TypeOK
    Linked
    NoFalseAlarm
    AckedKept
PROPERTIES
    CallsReturn
CHECK_DEADLOCK FALSE
