SPECIFICATION FairSpec
CONSTANTS
    Insts = {i1}
    Keys = {"a", "b"}
    Versions = {1, 2}
    MaxIds = 2
    MaxKills = 1
INVARIANTS
    TypeOK
    VerifiedBytesGone
    AnswersForItself
PROPERTIES
    ImplementsErasableStore
    ErasuresEnd
CHECK_DEADLOCK FALSE
