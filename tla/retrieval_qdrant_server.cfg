SPECIFICATION Spec
CONSTANTS
    Kinds = {"qdrant_server"}
    Threads = {t1}
    Shared = FALSE
    Keys = {a}
    MaxAdds = 1
    MaxKills = 0
INVARIANTS
    VerifiedMeansGone
CHECK_DEADLOCK FALSE
