SPECIFICATION Spec
CONSTANTS
    MaxSagas = 2
    MaxFaults = 1
    MaxMoves = 2
INVARIANTS
    TypeOK
    VerifiedIsTrue
    KillsDoNotMatter
    ReplayAgreesUnlessRaised
    SecondOpinionsAgree
CHECK_DEADLOCK FALSE
