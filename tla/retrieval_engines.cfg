SPECIFICATION Spec
CONSTANTS
    Kinds = {"pgvector", "pgvector_hosted", "pgvector_reader", "pgvector_managed",
             "chroma", "qdrant", "qdrant_server", "pinecone"}
    Threads = {t1}
    Shared = FALSE
    Keys = {a, b}
    MaxAdds = 2
    MaxKills = 1
INVARIANTS
    TypeOK
    TombstonedNotServed
    VerifiedGone
    NoneLost
PROPERTIES
    KeepsPromise
SYMMETRY
    Symmetry
CHECK_DEADLOCK FALSE
