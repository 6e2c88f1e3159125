------------------------------ MODULE MCLineage ------------------------------
EXTENDS Lineage, TLC

Symmetry == Permutations(Apps)

Doc(source, subject, chunk, key, from) ==
    [source |-> source, subject |-> subject, chunk |-> chunk, key |-> key, from |-> from]

\* Two sources of one chunk, and a document derived from somebody else's.
SharedAndDerived == {Doc("a1", "A", "c1", "k1", Nothing),
                     Doc("b1", "B", "c1", "k2", Nothing),
                     Doc("b2", "B", "c2", "k3", "a1")}
\* One subject's two documents, and another's that shares a chunk with the first.
SharedOnly == {Doc("a1", "A", "c1", "k1", Nothing), Doc("b1", "B", "c1", "k2", Nothing),
               Doc("a2", "A", "c2", "k3", Nothing)}

\* The documents above are such as the theorems ask for.
ASSUME NamedApartAssumption == NamedApart
==============================================================================
