---- MODULE MCEntryPoints ----
EXTENDS EntryPoints

Symmetry == Permutations(Calls)
====
