---- MODULE MCRetrieval ----
EXTENDS Retrieval, TLC

Symmetry == Permutations(Keys)
====
