-------------------------- MODULE MCStatusLattice --------------------------
(* Instances of StatusLattice for TLC. *)
EXTENDS StatusLattice
============================================================================
