-------------------------- MODULE MCTrainingStores --------------------------
(* Instances of TrainingStores for TLC. *)
EXTENDS TrainingStores
============================================================================
