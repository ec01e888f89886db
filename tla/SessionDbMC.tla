---------------------------- MODULE SessionDbMC ----------------------------
(* Symmetry for the model-checking runs of SessionDb. *)
EXTENDS SessionDb, TLC

Symmetry == Permutations(Ids) \cup Permutations(Guids)
=============================================================================
