------------------------------ MODULE RelayMC ------------------------------
(* Symmetry for the model-checking runs of Relay. *)
EXTENDS Relay, TLC

Symmetry == Permutations(Ports)
=============================================================================
