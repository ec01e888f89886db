--------------------------------- MODULE NatProxyMC ---------------------------------
(* Model values and instances for the model-checking runs of NatProxy. *)
EXTENDS NatProxy, TLC

Symmetry == Permutations(Sessions) \cup Permutations(Acceptors) \cup Permutations(Guids) \cup Permutations(Channels)
=============================================================================
