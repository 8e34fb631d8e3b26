--------------------------- MODULE MCCloudRuntime ---------------------------
(* TLC instances of CloudRuntime. *)
EXTENDS CloudRuntime, TLC

Symmetry == Permutations(Slots) \cup Permutations(Procs)
=============================================================================
