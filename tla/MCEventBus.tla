----------------------------- MODULE MCEventBus -----------------------------
(* TLC instances of EventBus. *)
EXTENDS EventBus, TLC

Symmetry == Permutations(Receivers)
=============================================================================
