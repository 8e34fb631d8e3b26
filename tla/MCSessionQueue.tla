--------------------------- MODULE MCSessionQueue ---------------------------
(* TLC instances of SessionQueue. *)
EXTENDS SessionQueue, TLC

Symmetry == Permutations(Workers) \cup Permutations(Callers)
MsgSymmetry == Symmetry \cup Permutations(Msgs \ NoReply)
=============================================================================
