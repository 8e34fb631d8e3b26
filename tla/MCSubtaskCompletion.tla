------------------------ MODULE MCSubtaskCompletion ------------------------
(* SubtaskCompletion for TLC; the two prompts of the child are alike.       *)
EXTENDS SubtaskCompletion, TLC

GenSymmetry == Permutations(Gens)
=============================================================================
