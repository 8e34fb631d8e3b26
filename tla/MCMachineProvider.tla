-------------------------- MODULE MCMachineProvider --------------------------
(* TLC instance of MachineProvider: clients without any coordination. *)
EXTENDS MachineProvider, TLC

SlotSymmetry == Permutations(Slots)
=============================================================================
