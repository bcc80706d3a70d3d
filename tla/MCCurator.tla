------------------------------ MODULE MCCurator -------------------------------
(* The runs and the processes of the curator are model values. *)
EXTENDS CuratorInv, TLC
Symmetry == Permutations(Runs) \cup Permutations(Processes)
===============================================================================
