------------------------- MODULE MCTrainingAdmission -------------------------
(* Processes and recipes are model values. *)
EXTENDS TrainingAdmissionInv, TLC
CONSTANTS r1, r2
AsksFirst == {{r1}, {r1, r2}}
Symmetry == Permutations(Processes) \cup Permutations(Recipes)
===============================================================================
