--------------------------- MODULE MCLearnedStream ----------------------------
(* The bounds of a learned stream are numbers: the cfgs give them. *)
EXTENDS LearnedStreamInv
===============================================================================
