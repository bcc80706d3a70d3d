------------------------ MODULE MCRecorderTransaction ------------------------
(* RecorderTransaction with its inductive invariant, on small instances. *)
EXTENDS RecorderTransactionInv
==============================================================================
