------------------------- MODULE MCRecorderPipeline -------------------------
(* A recorder of two targets a pass and one place in each queue, so that a  *)
(* pass overtakes the writer and a row is dropped.                          *)
EXTENDS RecorderPipelineInv
=============================================================================
