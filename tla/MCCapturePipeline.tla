------------------------- MODULE MCCapturePipeline -------------------------
(* Model-checking instance: the constants are given in Capture_*.cfg. *)
EXTENDS CapturePipeline

============================================================================
