------------------------- MODULE MCSignalingServer -------------------------
(* The signaling server on a handful of descriptors; the bounds are in the .cfg files. *)
EXTENDS SignalingServer
=============================================================================
