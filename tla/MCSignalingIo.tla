---------------------------- MODULE MCSignalingIo ----------------------------
(* Model-checking instance: the constants are given in SignalingIo*.cfg. *)
EXTENDS SignalingIo

==============================================================================
