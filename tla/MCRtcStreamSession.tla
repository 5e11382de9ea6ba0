----------------------- MODULE MCRtcStreamSession -----------------------
(* Model-checking instance: the constants are given in Session_*.cfg. *)
EXTENDS RtcStreamSession

=========================================================================
