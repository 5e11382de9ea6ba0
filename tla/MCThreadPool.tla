---------------------------- MODULE MCThreadPool ----------------------------
(* Model-checking instance: the constants are given in ThreadPool*.cfg. *)
EXTENDS ThreadPool

=============================================================================
