-------------------------- MODULE MCServiceLifecycle --------------------------
(* Model-checking instance: the constants are given in Service*.cfg. *)
EXTENDS ServiceLifecycle

===============================================================================
