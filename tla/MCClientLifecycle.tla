-------------------------- MODULE MCClientLifecycle --------------------------
(* Model-checking instance: the constants are given in Client*.cfg. *)
EXTENDS ClientLifecycle, TLC

\* The handles are interchangeable: Init takes every assignment of indices.
Symmetry == Permutations(Handles)

==============================================================================
