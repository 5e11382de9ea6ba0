--------------------------- MODULE MCPublisher ---------------------------
(* Model-checking instance: the constants are given in Publisher_*.cfg. *)
EXTENDS Publisher

==========================================================================
