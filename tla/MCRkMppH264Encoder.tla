------------------------- MODULE MCRkMppH264Encoder -------------------------
(* Instances of RkMppH264Encoder for TLC: two picture sizes, and the        *)
(* environments: packets in parts with buffers used directly, and the two   *)
(* other ways to bind a buffer with whole packets; strict or not; and one   *)
(* without a limit to the waits.                                            *)
EXTENDS RkMppH264Encoder

CONSTANTS small, large
TwoSizes == {small, large}

Env(bind, split, strict, limited) ==
  [bind |-> bind, split |-> split, strict |-> strict, limited |-> limited]
Default == {Env("direct", TRUE, FALSE, TRUE)}
AllBinds ==
  {Env("direct", TRUE, FALSE, TRUE), Env("direct", TRUE, TRUE, FALSE)}
    \union {Env(b, FALSE, s, TRUE) : b \in {"null", "external"}, s \in BOOLEAN}
=============================================================================
