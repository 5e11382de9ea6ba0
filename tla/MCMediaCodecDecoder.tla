------------------------- MODULE MCMediaCodecDecoder -------------------------
(* Model-checking instance: the constants are given in Decoder*.cfg. *)
EXTENDS MediaCodecDecoder

==============================================================================
