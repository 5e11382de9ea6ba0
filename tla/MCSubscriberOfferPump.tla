----------------------- MODULE MCSubscriberOfferPump -----------------------
(* Model-checking instance: the constants are given in Pump*.cfg. *)
EXTENDS SubscriberOfferPump

============================================================================
