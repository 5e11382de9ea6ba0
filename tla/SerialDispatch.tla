--------------------------- MODULE SerialDispatch ---------------------------
(***************************************************************************)
(* What the SubscriberOfferPump promises its owner, as its header states   *)
(* it: peer ids accepted while it is open are handed to the callback one   *)
(* at a time and in the order of their arrival; closing it may discard     *)
(* what has not been handed over; once closed, nothing is being handed     *)
(* over and nothing will be until it is opened again.                      *)
(***************************************************************************)
EXTENDS Sequences

CONSTANT Peers

VARIABLES
  phase,     \* "closed", "open" or "closing"
  pending,   \* accepted and not yet handed over, oldest first
  current    \* the peer id the callback is working on: at most one

vars == <<phase, pending, current>>

Init ==
  /\ phase = "closed"
  /\ pending = <<>>
  /\ current = <<>>

Open ==
  /\ phase = "closed"
  /\ phase' = "open"
  /\ UNCHANGED <<pending, current>>

Accept(p) ==
  /\ phase = "open"
  /\ pending' = Append(pending, p)
  /\ UNCHANGED <<phase, current>>

Begin ==
  /\ phase # "closed"
  /\ current = <<>>
  /\ pending # <<>>
  /\ current' = <<Head(pending)>>
  /\ pending' = Tail(pending)
  /\ UNCHANGED phase

End ==
  /\ current # <<>>
  /\ current' = <<>>
  /\ UNCHANGED <<phase, pending>>

BeginClose ==
  /\ phase = "open"
  /\ phase' = "closing"
  /\ UNCHANGED <<pending, current>>

Discard ==
  /\ phase = "closing"
  /\ pending' = <<>>
  /\ UNCHANGED <<phase, current>>

Closed ==
  /\ phase = "closing"
  /\ current = <<>>
  /\ pending = <<>>
  /\ phase' = "closed"
  /\ UNCHANGED <<pending, current>>

Next ==
  \/ Open \/ BeginClose \/ Discard \/ Closed
  \/ Begin \/ End
  \/ \E p \in Peers : Accept(p)

Spec == Init /\ [][Next]_vars
=============================================================================
