---------------------------- MODULE DeliveryLedger ----------------------------
(***************************************************************************)
(* What acknowledged attachment delivery promises its caller: a delivery   *)
(* id gets one receipt, that receipt names a message the provider was      *)
(* asked to post, it never changes, and the provider is never asked again  *)
(* once it was given out. Before that a retry may ask again: the provider  *)
(* has no idempotency key.                                                 *)
(***************************************************************************)
EXTENDS Naturals

CONSTANTS
  Ids  \* the delivery ids

VARIABLES
  sends,   \* how often the provider was asked to post a delivery
  receipt  \* the message in the receipt given out, 0 while there is none

Init == sends = [i \in Ids |-> 0] /\ receipt = [i \in Ids |-> 0]

Send(i) ==
  /\ receipt[i] = 0
  /\ sends' = [sends EXCEPT ![i] = @ + 1] /\ UNCHANGED receipt

Answer(i, m) ==
  /\ receipt[i] = 0 /\ m \in 1 .. sends[i]
  /\ receipt' = [receipt EXCEPT ![i] = m] /\ UNCHANGED sends

Next == \E i \in Ids : Send(i) \/ \E m \in 1 .. sends[i] : Answer(i, m)

Spec == Init /\ [][Next]_<<sends, receipt>>

=============================================================================
