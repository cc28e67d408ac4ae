------------------------- MODULE MCReceiptDelivery -------------------------
(***************************************************************************)
(* Instances of ReceiptDelivery for TLC.                                   *)
(***************************************************************************)
EXTENDS ReceiptDelivery

CONSTANTS e1, e2, w1, r1

AllWebhook == [e \in Events |-> "webhook"]
=============================================================================
