---------------------------- MODULE MCEventRail ----------------------------
(***************************************************************************)
(* An instance of EventRail for TLC: one request with a key.               *)
(***************************************************************************)
EXTENDS EventRail

CONSTANTS w1, r1, p1

AllWebhook == [e \in Events |-> "webhook"]
OneKey  == [q \in Requests |-> "k"]
OneHash == [q \in Requests |-> "h"]
=============================================================================
