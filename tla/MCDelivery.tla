----------------------------- MODULE MCDelivery -----------------------------
(***************************************************************************)
(* An instance of Delivery for TLC.                                        *)
(***************************************************************************)
EXTENDS Delivery, TLC

CONSTANTS e1, w1, w2, r1, r2

AllWebhook == [e \in Events |-> "webhook"]

\* A bound of this instance: behaviours with a retry have a redrive or a fault,
\* not both, and no duplicates of the retried entry; those in which the
\* destination refuses for good have all.
RetryBound ==
    (zset # {} \/ \E id \in Ids : stream[id].retry > 0) =>
        redrives + disturbances <= 1 /\ Len(stream) <= 2 + redrives

Symmetric == Permutations(Workers) \cup Permutations(Redrives)
=============================================================================
