--------------------------- MODULE EventLifecycle ---------------------------
(***************************************************************************)
(* What EventRail promises about an event as a whole: once it is accepted  *)
(* it is never forgotten.  It is delivered, or it is open in the           *)
(* dead-letter table where an operator finds it; a redrive closes the      *)
(* record and the promise starts anew.  The one way out is an operator who *)
(* moves the consumer group's cursor past it.  EventRail is shown to       *)
(* implement this.                                                         *)
(***************************************************************************)
CONSTANT Events

VARIABLES
    accepted,   \* events that were stored
    delivered,  \* events with a delivery on record
    open,       \* events with an open dead-letter record
    skipped     \* events an operator moved the cursor past

vars == <<accepted, delivered, open, skipped>>

Init == accepted = {} /\ delivered = {} /\ open = {} /\ skipped = {}

Accept(e) ==
    /\ accepted' = accepted \cup {e}
    /\ UNCHANGED <<delivered, open, skipped>>

\* Delivery is at least once, and only of what was accepted.
Deliver(e) ==
    /\ e \in accepted
    /\ delivered' = delivered \cup {e}
    /\ UNCHANGED <<accepted, open, skipped>>

DeadLetter(e) ==
    /\ e \in accepted
    /\ open' = open \cup {e}
    /\ UNCHANGED <<accepted, delivered, skipped>>

Redrive(e) ==
    /\ e \in open
    /\ open' = open \ {e}
    /\ UNCHANGED <<accepted, delivered, skipped>>

Skip ==
    /\ skipped' \in SUBSET accepted
    /\ skipped \subseteq skipped'
    /\ UNCHANGED <<accepted, delivered, open>>

Next ==
    \/ \E e \in Events : Accept(e) \/ Deliver(e) \/ DeadLetter(e) \/ Redrive(e)
    \/ Skip

Settled(e) == e \in delivered \cup open \cup skipped

\* What never happens: the steps that an event may take.
Safety == Init /\ [][Next]_vars

\* And an event that is not settled is settled later.
Spec ==
    /\ Safety
    /\ \A e \in Events : (e \in accepted /\ ~Settled(e)) ~> Settled(e)
=============================================================================
