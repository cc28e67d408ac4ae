------------------------------ MODULE MCOutbox ------------------------------
(***************************************************************************)
(* Outbox for TLC, and its backoff on a five-bit word.                     *)
(***************************************************************************)
EXTENDS Outbox, OutboxBackoff

CONSTANTS p1, p2

\* Whenever a runner reschedules a row (rescheduleOutboxAfterFailure), the
\* delay is base * 2^(attempt - 1) cut off at max, whatever the settings and
\* the attempts of the row, even where max is the largest machine word.
BackoffIsCapped ==
    \A p \in Publishers : pc[p] = "reschedule" => DelaysAreCapped
=============================================================================
