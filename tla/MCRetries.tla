----------------------------- MODULE MCRetries -----------------------------
(***************************************************************************)
(* The retries of Delivery for TLC, with the delays between them: one      *)
(* process, pages of one entry and one member, and a fault.                *)
(***************************************************************************)
EXTENDS Delivery, RetryBackoff, TLC

CONSTANTS e1, e2, w1, r1

\* e1 goes to a destination, e2 fails whenever it is tried.
Mixed == e1 :> "webhook" @@ e2 :> "force.fail"

\* 1 ms, 500 ms (the default), 10 s, an hour, 2^62 ns and the largest duration.
SomeBases ==
    { <<16960, 15, 0, 0>>, <<25856, 7629, 0, 0>>, TenSeconds,
      <<40960, 12472, 838, 0>>, <<0, 0, 0, 16384>>, <<65535, 65535, 65535, 32767>> }

\* Whenever a worker schedules a retry (scheduleRetry), backoffDelay is at most
\* ten seconds and, as long as 64 bits hold the product, positive and growing
\* with the number of the retry up to that cap, whatever the base.
RetryDelaysGrow ==
    \A w \in Workers : pc[w] = "schedule" => DelaysGrow
=============================================================================
