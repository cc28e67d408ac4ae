-------------------------- MODULE ReceiptDelivery --------------------------
(***************************************************************************)
(* The delivery worker and the Receipt Service together: Delivery with     *)
(* every webhook attempt answered by ReceiptServer, over a network that    *)
(* loses requests and answers and delivers requests late.                  *)
(*                                                                         *)
(* A request whose answer is lost, or that the service handles only after  *)
(* the client's 10 seconds, is a transport failure to the worker, which is *)
(* retried, although the service handles the request.                      *)
(***************************************************************************)
EXTENDS Delivery

CONSTANTS
    ValidBody,     \* events whose webhook body carries an invoice_id
    MaxFailNext,   \* bound: fail_next of one control request
    MaxFailures,   \* bound: lost or late messages, and restarts of the service
    MaxChanges     \* bound: control requests

ASSUME ReceiptAssumption ==
    /\ ValidBody \subseteq Events
    /\ MaxFailNext \in Nat /\ MaxFailures \in Nat /\ MaxChanges \in Nat

\* Only a webhook's attempt is a request to the service.
ASSUME WebhookAssumption == \A e \in Events : Kind[e] = "webhook"

VARIABLES
    mode, failNext, seenKeys, total, successful, duplicates, failed, receipts,
    late,          \* entries whose requests are still on their way
    losses, changes, restarts,
    rejected       \* history: events with an attempt that failed for good

Server == INSTANCE ReceiptServer WITH Keys <- Events

serverVars ==
    <<mode, failNext, seenKeys, total, successful, duplicates, failed, receipts>>
netVars == <<late, losses, changes, restarts, rejected>>
systemVars == <<vars, serverVars, netVars>>

SystemInit ==
    /\ Init
    /\ Server!Init
    /\ late = {} /\ losses = 0 /\ changes = 0 /\ restarts = 0 /\ rejected = {}

\* The service handles a request that carries the event's ID as its key.
Request(e) == Server!HandleReceipts(e, e \in ValidBody)

\* Mutant of OutcomeOf: a repeated key is refused.
RepeatRefused(e) ==
    IF e \in ValidBody \ seenKeys /\ Server!ReceiptStatus = 200 THEN "ok" ELSE "permanent"

\* ClassifyHTTPStatus of the service's three answers.
OutcomeOf(e) ==
    IF e \notin ValidBody THEN "permanent"
    ELSE CASE Server!ReceiptStatus = 200 -> "ok"
           [] Server!ReceiptStatus = 400 -> "permanent"
           [] Server!ReceiptStatus = 500 -> "retryable"

\* Mutant of AfterAttempt: the error of client.Do is taken for an answer.
AfterAnyAttempt(outcome, retry) ==
    IF outcome = "permanent" THEN "deadletter" ELSE "delivered"

\* The worker goes on with the outcome of its attempt.
AfterAttempt(outcome, retry) ==
    IF outcome = "ok" THEN "delivered" ELSE DecideFailureAction(outcome, retry)

AttemptComesTo(w, outcome) ==
    /\ Deliver(w)
    /\ pc'[w] = AfterAttempt(outcome, stream[cur[w]].retry)

CanFail == losses + restarts < MaxFailures

Lose == CanFail /\ losses' = losses + 1

Answered(w) ==
    /\ AttemptComesTo(w, OutcomeOf(stream[cur[w]].event))
    /\ Request(stream[cur[w]].event)
    /\ rejected' = IF OutcomeOf(stream[cur[w]].event) = "permanent"
                   THEN rejected \cup {stream[cur[w]].event} ELSE rejected
    /\ UNCHANGED <<late, losses, changes, restarts>>

AnswerLost(w) ==
    /\ AttemptComesTo(w, "retryable")
    /\ Request(stream[cur[w]].event)
    /\ Lose
    /\ UNCHANGED <<late, changes, restarts, rejected>>

\* The request is lost (and never arrives), or arrives too late.
RequestLost(w) ==
    /\ AttemptComesTo(w, "retryable")
    /\ Lose
    /\ late' \in {late, late \cup {cur[w]}}
    /\ UNCHANGED <<serverVars, changes, restarts, rejected>>

Attempt(w) == pc[w] = "deliver" /\ (Answered(w) \/ AnswerLost(w) \/ RequestLost(w))

ArrivesLate(id) ==
    /\ Request(stream[id].event)
    /\ late' = late \ {id}
    /\ UNCHANGED <<vars, losses, changes, restarts, rejected>>

ControlMode ==
    /\ changes < MaxChanges
    /\ changes' = changes + 1
    /\ Server!HandleControlMode
    /\ UNCHANGED <<vars, late, losses, restarts, rejected>>

RestartService ==
    /\ CanFail
    /\ restarts' = restarts + 1
    /\ Server!Restart
    /\ UNCHANGED <<vars, late, losses, changes, rejected>>

\* Every other step of Delivery.
Elsewhere ==
    /\ Next
    /\ ~ \E w \in Workers : Deliver(w)
    /\ UNCHANGED <<serverVars, netVars>>

SystemNext ==
    \/ \E w \in Workers : Attempt(w)
    \/ \E id \in late : ArrivesLate(id)
    \/ ControlMode
    \/ RestartService
    \/ Elsewhere

SystemSpec == SystemInit /\ [][SystemNext]_systemVars

Undisturbed == UNCHANGED <<serverVars, netVars>>

WorkerStep(w) ==
    \/ Attempt(w)
    \/ pc[w] # "deliver" /\ StreamWorker(w) /\ Undisturbed

\* The fairness of Delivery, of the steps as they are here.
SystemFairSpec ==
    /\ SystemSpec
    /\ \A w \in Workers : /\ WF_systemVars(WorkerStep(w))
                          /\ WF_systemVars(RetryPump(w) /\ Undisturbed)
                          /\ WF_systemVars(Start(w) /\ Undisturbed)
    /\ \A r \in Redrives : WF_systemVars(Redrive(r) /\ Undisturbed)
    /\ WF_systemVars(\E id \in pel : ~InHand(id) /\ BecomeIdle(id) /\ Undisturbed)
    /\ WF_systemVars(\E m \in zset : BecomeDue(m) /\ Undisturbed)

-----------------------------------------------------------------------------
(* Properties.                                                             *)

SystemTypeOK ==
    /\ TypeOK
    /\ Server!ServerType
    /\ late \subseteq Ids
    /\ losses \in 0..MaxFailures /\ restarts \in 0..MaxFailures
    /\ changes \in 0..MaxChanges /\ rejected \subseteq Events

\* However often an event is attempted (retries, reclaims after a crash,
\* redrives, replays, late arrivals), a run of the service creates at most
\* one receipt for it: every attempt carries the same event_id as its
\* Idempotency-Key (processWebhookMessageWithResult, applyReceipt).  The
\* counters of GET /stats agree: every request was one of successful,
\* duplicate and failed, and the successful ones are the keys seen.
OneReceiptPerEvent ==
    /\ SystemTypeOK
    /\ \A e \in Events : receipts[e] <= 1 + restarts
    /\ total = successful + duplicates + failed /\ successful = Cardinality(seenKeys)

\* A DELIVERED row is never written for an event the service has not made a
\* receipt for, whatever became of requests and answers.
DeliveredHasReceipt == \A e \in Events : Delivered(e) => receipts[e] > 0

\* An event that only ever failed retryably (5xx answers, lost or late ones)
\* is dead-lettered after the whole budget, never before: an entry of it with
\* each retry number from 0 to MaxRetries was taken up by a worker
\* (DecideFailureAction, scheduleRetry).
RetryBudgetSpent ==
    \A e \in Events \ rejected : dlq[e] # "none" =>
        \A n \in 0..MaxRetries : \E id \in Ids :
            /\ stream[id].event = e /\ stream[id].retry = n
            /\ Row(id, "PROCESSING") \in history

Healthy == mode = "healthy" /\ failNext = 0

Unread(e) == \E id \in Ids : id > lastDelivered /\ stream[id].event = e

\* Recovery: a redriven event whose entry is still to be read is delivered,
\* once the destination works and stays so and nothing fails any more.
RedriveRecovers ==
    \A e \in ValidBody :
        (dlq[e] = "REDRIVEN" /\ Unread(e) /\ Healthy /\ ~CanFail)
            ~> (Delivered(e) \/ ~Healthy \/ Skipped(e))

-----------------------------------------------------------------------------
(* Inductive strengthening, for the proofs in ReceiptProofs.               *)

\* The counters, and a receipt for each run that a key is not remembered in.
Counted ==
    /\ IsFiniteSet(seenKeys) /\ successful = Cardinality(seenKeys)
    /\ total = successful + duplicates + failed
    /\ \A e \in Events : receipts[e] <= (IF e \in seenKeys THEN 1 ELSE 0) + restarts

\* A key that is remembered, and an attempt that was answered 200, have
\* their receipt.
Receipted ==
    /\ \A e \in seenKeys : receipts[e] > 0
    /\ \A w \in Workers : pc[w] = "delivered" => receipts[stream[cur[w]].event] > 0
    /\ DeliveredHasReceipt

\* An entry of the event with this retry number was taken up.
Tried(e, n) ==
    \E id \in Ids : /\ stream[id].event = e /\ stream[id].retry = n
                    /\ Row(id, "PROCESSING") \in history

\* A message carries a retry number only after all the smaller ones.
Climbed(m) == \A n \in 0..MaxRetries : n < m.retry => Tried(m.event, n)

\* The retry numbers in Redis and in the pumps' hands are climbed to, and a
\* message is dead-lettered for a permanent failure or at the last number.
Budgeted ==
    /\ \A id \in Ids : Climbed(stream[id])
    /\ \A m \in zset : Climbed(m)
    /\ \A w \in Workers : \A m \in members[w] : Climbed(m)
    /\ \A w \in Workers : pc[w] \in {"deadletter", "dead"} =>
        \/ stream[cur[w]].event \in rejected
        \/ stream[cur[w]].retry = MaxRetries
    /\ RetryBudgetSpent
=============================================================================
