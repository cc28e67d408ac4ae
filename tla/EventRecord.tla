----------------------------- MODULE EventRecord -----------------------------
(***************************************************************************)
(* What the store keeps of one event while it is delivered, retried,       *)
(* dead-lettered, redriven and replayed (internal/deliveryworker and       *)
(* internal/operations), and what its readers make of the rows: the        *)
(* explanation (AttemptOutcome, ExplainSnapshot) and the triage (Triage).  *)
(*                                                                         *)
(* The event is on the stream once at a time and a read is one step: the   *)
(* interleavings are those of Delivery and StatusView.                     *)
(***************************************************************************)
EXTENDS AttemptOutcome, ExplainSnapshot, Triage

CONSTANTS
    Codes,       \* the status codes the destination may answer
    Texts,       \* the texts, as sets of words, that clients and destinations may choose
    MaxRetries,
    MaxAttempts  \* bound: delivery attempts

Words == OutcomeWords \cup TriageWords

ASSUME EventRecordAssumption ==
    /\ Codes \subseteq 100..999 /\ Texts \subseteq SUBSET Words
    /\ MaxRetries \in Nat /\ MaxAttempts \in Nat

VARIABLES
    kind,      \* "webhook", "malformed" (one without a usable payload), "force.fail", "other"
    fields,    \* the words of its type, source, business type and schema version
    history,   \* event_status_history in the order of the reader
    attempts,  \* delivery_attempts by started_at, with the failure the worker acted on
    retry,     \* the retry field of the entry that is worked on
    dlq        \* the dlq_records row

recordVars == <<kind, fields, history, attempts, retry, dlq>>

Current == history[Len(history)].status

\* The rows of the ingestion transaction and of the outbox.
RecordInit ==
    /\ kind \in {"webhook", "malformed", "force.fail", "other"}
    /\ fields \in Texts
    /\ history = [i \in 1..3 |-> [status |-> <<"STORED", "PENDING_PUBLICATION", "PUBLISHED">>[i],
                                  next |-> 0]]
    /\ attempts = <<>>
    /\ retry = 0
    /\ dlq = [status |-> "none", error |-> {}]

RecordTypeOK ==
    /\ \A i \in DOMAIN history : history[i].next \in 0..MaxRetries
    /\ \A i \in DOMAIN attempts :
        attempts[i] \in [number : 1..MaxRetries + 1, outcome : {"SUCCESS", "FAILED"},
                         code : Codes \cup {0}, text : SUBSET Words, failure : Kinds]
    /\ retry \in 0..MaxRetries
    /\ dlq \in [status : {"none", "OPEN", "REDRIVEN"}, error : SUBSET Words]

InsertStatusHistory(status, next) ==
    history' = Append(history, [status |-> status, next |-> next])

\* A worker begins with an entry: published, due again, redriven or replayed.
RecordProcessing ==
    /\ Current # "PROCESSING" /\ Len(attempts) < MaxAttempts
    /\ InsertStatusHistory("PROCESSING", 0)
    /\ retry' = IF Current = "RETRYING" THEN retry ELSE 0
    /\ UNCHANGED <<kind, fields, attempts, dlq>>

\* insertDeliveryAttempt: attempt_number is retry + 1.
InsertDeliveryAttempt(result) ==
    attempts' = Append(attempts,
        [number |-> retry + 1, outcome |-> IF result.failure = "none" THEN "SUCCESS" ELSE "FAILED",
         code |-> result.code, text |-> result.text, failure |-> result.failure])

Delivered(result) ==
    /\ result.failure = "none"
    /\ InsertStatusHistory("DELIVERED", 0)
    /\ UNCHANGED <<retry, dlq>>

HandleDeliveryFailure(result) ==
    /\ result.failure # "none"
    /\ CASE DecideFailureAction(result.failure, retry, MaxRetries) = "RETRYING" ->
              /\ InsertStatusHistory("RETRYING", retry + 1)
              /\ retry' = retry + 1
              /\ UNCHANGED dlq
         [] DecideFailureAction(result.failure, retry, MaxRetries) = "DEAD_LETTERED" ->
              /\ InsertStatusHistory("DEAD_LETTERED", 0)
              /\ dlq' = [status |-> "OPEN", error |-> result.text]
              /\ UNCHANGED retry

\* One delivery attempt with the rows that its outcome leaves.
Attempt(type, result) ==
    /\ Current = "PROCESSING" /\ kind = type
    /\ InsertDeliveryAttempt(result)
    /\ Delivered(result) \/ HandleDeliveryFailure(result)
    /\ UNCHANGED <<kind, fields>>

Respond == \E code \in Codes, phrase \in Texts : Attempt("webhook", ResultOf(code, phrase))

\* What the HTTP client says of a failed request.
Causes == {{}, {"timeout"}, {"connection", "connection refused"},
           {"connection", "connection reset"}, {"no such host"}}

\* The HTTP client returns an error.  The error quotes the address, the one of
\* the payload or the one that a redirect led to.
TransportFails ==
    \E cause \in Causes, address \in Texts :
        Attempt("webhook",
                Failed(0, "retryable", {"deliver webhook request"} \cup cause \cup address))

\* No request can be made of the payload; the error may quote the address.
Malformed == \E address \in Texts \cup {{}} : Attempt("malformed", Failed(0, "permanent", address))
ForcedFailure == Attempt("force.fail", Failed(0, "retryable", {}))
NothingToDo == Attempt("other", Failed(0, "none", {}))

Redrive ==
    /\ dlq.status = "OPEN" /\ Current \in {"DEAD_LETTERED", "DELIVERED"}
    /\ Len(attempts) < MaxAttempts
    /\ dlq' = [dlq EXCEPT !.status = "REDRIVEN"]
    /\ InsertStatusHistory("REDRIVEN", 0)
    /\ UNCHANGED <<kind, fields, attempts, retry>>

RecordNext ==
    \/ RecordProcessing \/ Redrive
    \/ Respond \/ TransportFails \/ Malformed \/ ForcedFailure \/ NothingToDo

RecordSpec == RecordInit /\ [][RecordNext]_recordVars

-----------------------------------------------------------------------------
(* Properties.                                                             *)

\* What the explanation is told of an attempt, read back from the stored code,
\* outcome and error text, is what the worker acted on; only a transport
\* failure whose text has the word "permanent" in its address is told as a
\* permanent one.  And an answer that reports an error of the client or the
\* server is never taken for a delivery: no code of 400..599 falls through to
\* NewHTTPFailure's nil error.
ExplainAgreesWithWorker ==
    \A i \in DOMAIN attempts :
        /\ ExplainAttemptOutcome(attempts[i]) \in
            CASE attempts[i].failure = "none" -> {"success"}
              [] attempts[i].failure = "permanent" -> {"permanent_failure"}
              [] attempts[i].failure = "retryable" ->
                    IF attempts[i].code = 0 /\ "permanent" \in attempts[i].text
                    THEN {"permanent_failure"} ELSE {"temporary_failure", "transport_failure"}
        /\ attempts[i].code \in 400..599 => attempts[i].outcome = "FAILED"

\* What the service's model accepts: at most MaxItems rows and attempts, and
\* every attempt with a number of its own, although the stored numbers start
\* again at each redrive.  As long as they fit, the acceptance state, every
\* recovery marker and the newest row survive the cut, and no room is left
\* unused.  And the variables have their types.
SnapshotWithinLimits ==
    /\ RecordTypeOK
    /\ Cardinality(BoundExplainHistory(history)) <= MaxItems
    /\ Cardinality(BoundExplainAttempts(attempts)) <= MaxItems
    /\ \A i, j \in BoundExplainAttempts(attempts) :
        i # j => AttemptNumber(attempts, i) # AttemptNumber(attempts, j)
    /\ Cardinality(Important(history)) < MaxItems =>
        /\ Important(history) \cup {Len(history)} \subseteq BoundExplainHistory(history)
        /\ Len(history) >= MaxItems => Cardinality(BoundExplainHistory(history)) = MaxItems

\* The RETRYING rows up to row i of the pass through the worker it belongs to:
\* a pass starts with an entry that has retry 0.
PassRetries(i) ==
    { j \in Retrying(history) :
        j <= i /\ \A k \in j..i : history[k].status \in {"PROCESSING", "RETRYING"} }

\* The retries that retryCountFromHistory reports are those of one pass, the
\* one with the most RETRYING rows, and not a sum over redrives and replays.
RetryCountIsLongestPass ==
    /\ \A i \in Retrying(history) : Cardinality(PassRetries(i)) <= RetryCount(history)
    /\ RetryCount(history) > 0 =>
        \E i \in Retrying(history) : Cardinality(PassRetries(i)) = RetryCount(history)

\* A triage request for an event whose last attempt failed.
Triaged == dlq.status # "none" /\ attempts[Len(attempts)].failure # "none"
LatestText == fields \cup latestError(attempts, dlq.error)
TriageCategory == Classify(latestResponseCode(attempts), LatestText)

\* When the destination answered the last failed attempt, the triage of the
\* event is about that answer, whatever earlier passes met: neither the code
\* nor the error of an older attempt reaches the request that
\* triageRequestFromDLQDetail builds.  And an event is called "not_ready" for
\* redrive only when some attempt of it was rejected for good, or when the
\* newest error or a field of the event speaks of a rejection: the codes of
\* transport failures, 5xx answers and throttling alone never lead _classify
\* to advise against a redrive.
TriageFollowsAttempts ==
    /\ (Triaged /\ attempts[Len(attempts)].code # 0) =>
        TriageCategory = Classify(attempts[Len(attempts)].code,
                                  fields \cup attempts[Len(attempts)].text)
    /\ (dlq.status # "none" /\ Advice(TriageCategory) = "not_ready") =>
        \/ \E i \in DOMAIN attempts : attempts[i].failure = "permanent"
        \/ RejectionWords \cap LatestText # {}

\* What the triage tests say of an event whose last error is a timeout without
\* a response code, and that speaks of no rejection: the destination is out.
\* latestResponseCode skips the attempts that have no code, so the timeout is
\* paired with the code of an earlier pass.
TimeoutIsOutage ==
    (/\ Triaged /\ Current = "DEAD_LETTERED"
     /\ attempts[Len(attempts)].code = 0 /\ "timeout" \in attempts[Len(attempts)].text
     /\ (RejectionWords \cup ThrottlingWords) \cap LatestText = {}) =>
        TriageCategory = "destination_outage"
=============================================================================
