--------------------------- MODULE AttemptOutcome ---------------------------
(***************************************************************************)
(* What becomes of one delivery attempt: the classification of             *)
(* internal/delivery, by which the worker decides, and the one that        *)
(* explainAttemptOutcome of internal/httpapi reads back from the stored    *)
(* row.                                                                    *)
(*                                                                         *)
(* Code 0 is "no response code".  The text of an error is the set of the   *)
(* words in it that a reader looks for, in lower case.                     *)
(***************************************************************************)
EXTENDS Integers

Kinds == {"none", "retryable", "permanent"}

\* The words explainAttemptOutcome looks for.
TransportWords == {"timeout", "connection", "no such host", "deliver webhook request"}
OutcomeWords == {"permanent", "retryable"} \cup TransportWords

ClassifyHTTPStatus(code) ==
    CASE code \in {408, 425, 429} -> "retryable"
      [] code \in 500..599 -> "retryable"
      [] code \in 400..499 \ {408, 425, 429} -> "permanent"
      [] OTHER -> "none"

\* A failure's text begins with its kind; a failure that NewHTTPFailure does
\* not classify is no failure.
Failed(code, kind, cause) ==
    [code |-> code, failure |-> kind, text |-> IF kind = "none" THEN {} ELSE {kind} \cup cause]

\* What processWebhookMessageWithResult makes of an answer; the reason phrase,
\* which the error quotes, is the destination's own.
ResultOf(code, phrase) ==
    IF code >= 400 THEN Failed(code, ClassifyHTTPStatus(code), phrase)
                   ELSE Failed(code, "none", {})

\* The action, as the status that is recorded for it.
DecideFailureAction(kind, retry, maxRetries) ==
    IF kind # "permanent" /\ retry < maxRetries THEN "RETRYING" ELSE "DEAD_LETTERED"

-----------------------------------------------------------------------------
\* Mutant of ExplainAttemptOutcome: it looks at the code alone.
ExplainByCode(row) ==
    CASE row.code \in 200..299 -> "success"
      [] ClassifyHTTPStatus(row.code) = "retryable" -> "temporary_failure"
      [] ClassifyHTTPStatus(row.code) = "permanent" -> "permanent_failure"
      [] OTHER -> "unknown"

\* The code decides where it can, else the stored outcome and error text.
ExplainAttemptOutcome(row) ==
    CASE row.code \in 200..299 -> "success"
      [] ClassifyHTTPStatus(row.code) = "retryable" -> "temporary_failure"
      [] ClassifyHTTPStatus(row.code) = "permanent" -> "permanent_failure"
      [] row.code \notin 200..299 /\ ClassifyHTTPStatus(row.code) = "none" ->
            IF row.outcome = "SUCCESS" THEN "success"
            ELSE IF "permanent" \in row.text THEN "permanent_failure"
            ELSE IF TransportWords \cap row.text # {} THEN "transport_failure"
            ELSE IF "retryable" \in row.text THEN "temporary_failure"
            ELSE "unknown"
=============================================================================
