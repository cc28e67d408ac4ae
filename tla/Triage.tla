------------------------------- MODULE Triage -------------------------------
(***************************************************************************)
(* The triage of a dead-lettered event: triageRequestFromDLQDetail of      *)
(* internal/httpapi and the classification of the deterministic provider,  *)
(* which is also the fallback of a model provider, in                      *)
(* ai-service/src/eventrail_ai/triage_provider.py.  Code 0 is "no response *)
(* code"; a text is the set of the words in it that _classify looks for,   *)
(* none of them split over two fields of the request.                      *)
(***************************************************************************)
EXTENDS Integers, Sequences

NotReadyCategories == {"destination_validation_error", "authentication_error",
                       "authorization_error", "schema_error", "routing_configuration_error"}

SchemaWords == {"malformed json", "unsupported schema version", "invalid field type"}
ValidationWords == {"invoice_id", "missing required field", "validation failure"}
AuthenticationWords == {"credentials", "unauthorized"}
AuthorizationWords == {"forbidden"}
ThrottlingWords == {"rate limit", "throttled", "retry-after"}
OutageWords == {"timeout", "connection refused", "connection reset", "destination unavailable"}
RoutingWords == {"incorrect destination url", "route not found", "routing configuration"}

\* The words that let _classify speak of a rejection.
RejectionWords ==
    SchemaWords \cup ValidationWords \cup AuthenticationWords \cup AuthorizationWords \cup RoutingWords
TriageWords == RejectionWords \cup ThrottlingWords \cup OutageWords

Coded(attempts) == { i \in DOMAIN attempts : attempts[i].code # 0 }
Erring(attempts) == { i \in DOMAIN attempts : attempts[i].text # {} }
Last(S) == CHOOSE i \in S : \A j \in S : j <= i

\* Mutant of latestResponseCode: the loop runs up from the first attempt.
firstResponseCode(attempts) ==
    IF Coded(attempts) = {} THEN 0
    ELSE attempts[CHOOSE i \in Coded(attempts) : \A j \in Coded(attempts) : i <= j].code

latestResponseCode(attempts) ==
    IF Coded(attempts) = {} THEN 0 ELSE attempts[Last(Coded(attempts))].code

\* The record's last_error only when no attempt has an error.
latestError(attempts, lastError) ==
    IF Erring(attempts) = {} THEN lastError ELSE attempts[Last(Erring(attempts))].text

\* text is that of _signal_text: the error and the fields of the event.
Classify(status, text) ==
    LET Says(words) == words \cap text # {} IN
    IF Says(SchemaWords) THEN "schema_error"
    ELSE IF status = 400 \/ Says(ValidationWords) THEN "destination_validation_error"
    ELSE IF status = 401 \/ Says(AuthenticationWords) THEN "authentication_error"
    ELSE IF status = 403 \/ Says(AuthorizationWords) THEN "authorization_error"
    ELSE IF status = 429 \/ Says(ThrottlingWords) THEN "rate_limited"
    ELSE IF status \in 500..599 \/ Says(OutageWords) THEN "destination_outage"
    ELSE IF status = 404 \/ Says(RoutingWords) THEN "routing_configuration_error"
    ELSE "unknown"

Advice(category) == IF category \in NotReadyCategories THEN "not_ready" ELSE "review_required"
=============================================================================
