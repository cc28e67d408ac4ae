---------------------------- MODULE Explanation ----------------------------
(***************************************************************************)
(* POST /events/{id}/explain from the API's handler through its client to  *)
(* the explainer engine of the AI service and back: retrieval, the         *)
(* configured provider, validation, the fallbacks, the validation in the   *)
(* client, and the timeouts of the two sides.                              *)
(*                                                                         *)
(* The snapshot is one that the service accepts: StatusView shows that it  *)
(* never contradicts itself and EventRecord that it is within the limits,  *)
(* so that only a response code above 599 makes the service refuse one.    *)
(* Texts are abstracted to whether validate_explanation finds a forbidden  *)
(* phrase in them, citations to runbook chunks, evidence to its number of  *)
(* items, time to units of which each provider call takes some.            *)
(***************************************************************************)
EXTENDS Integers, FiniteSets

CONSTANTS
    OpenAITimeout,    \* OPENAI_TIMEOUT_SECONDS
    OllamaTimeout,    \* OLLAMA_TIMEOUT_SECONDS
    ClientTimeout,    \* AI_SERVICE_TIMEOUT_MS, in seconds
    Waits,            \* bound: waits of one provider call
    Chunks,           \* chunks of the runbooks
    Attempts          \* numbers of delivery attempts

ASSUME ExplanationAssumption ==
    /\ {OpenAITimeout, OllamaTimeout, ClientTimeout, Waits} \subseteq Nat
    /\ Chunks # {} /\ Attempts \subseteq 0..20

TopK == 3
MaxEvidence == 10

ProviderTimeout ==
    [deterministic |-> 0, openai |-> OpenAITimeout, ollama |-> OllamaTimeout]

VARIABLES
    provider,    \* the provider the service is configured with
    up,          \* the AI service answers at all
    snapshot, retrieved,
    stage,          \* where the request is
    time,        \* units since the client sent it
    draft,       \* what the provider (or a fallback) has made
    answer       \* the response of the handler

explainVars == <<provider, up, snapshot, retrieved, stage, time, draft, answer>>

\* Snapshots: failed is the kind of the attempts that failed.
Snapshots ==
    { s \in [delivered : BOOLEAN, dlq : BOOLEAN, redrives : 0..1, retries : 0..1,
             attempts : Attempts, failed : {"none", "temporary", "validation"}] :
        /\ s.redrives > 0 => s.dlq
        /\ s.delivered => s.attempts > 0
        /\ s.failed # "none" => s.attempts > (IF s.delivered THEN 1 ELSE 0)
        /\ s.dlq => s.failed # "none" }

\* build_evidence: the outcome, the attempts, retries, the dead-letter
\* workflow and redrives, cut after ten items.
BuildEvidence(s) ==
    LET items == s.attempts + s.retries
                 + (IF s.delivered THEN 1 ELSE 0) + (IF s.dlq THEN 3 ELSE 1)
    IN  IF items < MaxEvidence THEN items ELSE MaxEvidence

\* recovery_status_for_request, which every other path uses.
RecoveryStatus(s) ==
    IF s.delivered THEN IF s.redrives > 0 THEN "completed" ELSE "not_needed"
    ELSE IF s.redrives = 0 /\ s.dlq THEN "not_ready"
    ELSE "review_required"

\* Mutant of DeterministicStatus: the automatic recovery is looked for first.
RecoveryFirst(s) ==
    IF s.delivered /\ s.retries > 0 /\ s.failed = "temporary" THEN "not_needed"
    ELSE RecoveryStatus(s)

\* The recovery_status of the texts of DeterministicExplanationProvider, in
\* the order in which it tries them.
DeterministicStatus(s) ==
    IF s.delivered /\ s.redrives > 0 THEN "completed"
    ELSE IF s.delivered /\ s.retries > 0 /\ s.failed = "temporary" THEN "not_needed"
    ELSE IF s.delivered /\ s.retries = 0 /\ s.attempts = 1 THEN "not_needed"
    ELSE IF ~s.delivered /\ s.dlq /\ s.redrives = 0 /\ s.failed = "validation" THEN "not_ready"
    ELSE RecoveryStatus(s)

NoDraft == [mode |-> "none"]

Draft(mode, by, citations, text, status) ==
    [mode |-> mode, provider |-> by, citations |-> citations, text |-> text,
     status |-> status, evidence |-> BuildEvidence(snapshot)]

ExplainInit ==
    /\ provider \in DOMAIN ProviderTimeout /\ up \in BOOLEAN
    /\ snapshot \in Snapshots
    /\ retrieved = {}
    /\ stage = "send" /\ time = 0
    /\ draft = NoDraft
    /\ answer = 0

-----------------------------------------------------------------------------
(* The AI service.                                                         *)

\* explain: retrieve returns the best chunks of the index.
Retrieve ==
    /\ stage = "send" /\ up
    /\ \E found \in SUBSET Chunks :
        /\ Cardinality(found) = (IF Cardinality(Chunks) < TopK THEN Cardinality(Chunks) ELSE TopK)
        /\ retrieved' = found
    /\ stage' = "generate"
    /\ UNCHANGED <<provider, up, snapshot, time, draft, answer>>

\* The constructor of EventExplanation checks the number of items.
Constructible(d) == d.evidence \in 1..MaxEvidence /\ d.citations # {}

\* The time a provider call may take: the timeout given to the HTTP client
\* holds for the connection, for every write and for every read on its own.
CallTimes(p) == 0..Waits * ProviderTimeout[p]

\* generate of the configured provider takes its time and returns something
\* or raises; a draft cites one to three IDs, perhaps of other chunks.
Generate ==
    /\ stage = "generate"
    /\ IF provider = "deterministic"
       THEN /\ \E c \in retrieved : draft' = Draft("deterministic_runbook", "deterministic",
                                                  {c}, "safe", DeterministicStatus(snapshot))
            /\ UNCHANGED time
       ELSE /\ \E c \in SUBSET Chunks, text \in {"safe", "forbidden"} :
                /\ Cardinality(c) \in 1..3
                /\ draft' = Draft("llm_grounded", provider, c, text, RecoveryStatus(snapshot))
            /\ \E d \in CallTimes(provider) : time' = time + d
    /\ stage' = IF Constructible(draft') THEN "validate" ELSE "fallback"
    /\ UNCHANGED <<provider, up, snapshot, retrieved, answer>>

\* The provider fails: an outage, a refusal, no JSON, or its timeout.
GenerateRaises ==
    /\ stage = "generate" /\ provider # "deterministic"
    /\ \E d \in CallTimes(provider) : time' = time + d
    /\ stage' = "fallback"
    /\ UNCHANGED <<provider, up, snapshot, retrieved, draft, answer>>

\* Mutant of Valid: what comes from a model is trusted.
ValidUnlessModel(d) == d.mode = "llm_grounded" \/ d.citations \subseteq retrieved

\* validate_explanation.
Valid(d) == d.citations \subseteq retrieved /\ d.text = "safe"

Validate ==
    /\ stage = "validate"
    /\ stage' = IF Valid(draft) THEN "return" ELSE "fallback"
    /\ UNCHANGED <<provider, up, snapshot, retrieved, time, draft, answer>>

\* _fallback: the deterministic provider, marked as a fallback; the same
\* with the generic explanation when there is no fallback provider.
Fallback ==
    /\ stage = "fallback"
    /\ \E c \in retrieved :
        draft' = IF provider = "deterministic"
                 THEN Draft("deterministic_runbook", "deterministic", {c}, "safe",
                            RecoveryStatus(snapshot))
                 ELSE Draft("deterministic_fallback", "deterministic", {c}, "safe",
                            DeterministicStatus(snapshot))
    /\ stage' = IF Constructible(draft') THEN "return" ELSE "error"
    /\ UNCHANGED <<provider, up, snapshot, retrieved, time, answer>>

-----------------------------------------------------------------------------
(* The client and the handler of the API.                                  *)

Answer(code) == answer' = code /\ stage' = "done"

\* Mutant of Supported: the mode of a fallback is not known.
SupportedModes(d) == d.mode \in {"deterministic_runbook", "llm_grounded"}

\* isSupportedAnalysisMode, isSupportedProvider, isSupportedRecoveryStatus.
Supported(d) ==
    /\ d.mode \in {"deterministic_runbook", "deterministic_fallback", "llm_grounded"}
    /\ d.provider \in {"deterministic", "openai", "ollama"}
    /\ d.status \in {"not_needed", "not_ready", "review_required", "completed"}

\* validateExplainResponse.
ValidResponse(d) ==
    /\ Supported(d)
    /\ d.evidence \in 1..10
    /\ d.citations # {}

InTime == time < ClientTimeout

Receive ==
    /\ stage = "return" /\ InTime
    /\ IF ValidResponse(draft) THEN Answer(200) ELSE Answer(502)
    /\ UNCHANGED <<provider, up, snapshot, retrieved, time, draft>>

\* An error of the service, or client.Do gives up: what the service does
\* later is not looked at.
NoExplanation ==
    /\ stage \in {"return", "error"}
    /\ stage = "error" \/ ~InTime
    /\ Answer(503)
    /\ UNCHANGED <<provider, up, snapshot, retrieved, time, draft>>

Unreachable ==
    /\ stage = "send" /\ ~up
    /\ Answer(503)
    /\ UNCHANGED <<provider, up, snapshot, retrieved, time, draft>>

ExplainNext ==
    \/ Retrieve \/ Generate \/ GenerateRaises \/ Validate \/ Fallback
    \/ Receive \/ NoExplanation \/ Unreachable

ExplainSpec == ExplainInit /\ [][ExplainNext]_explainVars /\ WF_explainVars(ExplainNext)

-----------------------------------------------------------------------------
(* Properties.                                                             *)

ExplainTypeOK ==
    /\ up \in BOOLEAN /\ snapshot \in Snapshots /\ retrieved \subseteq Chunks
    /\ stage \in {"send", "generate", "validate", "fallback", "return", "error", "done"}
    /\ time \in CallTimes(provider)
    /\ draft = NoDraft \/ (draft.evidence \in Nat /\ draft.citations \subseteq Chunks)
    /\ answer \in {0, 200, 502, 503}

\* An outage, a refusal or nonsense of the model never costs the operator
\* the explanation: while the AI service itself is up, every valid snapshot
\* is explained, unless the provider keeps the service until the client has
\* given up.  (One wait of OpenAI is shorter than the client's ten seconds;
\* two of them, or one of Ollama, are not, and the fallback comes too late.)
ExplainedWhileUp == up ~> (answer = 200 \/ (answer = 503 /\ ~InTime))

\* What reaches the operator cites only runbooks that were retrieved and
\* says nothing forbidden, whichever path produced it.  And the variables have
\* their types.
AnswerIsGrounded ==
    /\ ExplainTypeOK
    /\ answer = 200 => draft.citations \subseteq retrieved /\ draft.text = "safe"

\* The recovery status shown for an event depends on the event alone, not on
\* the provider that was configured, answered or failed.
StatusIndependentOfProvider ==
    answer = 200 => draft.status = RecoveryStatus(snapshot)
=============================================================================
