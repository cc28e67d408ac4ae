--------------------------- MODULE DatabaseProofs ---------------------------
(***************************************************************************)
(* Proofs about the database and the processes that share it.              *)
(*                                                                         *)
(* Deployment, for any number of processes, files and requests: the        *)
(* migrations are applied in order and once (AppliedInOrder), requests are *)
(* accepted only in front of a running pipeline (AcceptingMeansRunning),   *)
(* and nothing uses a client that was closed under it                      *)
(* (CallsUseOpenClients).  SchemaInv is the inductive invariant of the     *)
(* migrations: what a process has in its map is a prefix of the rows, and  *)
(* a transaction that is open excludes every other one with its file.      *)
(* LifeInv is that of the watched process: what main has started and not   *)
(* yet stopped, at each statement.                                         *)
(*                                                                         *)
(* EventRecord, for any codes, limits and numbers of retries: what the     *)
(* readers of an event's rows make of them.  RecordInv says of each row    *)
(* what its writer knew, and counts the retries of the pass in hand.       *)
(***************************************************************************)
EXTENDS Deployment, EventRecord, FiniteSetTheorems, WellFoundedInduction, TLAPS

-----------------------------------------------------------------------------
(* The record of an event, and what its readers make of it.                *)

LEMMA LeastNat ==
    ASSUME NEW S \in SUBSET Nat, S # {}
    PROVE  \E m \in S : \A k \in S : ~(k < m)
<1> DEFINE R == OpToRel(<, Nat)
<1>1. IsWellFoundedOn(R, Nat)
  BY NatLessThanWellFounded, Zenon
<1>2. \A m, k \in Nat : k < m => <<k, m>> \in R
  BY Zenon DEF OpToRel
<1>3. \E m \in S : \A k \in S : ~(<<k, m>> \in R)
  <2> HIDE DEF R
  <2> QED
    BY <1>1, WFMin, Zenon
<1> QED
  BY <1>2, <1>3, Zenon

LEMMA GreatestNat ==
    ASSUME NEW top \in Nat, NEW S \in SUBSET (0..top), S # {}
    PROVE  \E m \in S : \A k \in S : k <= m
<1> DEFINE D == { top - k : k \in S }
<1>1. D \in SUBSET Nat /\ D # {}
  <2>1. \A k \in 0..top : top - k \in Nat
    OBVIOUS
  <2> QED
    BY Zenon, <2>1
<1>2. PICK d \in D : \A k \in D : ~(k < d)
  <2> HIDE DEF D
  <2> QED
    BY Zenon, <1>1, LeastNat
<1>3. PICK m \in S : d = top - m
  BY Zenon
<1>4. ASSUME NEW k \in S PROVE k <= m
  <2>1. ~(top - k < top - m)
    BY Zenon, <1>2, <1>3
  <2>2. k \in 0..top /\ m \in 0..top
    BY Zenon
  <2> QED
    BY <2>1, <2>2
<1> QED
  BY Zenon, <1>4

\* The last position with some property.
LEMMA LastIs ==
    ASSUME NEW top \in Nat, NEW S \in SUBSET (1..top), S # {}
    PROVE  Last(S) \in S /\ (top \in S => Last(S) = top)
<1>1. S \in SUBSET (0..top)
  OBVIOUS
<1>2. \E m \in S : \A k \in S : k <= m
  BY Zenon, <1>1, GreatestNat
<1>3. Last(S) \in S /\ \A k \in S : k <= Last(S)
  BY Zenon, <1>2 DEF Last
<1>4. ASSUME top \in S PROVE Last(S) = top
  <2>1. top <= Last(S) /\ Last(S) \in 1..top
    BY ZenonT(60), <1>3, <1>4
  <2> QED
    BY <2>1
<1> QED
  BY Zenon, <1>3, <1>4

\* The results of a delivery attempt.
Result(r) ==
    \/ \E code \in Codes, phrase \in Texts : r = ResultOf(code, phrase)
    \/ \E cause \in Causes, address \in Texts :
           r = Failed(0, "retryable", {"deliver webhook request"} \cup cause \cup address)
    \/ \E address \in Texts \cup {{}} : r = Failed(0, "permanent", address)
    \/ r = Failed(0, "retryable", {})
    \/ r = Failed(0, "none", {})

\* What a reader of an attempt relies on.
Agrees(a) ==
    /\ ExplainAttemptOutcome(a) \in
            CASE a.failure = "none" -> {"success"}
              [] a.failure = "permanent" -> {"permanent_failure"}
              [] a.failure = "retryable" ->
                    IF a.code = 0 /\ "permanent" \in a.text
                    THEN {"permanent_failure"} ELSE {"temporary_failure", "transport_failure"}
    /\ a.code \in 400..599 => a.outcome = "FAILED"

NotRejected(code) == code \notin {400, 401, 403, 404}

Tells(a) ==
    /\ a.failure # "none" => a.text # {}
    /\ a.failure # "permanent" => NotRejected(a.code)

RowOf(n, r) ==
    [number |-> n, outcome |-> IF r.failure = "none" THEN "SUCCESS" ELSE "FAILED",
     code |-> r.code, text |-> r.text, failure |-> r.failure]

AttemptRow == [number : 1..MaxRetries + 1, outcome : {"SUCCESS", "FAILED"},
               code : Codes \cup {0}, text : SUBSET Words, failure : Kinds]

LEMMA ClassifyIs ==
    ASSUME NEW code \in Int
    PROVE  \/ code \in {408, 425, 429} \cup 500..599 /\ ClassifyHTTPStatus(code) = "retryable"
           \/ code \in 400..499 \ {408, 425, 429} /\ ClassifyHTTPStatus(code) = "permanent"
           \/ code \notin 400..599 /\ ClassifyHTTPStatus(code) = "none"
  BY DEF ClassifyHTTPStatus

LEMMA WordsAre ==
    /\ {"retryable", "permanent", "deliver webhook request"} \subseteq Words
    /\ \A cause \in Causes : cause \subseteq Words
<1>1. {"retryable", "permanent", "deliver webhook request", "timeout", "connection", "no such host",
       "connection refused", "connection reset"} \subseteq Words
  BY Zenon DEF Words, OutcomeWords, TransportWords, TriageWords, OutageWords
<1>2. ASSUME NEW cause \in Causes, NEW word \in cause PROVE word \in Words
  <2>1. word \in {"timeout", "connection", "connection refused", "connection reset", "no such host"}
    BY Zenon, <1>2 DEF Causes
  <2> QED
    BY Zenon, <2>1, <1>1
<1> QED
  BY Zenon, <1>1, <1>2

\* The code of an answer decides alone where it can.
LEMMA CodeDecides ==
    ASSUME NEW a, a.code \in Int
    PROVE  /\ ClassifyHTTPStatus(a.code) = "retryable" => ExplainAttemptOutcome(a) = "temporary_failure"
           /\ ClassifyHTTPStatus(a.code) = "permanent" => ExplainAttemptOutcome(a) = "permanent_failure"
           /\ (ClassifyHTTPStatus(a.code) = "none" /\ a.outcome = "SUCCESS") =>
                  ExplainAttemptOutcome(a) = "success"
<1>1. ClassifyHTTPStatus(a.code) \in {"retryable", "permanent"} => a.code \notin 200..299
  BY ClassifyIs
<1>2. CASE ClassifyHTTPStatus(a.code) = "retryable"
  BY <1>1, <1>2 DEF ExplainAttemptOutcome
<1>3. CASE ClassifyHTTPStatus(a.code) = "permanent"
  BY <1>1, <1>3 DEF ExplainAttemptOutcome
<1>4. CASE ClassifyHTTPStatus(a.code) = "none"
  BY <1>4 DEF ExplainAttemptOutcome
<1> QED
  BY Zenon, <1>2, <1>3, <1>4, ClassifyIs

\* Without a code the stored outcome and error text do.
LEMMA TextDecides ==
    ASSUME NEW a, a.code = 0, a.outcome = "FAILED"
    PROVE  ExplainAttemptOutcome(a) =
               IF "permanent" \in a.text THEN "permanent_failure"
               ELSE IF TransportWords \cap a.text # {} THEN "transport_failure"
               ELSE IF "retryable" \in a.text THEN "temporary_failure"
               ELSE "unknown"
<1>1. ClassifyHTTPStatus(a.code) = "none" /\ a.code \notin 200..299
  BY ClassifyIs
<1> QED
  BY <1>1 DEF ExplainAttemptOutcome

LEMMA ResultIs ==
    ASSUME NEW r, Result(r)
    PROVE  \/ /\ r.code \in Codes /\ r.code >= 400 /\ r.failure = ClassifyHTTPStatus(r.code)
              /\ r.text \in SUBSET Words /\ (r.failure # "none" => r.text # {})
           \/ r.code \in Codes /\ r.code < 400 /\ r.failure = "none" /\ r.text = {}
           \/ r.code = 0 /\ r.failure = "none" /\ r.text = {}
           \/ /\ r.code = 0 /\ r.failure = "permanent"
              /\ r.text \in SUBSET Words /\ "permanent" \in r.text
           \/ /\ r.code = 0 /\ r.failure = "retryable" /\ r.text \in SUBSET Words
              /\ r.text = {"retryable"} \/ "deliver webhook request" \in r.text
<1>0. Codes \subseteq Int /\ \A text \in Texts : text \in SUBSET Words
  BY EventRecordAssumption
<1>1. ASSUME NEW code \in Codes, NEW phrase \in Texts, r = ResultOf(code, phrase), code >= 400
      PROVE  /\ r.code = code /\ r.failure = ClassifyHTTPStatus(code)
             /\ r.text \in SUBSET Words /\ (r.failure # "none" => r.text # {})
  <2>1. /\ r.code = code /\ r.failure = ClassifyHTTPStatus(code)
        /\ r.text = IF r.failure = "none" THEN {} ELSE {r.failure} \cup phrase
    BY Zenon, <1>1 DEF ResultOf, Failed
  <2>2. r.failure \in {"none", "retryable", "permanent"}
    BY <2>1, <1>0, ClassifyIs
  <2>3. r.text \in SUBSET Words
    BY Zenon, <2>1, <2>2, <1>0, WordsAre
  <2> QED
    BY Zenon, <2>1, <2>3
<1>2. ASSUME NEW code \in Codes, NEW phrase, r = ResultOf(code, phrase), ~(code >= 400)
      PROVE  r.code = code /\ r.failure = "none" /\ r.text = {}
  BY Zenon, <1>2 DEF ResultOf, Failed
<1>3. ASSUME NEW cause \in Causes, NEW address \in Texts,
             r = Failed(0, "retryable", {"deliver webhook request"} \cup cause \cup address)
      PROVE  /\ r.code = 0 /\ r.failure = "retryable" /\ r.text \in SUBSET Words
             /\ "deliver webhook request" \in r.text
  <2>1. /\ r.code = 0 /\ r.failure = "retryable"
        /\ r.text = {"retryable"} \cup ({"deliver webhook request"} \cup cause \cup address)
    BY Zenon, <1>3 DEF Failed
  <2> QED
    BY Zenon, <2>1, <1>0, WordsAre
<1>4. ASSUME NEW address \in Texts \cup {{}}, r = Failed(0, "permanent", address)
      PROVE  /\ r.code = 0 /\ r.failure = "permanent"
             /\ r.text \in SUBSET Words /\ "permanent" \in r.text
  <2>1. r.code = 0 /\ r.failure = "permanent" /\ r.text = {"permanent"} \cup address
    BY Zenon, <1>4 DEF Failed
  <2> QED
    BY Zenon, <2>1, <1>0, WordsAre
<1>5. r = Failed(0, "retryable", {}) =>
          /\ r.code = 0 /\ r.failure = "retryable"
          /\ r.text \in SUBSET Words /\ r.text = {"retryable"}
  <2>1. r = Failed(0, "retryable", {}) =>
            r.code = 0 /\ r.failure = "retryable" /\ r.text = {"retryable"}
    BY DEF Failed
  <2>2. {"retryable"} \in SUBSET Words
    BY Zenon, WordsAre
  <2> QED
    BY Zenon, <2>1, <2>2
<1>6. r = Failed(0, "none", {}) => r.code = 0 /\ r.failure = "none" /\ r.text = {}
  BY DEF Failed
<1>7. \A code \in Codes : ~(code >= 400) => code < 400
  BY <1>0
<1>8. CASE \E code \in Codes, phrase \in Texts : r = ResultOf(code, phrase)
  <2>1. PICK code \in Codes, phrase \in Texts : r = ResultOf(code, phrase)
    BY Zenon, <1>8
  <2>2. CASE code >= 400
    BY Zenon, <2>1, <2>2, <1>1
  <2>3. CASE ~(code >= 400)
    BY ZenonT(60), <2>1, <2>3, <1>2, <1>7
  <2> QED
    BY Zenon, <2>2, <2>3
<1>9. CASE \E cause \in Causes, address \in Texts :
               r = Failed(0, "retryable", {"deliver webhook request"} \cup cause \cup address)
  BY Zenon, <1>9, <1>3
<1>10. CASE \E address \in Texts \cup {{}} : r = Failed(0, "permanent", address)
  BY Zenon, <1>10, <1>4
<1> QED
  BY Zenon, <1>5, <1>6, <1>8, <1>9, <1>10 DEF Result

\* A row tells its readers what the worker acted on.
LEMMA RowTells ==
    ASSUME NEW n, NEW r, Result(r)
    PROVE  /\ Agrees(RowOf(n, r)) /\ Tells(RowOf(n, r))
           /\ n \in 1..MaxRetries + 1 => RowOf(n, r) \in AttemptRow
<1> DEFINE a == RowOf(n, r)
<1>0. /\ a.code = r.code /\ a.text = r.text /\ a.failure = r.failure /\ a.number = n
      /\ a.outcome = IF r.failure = "none" THEN "SUCCESS" ELSE "FAILED"
      /\ (/\ n \in 1..MaxRetries + 1 /\ r.code \in Codes \cup {0} /\ r.text \in SUBSET Words
          /\ r.failure \in Kinds) => a \in AttemptRow
  BY DEF RowOf, AttemptRow
<1>1. Codes \subseteq Int /\ 0 \notin Codes
  BY EventRecordAssumption
<1> HIDE DEF a
<1>2. CASE /\ r.code \in Codes /\ r.code >= 400 /\ r.failure = ClassifyHTTPStatus(r.code)
           /\ r.text \in SUBSET Words /\ (r.failure # "none" => r.text # {})
  <2>1. r.code \in Int /\ r.code # 0
    BY Zenon, <1>1, <1>2
  <2>2. /\ r.failure \in {"none", "retryable", "permanent"}
        /\ r.code \in 400..599 => r.failure # "none"
    BY <2>1, <1>2, ClassifyIs
  <2>3. Agrees(a)
    <3>2. CASE r.failure = "none"
      BY <2>2, <3>2, <2>1, <1>0, <1>2, CodeDecides DEF Agrees
    <3>3. CASE r.failure = "retryable"
      BY <3>3, <2>1, <1>0, <1>2, CodeDecides DEF Agrees
    <3>4. CASE r.failure = "permanent"
      BY <3>4, <2>1, <1>0, <1>2, CodeDecides DEF Agrees
    <3> QED
      BY Zenon, <2>2, <3>2, <3>3, <3>4
  <2>4. r.failure # "permanent" => NotRejected(r.code)
    BY <2>1, <1>2, ClassifyIs DEF NotRejected
  <2>5. Tells(a)
    BY Zenon, <2>4, <1>0, <1>2 DEF Tells
  <2> QED
    BY Zenon, <2>2, <2>3, <2>5, <1>0, <1>2 DEF a, Kinds
<1>3. CASE r.code \in Codes /\ r.code < 400 /\ r.failure = "none" /\ r.text = {}
  <2>0. r.code \in Int
    BY Zenon, <1>1, <1>3
  <2>1. ClassifyHTTPStatus(r.code) = "none" /\ r.code \notin 400..599
    BY <2>0, <1>3, ClassifyIs
  <2>2. Agrees(a)
    BY <2>0, <2>1, <1>0, <1>3, CodeDecides DEF Agrees
  <2>3. Tells(a)
    BY <2>0, <1>0, <1>3 DEF Tells, NotRejected
  <2> QED
    BY <2>2, <2>3, <1>0, <1>3 DEF a, Kinds
<1>4. CASE r.code = 0 /\ r.failure = "none" /\ r.text = {}
  <2>1. ClassifyHTTPStatus(0) = "none"
    BY ClassifyIs
  <2>2. Agrees(a)
    BY <2>1, <1>0, <1>4, CodeDecides DEF Agrees
  <2>3. Tells(a)
    BY <1>0, <1>4 DEF Tells, NotRejected
  <2> QED
    BY <2>2, <2>3, <1>0, <1>4 DEF a, Kinds
<1>5. CASE /\ r.code = 0 /\ r.failure = "permanent"
           /\ r.text \in SUBSET Words /\ "permanent" \in r.text
  <2>1. ExplainAttemptOutcome(a) = "permanent_failure"
    BY Zenon, <1>0, <1>5, TextDecides
  <2>2. Agrees(a)
    BY <2>1, <1>0, <1>5 DEF Agrees
  <2>3. Tells(a)
    BY Zenon, <1>0, <1>5 DEF Tells
  <2> QED
    BY Zenon, <2>2, <2>3, <1>0, <1>5 DEF a, Kinds
<1>6. CASE /\ r.code = 0 /\ r.failure = "retryable" /\ r.text \in SUBSET Words
           /\ r.text = {"retryable"} \/ "deliver webhook request" \in r.text
  <2>1. /\ a.code = 0 /\ a.failure = "retryable" /\ a.outcome = "FAILED" /\ a.text = r.text
        /\ a.text # {}
    BY Zenon, <1>0, <1>6
  <2>2. "permanent" \notin a.text =>
            ExplainAttemptOutcome(a) \in {"temporary_failure", "transport_failure"}
    <3>1. "deliver webhook request" \in a.text => TransportWords \cap a.text # {}
      BY Zenon DEF TransportWords
    <3> QED
      BY Zenon, <2>1, <3>1, <1>6, TextDecides
  <2>3. "permanent" \in a.text => ExplainAttemptOutcome(a) = "permanent_failure"
    BY Zenon, <2>1, TextDecides
  <2>4. Agrees(a)
    BY <2>1, <2>2, <2>3 DEF Agrees
  <2>5. Tells(a)
    BY <2>1 DEF Tells, NotRejected
  <2> QED
    BY Zenon, <2>4, <2>5, <1>0, <1>6 DEF a, Kinds
<1> QED
  BY ZenonT(60), <1>2, <1>3, <1>4, <1>5, <1>6, ResultIs

-----------------------------------------------------------------------------
\* A step adds at most one row to the history, and at most one attempt.
HistoryRow ==
    [status : {"STORED", "PENDING_PUBLICATION", "PUBLISHED", "PROCESSING", "RETRYING",
               "DELIVERED", "DEAD_LETTERED", "REDRIVEN"},
     next : 0..MaxRetries]

HistoryGrows ==
    \/ /\ history' = Append(history, [status |-> "PROCESSING", next |-> 0])
       /\ Current # "PROCESSING"
       /\ retry' = IF Current = "RETRYING" THEN retry ELSE 0
    \/ /\ history' = Append(history, [status |-> "RETRYING", next |-> retry + 1])
       /\ Current = "PROCESSING"
       /\ retry < MaxRetries /\ retry' = retry + 1
    \/ /\ \E s \in {"DELIVERED", "DEAD_LETTERED", "REDRIVEN"} :
              history' = Append(history, [status |-> s, next |-> 0])
       /\ retry' = retry

AttemptsGrow ==
    \/ /\ attempts' = attempts
       /\ dlq' = dlq \/ (dlq.status # "none" /\ dlq' = [dlq EXCEPT !.status = "REDRIVEN"])
    \/ \E r :
        /\ Result(r)
        /\ attempts' = Append(attempts, RowOf(retry + 1, r))
        /\ dlq' = dlq \/ dlq' = [status |-> "OPEN", error |-> r.text]

LEMMA AttemptGrows ==
    ASSUME NEW type, NEW r, Result(r), Attempt(type, r)
    PROVE  HistoryGrows /\ AttemptsGrow
<1>1. attempts' = Append(attempts, RowOf(retry + 1, r)) /\ Current = "PROCESSING"
  BY Zenon DEF Attempt, InsertDeliveryAttempt, RowOf
<1>2. CASE Delivered(r)
  <2>1. history' = Append(history, [status |-> "DELIVERED", next |-> 0]) /\ retry' = retry /\ dlq' = dlq
    BY Zenon, <1>2 DEF Delivered, InsertStatusHistory
  <2> QED
    BY Zenon, <1>1, <2>1 DEF HistoryGrows, AttemptsGrow
<1>3. CASE HandleDeliveryFailure(r)
  <2>1. CASE r.failure # "permanent" /\ retry < MaxRetries
    <3>1. DecideFailureAction(r.failure, retry, MaxRetries) = "RETRYING"
      BY Zenon, <2>1 DEF DecideFailureAction
    <3>2. /\ history' = Append(history, [status |-> "RETRYING", next |-> retry + 1])
          /\ retry' = retry + 1 /\ dlq' = dlq
      BY <1>3, <3>1 DEF HandleDeliveryFailure, InsertStatusHistory
    <3> QED
      BY Zenon, <1>1, <2>1, <3>2 DEF HistoryGrows, AttemptsGrow
  <2>2. CASE ~(r.failure # "permanent" /\ retry < MaxRetries)
    <3>1. DecideFailureAction(r.failure, retry, MaxRetries) = "DEAD_LETTERED"
      BY Zenon, <2>2 DEF DecideFailureAction
    <3>2. /\ history' = Append(history, [status |-> "DEAD_LETTERED", next |-> 0])
          /\ retry' = retry /\ dlq' = [status |-> "OPEN", error |-> r.text]
      BY <1>3, <3>1 DEF HandleDeliveryFailure, InsertStatusHistory
    <3> QED
      BY Zenon, <1>1, <3>2 DEF HistoryGrows, AttemptsGrow
  <2> QED
    BY Zenon, <2>1, <2>2
<1> QED
  BY Zenon, <1>2, <1>3 DEF Attempt

LEMMA RecordGrows ==
    ASSUME RecordNext
    PROVE  HistoryGrows /\ AttemptsGrow
<1>1. CASE RecordProcessing
  BY Zenon, <1>1 DEF RecordProcessing, InsertStatusHistory, HistoryGrows, AttemptsGrow
<1>2. CASE Redrive
  <2>1. dlq.status # "none"
    BY <1>2 DEF Redrive
  <2>2. /\ history' = Append(history, [status |-> "REDRIVEN", next |-> 0]) /\ retry' = retry
        /\ attempts' = attempts /\ dlq' = [dlq EXCEPT !.status = "REDRIVEN"]
    BY Zenon, <1>2 DEF Redrive, InsertStatusHistory
  <2> QED
    BY Zenon, <2>1, <2>2 DEF HistoryGrows, AttemptsGrow
<1>3. CASE Respond
  BY Zenon, <1>3, AttemptGrows DEF Respond, Result
<1>4. CASE TransportFails
  BY Zenon, <1>4, AttemptGrows DEF TransportFails, Result
<1>5. CASE Malformed \/ ForcedFailure \/ NothingToDo
  BY Zenon, <1>5, AttemptGrows DEF Malformed, ForcedFailure, NothingToDo, Result
<1> QED
  BY Zenon, <1>1, <1>2, <1>3, <1>4, <1>5 DEF RecordNext

-----------------------------------------------------------------------------
\* The inductive invariant.
RecordTyped ==
    /\ history \in Seq(HistoryRow) /\ Len(history) >= 3
    /\ attempts \in Seq(AttemptRow)
    /\ retry \in 0..MaxRetries
    /\ dlq \in [status : {"none", "OPEN", "REDRIVEN"}, error : SUBSET Words]

RowsTell == \A n \in 1..Len(attempts) : Agrees(attempts[n]) /\ Tells(attempts[n])

\* The record's error is that of an attempt.
ErrorKept == dlq.status # "none" => \E n \in 1..Len(attempts) : dlq.error = attempts[n].text

LEMMA AttemptRecorded ==
    ASSUME RecordTyped, AttemptsGrow
    PROVE  /\ attempts' \in Seq(AttemptRow)
           /\ dlq' \in [status : {"none", "OPEN", "REDRIVEN"}, error : SUBSET Words]
           /\ RowsTell => RowsTell'
           /\ ErrorKept => ErrorKept'
<1>1. CASE /\ attempts' = attempts
           /\ dlq' = dlq \/ (dlq.status # "none" /\ dlq' = [dlq EXCEPT !.status = "REDRIVEN"])
  <2>1. dlq' \in [status : {"none", "OPEN", "REDRIVEN"}, error : SUBSET Words]
    BY <1>1 DEF RecordTyped
  <2>2. dlq'.error = dlq.error /\ (dlq'.status # "none" => dlq.status # "none")
    BY <1>1 DEF RecordTyped
  <2> QED
    BY Zenon, <1>1, <2>1, <2>2 DEF RecordTyped, RowsTell, ErrorKept
<1>2. ASSUME NEW r, Result(r), attempts' = Append(attempts, RowOf(retry + 1, r)),
             dlq' = dlq \/ dlq' = [status |-> "OPEN", error |-> r.text]
      PROVE  /\ attempts' \in Seq(AttemptRow)
             /\ dlq' \in [status : {"none", "OPEN", "REDRIVEN"}, error : SUBSET Words]
             /\ RowsTell => RowsTell'
             /\ ErrorKept => ErrorKept'
  <2>1. PICK a : a = RowOf(retry + 1, r)
    BY Zenon
  <2>2. retry + 1 \in 1..MaxRetries + 1
    BY EventRecordAssumption DEF RecordTyped
  <2>3. a \in AttemptRow /\ Agrees(a) /\ Tells(a) /\ a.text = r.text
    BY Zenon, <2>1, <2>2, <1>2, RowTells DEF RowOf
  <2>4. PICK L \in Nat : L = Len(attempts)
    BY DEF RecordTyped
  <2>5. /\ attempts' \in Seq(AttemptRow) /\ Len(attempts') = L + 1
        /\ attempts'[L + 1] = a
        /\ \A n \in 1..L : attempts'[n] = attempts[n]
    BY <1>2, <2>1, <2>3, <2>4 DEF RecordTyped
  <2>6. 1..L + 1 = 1..L \cup {L + 1}
    OBVIOUS
  <2>7. RowsTell => RowsTell'
    BY Zenon, <2>3, <2>4, <2>5, <2>6 DEF RowsTell
  <2>8. r.text \in SUBSET Words
    BY <2>3 DEF AttemptRow
  <2>9. dlq' \in [status : {"none", "OPEN", "REDRIVEN"}, error : SUBSET Words]
    BY <1>2, <2>8 DEF RecordTyped
  <2>10. ErrorKept => ErrorKept'
    <3>1. CASE dlq' = dlq
      BY Zenon, <3>1, <2>4, <2>5, <2>6 DEF ErrorKept
    <3>2. CASE dlq' = [status |-> "OPEN", error |-> r.text]
      <4>1. dlq'.error = attempts'[L + 1].text
        BY Zenon, <3>2, <2>3, <2>5
      <4> QED
        BY Zenon, <4>1, <2>5, <2>6 DEF ErrorKept
    <3> QED
      BY Zenon, <3>1, <3>2, <1>2
  <2> QED
    BY Zenon, <2>5, <2>7, <2>9, <2>10
<1> QED
  BY Zenon, <1>1, <1>2 DEF AttemptsGrow

-----------------------------------------------------------------------------
\* A new row leaves the passes of the older ones alone, and goes on with the
\* pass of its predecessor if it is PROCESSING or RETRYING.
InPass == {"PROCESSING", "RETRYING"}

LEMMA PassIs ==
    ASSUME NEW n
    PROVE  PassRetries(n) =
               { j \in DOMAIN history :
                   /\ history[j].status = "RETRYING" /\ j <= n
                   /\ \A k \in j..n : history[k].status \in InPass }
  BY DEF PassRetries, Retrying, RowsWith, InPass

LEMMA PassGrows ==
    ASSUME history \in Seq(HistoryRow), NEW a \in HistoryRow, history' = Append(history, a),
           NEW L \in Nat, L = Len(history)
    PROVE  /\ history' \in Seq(HistoryRow) /\ Len(history') = L + 1 /\ history'[L + 1] = a
           /\ \A n \in 1..L : history'[n] = history[n]
           /\ \A n \in 1..L : PassRetries(n)' = PassRetries(n)
           /\ a.status = "PROCESSING" => PassRetries(L + 1)' = PassRetries(L)
           /\ a.status = "RETRYING" => PassRetries(L + 1)' = PassRetries(L) \cup {L + 1}
<1>1. /\ history' \in Seq(HistoryRow) /\ Len(history') = L + 1 /\ history'[L + 1] = a
      /\ \A n \in 1..L : history'[n] = history[n]
      /\ DOMAIN history = 1..L /\ DOMAIN history' = 1..L + 1
  OBVIOUS
<1>2. ASSUME NEW n \in 1..L PROVE PassRetries(n)' = PassRetries(n)
  <2>1. \A j \in 1..L + 1 : j <= n => j \in 1..L
    OBVIOUS
  <2>2. \A j \in 1..L : \A k \in j..n : k \in 1..L
    OBVIOUS
  <2>3. 1..L \subseteq 1..L + 1
    OBVIOUS
  <2>4. PassRetries(n)' =
            { j \in 1..L + 1 : /\ history'[j].status = "RETRYING" /\ j <= n
                              /\ \A k \in j..n : history'[k].status \in InPass }
    BY <1>1 DEF PassRetries, Retrying, RowsWith, InPass
  <2>5. PassRetries(n) =
            { j \in 1..L : /\ history[j].status = "RETRYING" /\ j <= n
                          /\ \A k \in j..n : history[k].status \in InPass }
    BY Zenon, <1>1, PassIs
  <2> QED
    BY ZenonT(60), <1>1, <2>1, <2>2, <2>3, <2>4, <2>5
<1>3. ASSUME a.status \in InPass
      PROVE  PassRetries(L + 1)' = PassRetries(L) \cup { j \in {L + 1} : a.status = "RETRYING" }
  <2>1. /\ \A j \in 1..L : j <= L + 1 /\ j <= L /\ j..L + 1 = j..L \cup {L + 1}
        /\ \A j \in 1..L : \A k \in j..L : k \in 1..L
        /\ (L + 1)..(L + 1) = {L + 1} /\ L + 1 <= L + 1
        /\ 1..L + 1 = 1..L \cup {L + 1}
    OBVIOUS
  <2>2. PassRetries(L + 1)' =
            { j \in 1..L + 1 : /\ history'[j].status = "RETRYING" /\ j <= L + 1
                              /\ \A k \in j..L + 1 : history'[k].status \in InPass }
    BY <1>1 DEF PassRetries, Retrying, RowsWith, InPass
  <2>3. PassRetries(L) =
            { j \in 1..L : /\ history[j].status = "RETRYING" /\ j <= L
                          /\ \A k \in j..L : history[k].status \in InPass }
    BY Zenon, <1>1, PassIs
  <2>4. ASSUME NEW j \in 1..L PROVE j \in PassRetries(L + 1)' <=> j \in PassRetries(L)
    <3>1. /\ history'[j] = history[j] /\ j <= L + 1 /\ j <= L /\ j \in 1..L + 1
          /\ \A k \in j..L : history'[k] = history[k] /\ k \in j..L + 1
          /\ \A k \in j..L + 1 : k \in j..L \/ k = L + 1
      <4>1. \A k \in j..L : k \in 1..L
        BY Zenon, <2>1
      <4>2. j..L + 1 = j..L \cup {L + 1} /\ j <= L + 1 /\ j <= L
        BY Zenon, <2>1
      <4>3. j \in 1..L + 1
        BY Zenon, <2>1
      <4> QED
        BY Zenon, <1>1, <4>1, <4>2, <4>3
    <3>2. (\A k \in j..L + 1 : history'[k].status \in InPass) <=>
              (\A k \in j..L : history[k].status \in InPass)
      BY Zenon, <3>1, <1>1, <1>3
    <3> QED
      BY Zenon, <3>1, <3>2, <2>2, <2>3
  <2>5. L + 1 \in PassRetries(L + 1)' <=> a.status = "RETRYING"
    BY Zenon, <1>1, <1>3, <2>1, <2>2
  <2>6. PassRetries(L) \subseteq 1..L /\ PassRetries(L + 1)' \subseteq 1..L \cup {L + 1}
    BY Zenon, <2>1, <2>2, <2>3
  <2> QED
    BY Zenon, <2>4, <2>5, <2>6
<1>4. a.status = "PROCESSING" => PassRetries(L + 1)' = PassRetries(L)
  BY Zenon, <1>3 DEF InPass
<1>5. a.status = "RETRYING" => PassRetries(L + 1)' = PassRetries(L) \cup {L + 1}
  BY <1>3 DEF InPass
<1> QED
  BY Zenon, <1>1, <1>2, <1>4, <1>5

LEMMA PassFinite ==
    ASSUME history \in Seq(HistoryRow), NEW n \in 1..Len(history)
    PROVE  /\ IsFiniteSet(PassRetries(n))
           /\ PassRetries(n) \subseteq 1..n
           /\ history[n].status \notin InPass => PassRetries(n) = {}
<1>1. PassRetries(n) \subseteq 1..n
  BY PassIs
<1>2. IsFiniteSet(1..n)
  BY FS_Interval
<1>3. \A j \in 1..n : n \in j..n
  OBVIOUS
<1>4. \A j \in PassRetries(n) : \A k \in j..n : history[k].status \in InPass
  BY Zenon, PassIs
<1> QED
  BY Zenon, <1>1, <1>2, <1>3, <1>4, FS_Subset

\* The retry that a row announces is the number of retries of its pass so
\* far, and so is the retry field of the entry in hand.
PassCounted ==
    /\ \A n \in 1..Len(history) :
        history[n].status = "RETRYING" => history[n].next = Cardinality(PassRetries(n))
    /\ Current \in InPass => Cardinality(PassRetries(Len(history))) = retry

LEMMA HistoryRecorded ==
    ASSUME RecordTyped, HistoryGrows, PassCounted
    PROVE  /\ history' \in Seq(HistoryRow) /\ Len(history') >= 3 /\ retry' \in 0..MaxRetries
           /\ PassCounted'
<1>1. PICK L \in Nat : L = Len(history) /\ L >= 3
  BY DEF RecordTyped
<1>2. 1..L + 1 = 1..L \cup {L + 1} /\ L \in 1..L /\ L + 1 \notin 1..L /\ L + 1 >= 3
  BY <1>1
<1>3. IsFiniteSet(PassRetries(L)) /\ PassRetries(L) \subseteq 1..L
      /\ (Current \notin InPass => PassRetries(L) = {})
  BY Zenon, <1>1, <1>2, PassFinite DEF RecordTyped, Current
<1>4. 0 \in 0..MaxRetries
  BY EventRecordAssumption
<1>5. CASE /\ history' = Append(history, [status |-> "PROCESSING", next |-> 0])
           /\ Current # "PROCESSING"
           /\ retry' = IF Current = "RETRYING" THEN retry ELSE 0
  <2>1. PICK a \in HistoryRow : a.status = "PROCESSING" /\ history' = Append(history, a)
    <3>1. [status |-> "PROCESSING", next |-> 0] \in HistoryRow
      BY <1>4 DEF HistoryRow
    <3> QED
      BY Zenon, <3>1, <1>5
  <2>2. /\ history' \in Seq(HistoryRow) /\ Len(history') = L + 1 /\ history'[L + 1] = a
        /\ \A n \in 1..L : history'[n] = history[n]
        /\ \A n \in 1..L : PassRetries(n)' = PassRetries(n)
        /\ PassRetries(L + 1)' = PassRetries(L)
    BY ZenonT(60), <2>1, <1>1, PassGrows DEF RecordTyped
  <2>3. Cardinality(PassRetries(L)) = retry'
    <3>1. CASE Current = "RETRYING"
      BY Zenon, <3>1, <1>1, <1>5 DEF PassCounted, InPass
    <3>2. CASE Current # "RETRYING"
      BY Zenon, <3>2, <1>3, <1>5, FS_EmptySet DEF InPass
    <3> QED
      BY Zenon, <3>1, <3>2
  <2>4. PassCounted'
    <3>1. \A n \in 1..L + 1 :
            history'[n].status = "RETRYING" => history'[n].next = Cardinality(PassRetries(n)')
      <4>1. "PROCESSING" # "RETRYING"
        OBVIOUS
      <4> QED
        BY Zenon, <4>1, <1>1, <1>2, <2>1, <2>2 DEF PassCounted
    <3> QED
      BY Zenon, <3>1, <2>2, <2>3 DEF PassCounted
  <2>5. retry' \in 0..MaxRetries
    BY Zenon, <1>4, <1>5 DEF RecordTyped
  <2> QED
    BY Zenon, <2>2, <2>4, <2>5, <1>2
<1>6. CASE /\ history' = Append(history, [status |-> "RETRYING", next |-> retry + 1])
           /\ Current = "PROCESSING"
           /\ retry < MaxRetries /\ retry' = retry + 1
  <2>0. retry + 1 \in 0..MaxRetries
    BY <1>6, EventRecordAssumption DEF RecordTyped
  <2>1. PICK a \in HistoryRow : /\ a.status = "RETRYING" /\ a.next = retry + 1
                                /\ history' = Append(history, a)
    <3>1. [status |-> "RETRYING", next |-> retry + 1] \in HistoryRow
      BY <2>0 DEF HistoryRow
    <3> QED
      BY Zenon, <3>1, <1>6
  <2>2. /\ history' \in Seq(HistoryRow) /\ Len(history') = L + 1 /\ history'[L + 1] = a
        /\ \A n \in 1..L : history'[n] = history[n]
        /\ \A n \in 1..L : PassRetries(n)' = PassRetries(n)
        /\ PassRetries(L + 1)' = PassRetries(L) \cup {L + 1}
    BY ZenonT(60), <2>1, <1>1, PassGrows DEF RecordTyped
  <2>3. Cardinality(PassRetries(L + 1)') = retry + 1
    <3>1. Cardinality(PassRetries(L)) = retry
      BY Zenon, <1>1, <1>6 DEF PassCounted, InPass
    <3>2. L + 1 \notin PassRetries(L)
      BY Zenon, <1>2, <1>3
    <3>3. Cardinality(PassRetries(L) \cup {L + 1}) = Cardinality(PassRetries(L)) + 1
      BY Zenon, <1>3, <3>2, FS_AddElement
    <3> QED
      BY Zenon, <2>2, <3>1, <3>3
  <2>4. PassCounted'
    <3>1. \A n \in 1..L + 1 :
            history'[n].status = "RETRYING" => history'[n].next = Cardinality(PassRetries(n)')
      BY Zenon, <1>1, <1>2, <2>1, <2>2, <2>3 DEF PassCounted
    <3> QED
      BY Zenon, <3>1, <2>2, <2>3, <1>6 DEF PassCounted
  <2> QED
    BY ZenonT(60), <2>0, <2>2, <2>4, <1>2, <1>6
<1>7. CASE /\ \E s \in {"DELIVERED", "DEAD_LETTERED", "REDRIVEN"} :
                  history' = Append(history, [status |-> s, next |-> 0])
           /\ retry' = retry
  <2>1. PICK a \in HistoryRow : a.status \notin InPass /\ history' = Append(history, a)
    <3>1. PICK s \in {"DELIVERED", "DEAD_LETTERED", "REDRIVEN"} :
              history' = Append(history, [status |-> s, next |-> 0])
      BY Zenon, <1>7
    <3>2. [status |-> s, next |-> 0] \in HistoryRow /\ s \notin InPass
      BY <1>4 DEF HistoryRow, InPass
    <3> QED
      BY Zenon, <3>1, <3>2
  <2>2. /\ history' \in Seq(HistoryRow) /\ Len(history') = L + 1 /\ history'[L + 1] = a
        /\ \A n \in 1..L : history'[n] = history[n]
        /\ \A n \in 1..L : PassRetries(n)' = PassRetries(n)
    BY Zenon, <2>1, <1>1, PassGrows DEF RecordTyped
  <2>3. PassCounted'
    <3>1. \A n \in 1..L + 1 :
            history'[n].status = "RETRYING" => history'[n].next = Cardinality(PassRetries(n)')
      BY ZenonT(60), <1>1, <1>2, <2>1, <2>2 DEF PassCounted, InPass
    <3>2. Current' \notin InPass
      BY Zenon, <2>1, <2>2 DEF Current
    <3> QED
      BY Zenon, <3>1, <3>2, <2>2 DEF PassCounted, InPass
  <2> QED
    BY Zenon, <2>2, <2>3, <1>2, <1>7 DEF RecordTyped
<1> QED
  BY Zenon, <1>5, <1>6, <1>7 DEF HistoryGrows

RecordInv == RecordTyped /\ RowsTell /\ ErrorKept /\ PassCounted

LEMMA RecordInitInv == RecordInit => RecordInv
<1> SUFFICES ASSUME RecordInit PROVE RecordInv
  OBVIOUS
<1>0. 0 \in 0..MaxRetries
  BY EventRecordAssumption
<1>1. attempts = <<>> /\ retry = 0 /\ dlq = [status |-> "none", error |-> {}]
  BY Zenon DEF RecordInit
<1>2. attempts \in Seq(AttemptRow) /\ Len(attempts) = 0
  BY <1>1
<1>3. 1..0 = {}
  OBVIOUS
<1>4. /\ DOMAIN history = 1..3
      /\ history[1] = [status |-> "STORED", next |-> 0]
      /\ history[2] = [status |-> "PENDING_PUBLICATION", next |-> 0]
      /\ history[3] = [status |-> "PUBLISHED", next |-> 0]
  BY DEF RecordInit
<1>5. /\ [status |-> "STORED", next |-> 0] \in HistoryRow
      /\ [status |-> "PENDING_PUBLICATION", next |-> 0] \in HistoryRow
      /\ [status |-> "PUBLISHED", next |-> 0] \in HistoryRow
  BY <1>0 DEF HistoryRow
<1>6. 1..3 = {1, 2, 3}
  OBVIOUS
<1>7. \A n \in 1..3 : history[n] \in HistoryRow /\ history[n].status \notin InPass
  BY <1>4, <1>5, <1>6 DEF InPass
<1>8. history \in Seq(HistoryRow) /\ Len(history) = 3
  <2>1. PICK top \in Nat : top = 3
    OBVIOUS
  <2>2. history \in [1..top -> HistoryRow]
    BY Zenon, <2>1, <1>4, <1>7 DEF RecordInit
  <2>3. history \in Seq(HistoryRow) /\ Len(history) = top
    BY <2>2
  <2> QED
    BY Zenon, <2>1, <2>3
<1>9. RecordTyped
  <2>1. dlq \in [status : {"none", "OPEN", "REDRIVEN"}, error : SUBSET Words]
    BY <1>1
  <2>2. 3 >= 3
    OBVIOUS
  <2> QED
    BY ZenonT(60), <2>1, <2>2, <1>0, <1>1, <1>2, <1>8 DEF RecordTyped
<1>10. RowsTell /\ ErrorKept
  BY Zenon, <1>1, <1>2, <1>3 DEF RowsTell, ErrorKept
<1>11. PassCounted
  <2>1. 3 \in 1..3
    OBVIOUS
  <2> QED
    BY Zenon, <2>1, <1>7, <1>8 DEF PassCounted, Current, InPass
<1> QED
  BY Zenon, <1>9, <1>10, <1>11 DEF RecordInv

LEMMA RecordStep == RecordInv /\ [RecordNext]_recordVars => RecordInv'
<1> SUFFICES ASSUME RecordInv, [RecordNext]_recordVars PROVE RecordInv'
  OBVIOUS
<1>1. CASE RecordNext
  <2>1. HistoryGrows /\ AttemptsGrow
    BY Zenon, <1>1, RecordGrows
  <2>2. /\ history' \in Seq(HistoryRow) /\ Len(history') >= 3 /\ retry' \in 0..MaxRetries
        /\ PassCounted'
    BY Zenon, <2>1, HistoryRecorded DEF RecordInv
  <2>3. /\ attempts' \in Seq(AttemptRow)
        /\ dlq' \in [status : {"none", "OPEN", "REDRIVEN"}, error : SUBSET Words]
        /\ RowsTell' /\ ErrorKept'
    BY Zenon, <2>1, AttemptRecorded DEF RecordInv
  <2> QED
    BY Zenon, <2>2, <2>3 DEF RecordInv, RecordTyped
<1>2. CASE UNCHANGED recordVars
  <2>1. history' = history /\ attempts' = attempts /\ retry' = retry /\ dlq' = dlq
    BY Zenon, <1>2 DEF recordVars
  <2>2. RecordTyped' /\ RowsTell' /\ ErrorKept'
    BY Zenon, <2>1 DEF RecordInv, RecordTyped, RowsTell, ErrorKept
  <2>3. PassCounted'
    <3>1. Current' = Current /\ \A n : PassRetries(n)' = PassRetries(n)
      BY Zenon, <2>1 DEF Current, PassRetries, Retrying, RowsWith
    <3> QED
      BY Zenon, <2>1, <3>1 DEF RecordInv, PassCounted
  <2> QED
    BY Zenon, <2>2, <2>3 DEF RecordInv
<1> QED
  BY Zenon, <1>1, <1>2

LEMMA RecordAlways == RecordSpec => []RecordInv
  BY RecordInitInv, RecordStep, PTL DEF RecordSpec

-----------------------------------------------------------------------------
\* What the explanation says of an attempt is what the worker acted on
\* (explainAttemptOutcome, against delivery.Classify and NewHTTPFailure), for
\* every set of status codes, reason phrases and addresses and every number of
\* retries.
THEOREM ExplanationAgrees == RecordSpec => []ExplainAgreesWithWorker
<1>1. RecordInv => ExplainAgreesWithWorker
  <2> SUFFICES ASSUME RecordInv PROVE ExplainAgreesWithWorker
    OBVIOUS
  <2>1. DOMAIN attempts = 1..Len(attempts)
    BY DEF RecordInv, RecordTyped
  <2>2. \A n \in DOMAIN attempts : Agrees(attempts[n])
    BY Zenon, <2>1 DEF RecordInv, RowsTell
  <2> QED
    BY Zenon, <2>2 DEF ExplainAgreesWithWorker, Agrees
<1> QED
  BY <1>1, RecordAlways, PTL

\* A code that is no rejection, and a text that speaks of none.
LEMMA TriageOfTransient ==
    ASSUME NEW code, NEW text, NotRejected(code), RejectionWords \cap text = {}
    PROVE  Advice(Classify(code, text)) # "not_ready"
<1>1. /\ SchemaWords \cap text = {} /\ ValidationWords \cap text = {}
      /\ AuthenticationWords \cap text = {} /\ AuthorizationWords \cap text = {}
      /\ RoutingWords \cap text = {}
  BY Zenon DEF RejectionWords
<1>2. Classify(code, text) \in {"rate_limited", "destination_outage", "unknown"}
  BY <1>1 DEF Classify, NotRejected
<1>3. Classify(code, text) \notin NotReadyCategories
  BY <1>2 DEF NotReadyCategories
<1> QED
  BY <1>3 DEF Advice

LEMMA TriageOfLast ==
    ASSUME RecordInv, Triaged, attempts[Len(attempts)].code # 0
    PROVE  TriageCategory = Classify(attempts[Len(attempts)].code,
                                     fields \cup attempts[Len(attempts)].text)
<1>1. PICK L \in Nat : L = Len(attempts)
  BY DEF RecordInv, RecordTyped
<1>2. DOMAIN attempts = 1..L
  BY <1>1 DEF RecordInv, RecordTyped
<1>3. PICK n \in 1..L : dlq.error = attempts[n].text
  BY Zenon, <1>1 DEF RecordInv, ErrorKept, Triaged
<1>4. L \in 1..L
  BY <1>3
<1>5. attempts[L].text # {}
  BY Zenon, <1>1, <1>4 DEF RecordInv, RowsTell, Tells, Triaged
<1>6. /\ Coded(attempts) \in SUBSET (1..L) /\ L \in Coded(attempts)
      /\ Erring(attempts) \in SUBSET (1..L) /\ L \in Erring(attempts)
  BY Zenon, <1>1, <1>2, <1>4, <1>5 DEF Coded, Erring
<1>7. Last(Coded(attempts)) = L /\ Last(Erring(attempts)) = L
  BY Zenon, <1>6, LastIs
<1> QED
  BY Zenon, <1>1, <1>6, <1>7 DEF TriageCategory, LatestText, latestResponseCode, latestError

LEMMA TriageOfPermanent ==
    ASSUME RecordInv, Advice(TriageCategory) = "not_ready"
    PROVE  \/ \E n \in DOMAIN attempts : attempts[n].failure = "permanent"
           \/ RejectionWords \cap LatestText # {}
<1> SUFFICES ASSUME \A n \in DOMAIN attempts : attempts[n].failure # "permanent",
                    RejectionWords \cap LatestText = {}
             PROVE  FALSE
  BY Zenon
<1>1. PICK L \in Nat : L = Len(attempts)
  BY DEF RecordInv, RecordTyped
<1>2. DOMAIN attempts = 1..L
  BY <1>1 DEF RecordInv, RecordTyped
<1>3. \A n \in 1..L : NotRejected(attempts[n].code)
  BY Zenon, <1>1, <1>2 DEF RecordInv, RowsTell, Tells
<1>4. NotRejected(latestResponseCode(attempts))
  <2>1. CASE Coded(attempts) = {}
    BY <2>1 DEF latestResponseCode, NotRejected
  <2>2. CASE Coded(attempts) # {}
    <3>1. Coded(attempts) \in SUBSET (1..L)
      BY Zenon, <1>2 DEF Coded
    <3>2. Last(Coded(attempts)) \in 1..L
      BY Zenon, <2>2, <3>1, LastIs
    <3> QED
      BY Zenon, <2>2, <3>2, <1>3 DEF latestResponseCode
  <2> QED
    BY Zenon, <2>1, <2>2
<1> QED
  BY Zenon, <1>4, TriageOfTransient DEF TriageCategory

\* The triage of an event is about the answer to its last failed attempt, and
\* advises against a redrive only after a rejection for good or words of one
\* (triageRequestFromDLQDetail and _classify), for every set of status codes
\* and texts.
THEOREM TriageIsAboutAttempts == RecordSpec => []TriageFollowsAttempts
<1>1. RecordInv => TriageFollowsAttempts
  BY Zenon, TriageOfLast, TriageOfPermanent DEF TriageFollowsAttempts
<1> QED
  BY <1>1, RecordAlways, PTL

\* The retries that the explanation reports are those of the longest pass
\* through the worker (retryCountFromHistory), for every number of retries.
THEOREM RetryCountTold == RecordSpec => []RetryCountIsLongestPass
<1>1. RecordInv => RetryCountIsLongestPass
  <2> SUFFICES ASSUME RecordInv PROVE RetryCountIsLongestPass
    OBVIOUS
  <2>1. /\ DOMAIN history = 1..Len(history)
        /\ \A n \in DOMAIN history : history[n].next \in 0..MaxRetries
    <3>1. history \in Seq(HistoryRow)
      BY Zenon DEF RecordInv, RecordTyped
    <3>2. DOMAIN history = 1..Len(history) /\ \A n \in DOMAIN history : history[n] \in HistoryRow
      BY <3>1
    <3>3. \A a \in HistoryRow : a.next \in 0..MaxRetries
      BY DEF HistoryRow
    <3> QED
      BY Zenon, <3>2, <3>3
  <2>2. \A n \in Retrying(history) :
            n \in DOMAIN history /\ history[n].next = Cardinality(PassRetries(n))
    BY <2>1 DEF RecordInv, PassCounted, Retrying, RowsWith
  <2>3. CASE Retrying(history) = {}
    <3>1. RetryCount(history) = 0
      BY Zenon, <2>3 DEF RetryCount
    <3> QED
      BY <2>3, <3>1 DEF RetryCountIsLongestPass
  <2>4. CASE Retrying(history) # {}
    <3> DEFINE S == { history[n].next : n \in Retrying(history) }
    <3>1. S \in SUBSET (0..MaxRetries) /\ S # {}
      BY Zenon, <2>1, <2>2, <2>4
    <3>2. \E m \in S : \A k \in S : k <= m
      <4>1. MaxRetries \in Nat
        BY ZenonT(60), EventRecordAssumption
      <4>2. PICK T : T = S
        BY Zenon
      <4>3. T \in SUBSET (0..MaxRetries) /\ T # {}
        BY Zenon, <3>1, <4>2
      <4>4. \E m \in T : \A k \in T : k <= m
        BY Zenon, <4>1, <4>3, GreatestNat
      <4> QED
        BY Zenon, <4>2, <4>4
    <3>3. \E m \in S : \A n \in Retrying(history) : history[n].next <= m
      BY Zenon, <3>2
    <3>4. /\ RetryCount(history) \in S
          /\ \A n \in Retrying(history) : history[n].next <= RetryCount(history)
      BY Zenon, <3>3, <2>4 DEF RetryCount
    <3> QED
      BY Zenon, <3>4, <2>2 DEF RetryCountIsLongestPass
  <2> QED
    BY Zenon, <2>3, <2>4
<1> QED
  BY <1>1, RecordAlways, PTL

-----------------------------------------------------------------------------
\* The cut to the newest or the oldest positions.
LEMMA Counted ==
    ASSUME NEW top \in Nat, NEW S \in SUBSET (1..top)
    PROVE  /\ IsFiniteSet(S) /\ Cardinality(S) \in Nat /\ S \in SUBSET (0..top) /\ S \in SUBSET Nat
           /\ \A T \in SUBSET S : /\ T \in SUBSET (1..top) /\ IsFiniteSet(T)
                                  /\ Cardinality(T) \in Nat /\ Cardinality(T) <= Cardinality(S)
<1>1. IsFiniteSet(1..top)
  BY FS_Interval
<1>2. IsFiniteSet(S) /\ \A T \in SUBSET S : IsFiniteSet(T) /\ Cardinality(T) <= Cardinality(S)
  BY Zenon, <1>1, FS_Subset
<1>3. Cardinality(S) \in Nat /\ \A T \in SUBSET S : Cardinality(T) \in Nat
  BY Zenon, <1>2, FS_CardinalityType
<1>4. 1..top \subseteq 0..top /\ 1..top \subseteq Nat
  OBVIOUS
<1> QED
  BY Zenon, <1>2, <1>3, <1>4

LEMMA FirstNumbers ==
    ASSUME NEW top \in Nat, top >= 1
    PROVE  IsFiniteSet(1..top) /\ Cardinality(1..top) = top
<1>1. 1 \in Int /\ top \in Int /\ ~(1 > top) /\ top - 1 + 1 = top
  OBVIOUS
<1>2. IsFiniteSet(1..top) /\ Cardinality(1..top) = IF 1 > top THEN 0 ELSE top - 1 + 1
  BY Zenon, <1>1, FS_Interval
<1> QED
  BY <1>1, <1>2

\* All but one of T are in B, and B is small: T is hardly larger.
LEMMA AllButOne ==
    ASSUME NEW top \in Nat, NEW S \in SUBSET (1..top), NEW n \in Int,
           NEW T \in SUBSET S, NEW m \in T, NEW B \in SUBSET S,
           T \ {m} \subseteq B, Cardinality(B) < n
    PROVE  Cardinality(T) <= n
<1>1. Cardinality(T \ {m}) = Cardinality(T) - 1
  <2>1. IsFiniteSet(T)
    BY Zenon, Counted
  <2> QED
    BY Zenon, <2>1, FS_RemoveElement
<1>2. B \in SUBSET (1..top)
  BY Zenon
<1>3. Cardinality(T \ {m}) <= Cardinality(B) /\ Cardinality(B) \in Nat
  <2>1. PICK V \in SUBSET B : V = T \ {m}
    BY Zenon
  <2>2. Cardinality(V) <= Cardinality(B) /\ Cardinality(B) \in Nat
    BY Zenon, <1>2, Counted
  <2> QED
    BY Zenon, <2>1, <2>2
<1>4. Cardinality(T) \in Nat
  BY Zenon, Counted
<1> QED
  BY <1>1, <1>3, <1>4

LEMMA LargestFits ==
    ASSUME NEW top \in Nat, NEW S \in SUBSET (1..top), NEW n \in Nat
    PROVE  Cardinality(Largest(S, n)) <= n
<1> DEFINE T == Largest(S, n)
<1>1. T \in SUBSET S /\ T \in SUBSET Nat
  BY Zenon, Counted DEF Largest
<1>2. CASE T = {}
  <2>1. Cardinality(T) = 0
    BY Zenon, <1>2, FS_EmptySet
  <2> QED
    BY <2>1
<1>3. CASE T # {}
  <2>1. PICK m \in T : \A k \in T : ~(k < m)
    <3> HIDE DEF T
    <3> QED
      BY Zenon, <1>1, <1>3, LeastNat
  <2> DEFINE B == { j \in S : j > m }
  <2>2. B \in SUBSET S /\ Cardinality(B) < n
    BY Zenon DEF Largest
  <2>3. \A k \in T : k # m => k > m
    <3>1. \A k \in T : k \in Nat
      BY Zenon, <1>1
    <3> HIDE DEF T
    <3> QED
      BY <3>1, <2>1
  <2>4. T \ {m} \subseteq B
    BY Zenon, <1>1, <2>3
  <2>5. n \in Int
    OBVIOUS
  <2> HIDE DEF T, B
  <2>6. Cardinality(T) <= n
    BY ZenonT(60), <1>1, <2>1, <2>2, <2>4, <2>5, AllButOne
  <2> QED
    BY Zenon, <2>6 DEF T
<1> QED
  BY Zenon, <1>2, <1>3

LEMMA SmallestFits ==
    ASSUME NEW top \in Nat, NEW S \in SUBSET (1..top), NEW n \in Nat
    PROVE  Cardinality(Smallest(S, n)) <= n
<1> DEFINE T == Smallest(S, n)
<1>1. T \in SUBSET S /\ T \in SUBSET Nat /\ T \in SUBSET (0..top)
  BY ZenonT(60), Counted DEF Smallest
<1>2. CASE T = {}
  <2>1. Cardinality(T) = 0
    BY Zenon, <1>2, FS_EmptySet
  <2> QED
    BY <2>1
<1>3. CASE T # {}
  <2>1. PICK m \in T : \A k \in T : k <= m
    <3> HIDE DEF T
    <3> QED
      BY Zenon, <1>1, <1>3, GreatestNat
  <2> DEFINE B == { j \in S : j < m }
  <2>2. B \in SUBSET S /\ Cardinality(B) < n
    BY Zenon DEF Smallest
  <2>3. \A k \in T : k # m => k < m
    <3>1. \A k \in T : k \in Nat
      BY Zenon, <1>1
    <3> HIDE DEF T
    <3> QED
      BY <3>1, <2>1
  <2>4. T \ {m} \subseteq B
    BY Zenon, <1>1, <2>3
  <2>5. n \in Int
    OBVIOUS
  <2> HIDE DEF T, B
  <2>6. Cardinality(T) <= n
    BY ZenonT(60), <1>1, <2>1, <2>2, <2>4, <2>5, AllButOne
  <2> QED
    BY Zenon, <2>6 DEF T
<1> QED
  BY Zenon, <1>2, <1>3

\* No room is left unused: of the positions that are cut the last one has n
\* later ones, all of them kept.
LEMMA LargestFills ==
    ASSUME NEW top \in Nat, NEW S \in SUBSET (1..top), NEW n \in Nat, n <= Cardinality(S)
    PROVE  Cardinality(Largest(S, n)) = n
<1> DEFINE T == Largest(S, n)
           C == S \ T
<1>0. T \in SUBSET S /\ C \in SUBSET (0..top)
  BY Zenon, Counted DEF Largest
<1>1. Cardinality(T) \in Nat /\ Cardinality(T) <= n
  <2>1. Cardinality(T) <= n
    BY Zenon, LargestFits
  <2>2. Cardinality(T) \in Nat
    <3> HIDE DEF T
    <3> QED
      BY Zenon, <1>0, Counted
  <2> QED
    BY Zenon, <2>1, <2>2
<1>2. CASE C = {}
  <2>1. T = S
    BY Zenon, <1>0, <1>2
  <2> QED
    BY <2>1, <1>1
<1>3. CASE C # {}
  <2>1. PICK m \in C : \A k \in C : k <= m
    <3> HIDE DEF T, C
    <3> QED
      BY Zenon, <1>0, <1>3, GreatestNat
  <2> DEFINE B == { j \in S : j > m }
  <2>2. ~(Cardinality(B) < n)
    BY Zenon DEF Largest
  <2>3. \A k \in S : k > m => ~(k <= m)
    <3>1. m \in Nat /\ \A k \in S : k \in Nat
      BY Zenon, Counted
    <3> QED
      BY <3>1
  <2>4. B \in SUBSET T
    BY Zenon, <2>1, <2>3
  <2>5. T \in SUBSET (1..top)
    BY Zenon, <1>0
  <2> HIDE DEF T, B
  <2>6. Cardinality(B) <= Cardinality(T) /\ Cardinality(B) \in Nat
    BY Zenon, <2>4, <2>5, Counted
  <2>7. Cardinality(T) = n
    BY <2>2, <2>6, <1>1
  <2> QED
    BY Zenon, <2>7 DEF T
<1> QED
  BY Zenon, <1>2, <1>3

\* A set that fits is not cut.
LEMMA SmallestKeepsAll ==
    ASSUME NEW top \in Nat, NEW S \in SUBSET (1..top), NEW n \in Nat, Cardinality(S) <= n
    PROVE  Smallest(S, n) = S
<1>1. ASSUME NEW k \in S PROVE Cardinality({ j \in S : j < k }) < n
  <2> DEFINE B == { j \in S : j < k }
  <2>1. k \in Nat
    BY Zenon, Counted
  <2>2. k \notin B
    BY <2>1
  <2>3. B \in SUBSET (S \ {k})
    BY Zenon, <2>2
  <2>4. PICK U \in SUBSET (1..top) : U = S \ {k}
    BY Zenon
  <2> HIDE DEF B
  <2>5. Cardinality(B) <= Cardinality(S \ {k}) /\ Cardinality(B) \in Nat
    <3>1. B \in SUBSET U
      BY Zenon, <2>3, <2>4
    <3>2. Cardinality(B) <= Cardinality(U) /\ Cardinality(B) \in Nat
      BY Zenon, <3>1, Counted
    <3> QED
      BY Zenon, <3>2, <2>4
  <2>6. Cardinality(S \ {k}) = Cardinality(S) - 1 /\ Cardinality(S) \in Nat
    BY Zenon, Counted, FS_RemoveElement
  <2>7. Cardinality(B) < n
    BY <2>5, <2>6
  <2> QED
    BY Zenon, <2>7 DEF B
<1> QED
  BY Zenon, <1>1 DEF Smallest

-----------------------------------------------------------------------------
\* The bounded history, by length.
LEMMA ShortHistory ==
    ASSUME RecordInv, Len(history) <= MaxItems
    PROVE  /\ Cardinality(BoundExplainHistory(history)) <= MaxItems
           /\ Important(history) \cup {Len(history)} \subseteq BoundExplainHistory(history)
           /\ Len(history) >= MaxItems => Cardinality(BoundExplainHistory(history)) = MaxItems
<1>1. PICK L \in Nat : L = Len(history) /\ L >= 3
  BY DEF RecordInv, RecordTyped
<1>2. BoundExplainHistory(history) = 1..L
  BY <1>1 DEF BoundExplainHistory, RecordInv, RecordTyped
<1>3. Cardinality(1..L) = L
  BY <1>1, FirstNumbers
<1>4. Important(history) \subseteq DOMAIN history \cup {1}
  BY Zenon DEF Important, RowsWith
<1>5. DOMAIN history = 1..L /\ 1 \in 1..L /\ L \in 1..L
  BY <1>1 DEF RecordInv, RecordTyped
<1>6. Important(history) \cup {L} \subseteq 1..L
  BY Zenon, <1>4, <1>5
<1>7. L <= MaxItems /\ (L >= MaxItems => L = MaxItems)
  BY <1>1, ExplainSnapshotAssumption
<1> QED
  BY ZenonT(60), <1>1, <1>2, <1>3, <1>6, <1>7

LEMMA LongHistory ==
    ASSUME RecordInv, Len(history) > MaxItems
    PROVE  /\ Cardinality(BoundExplainHistory(history)) <= MaxItems
           /\ Cardinality(Important(history)) < MaxItems =>
                /\ Important(history) \cup {Len(history)} \subseteq BoundExplainHistory(history)
                /\ Cardinality(BoundExplainHistory(history)) = MaxItems
<1> DEFINE D == DOMAIN history
           I == Important(history)
           room == MaxItems - Cardinality(I)
           kept == Largest(D \ I, room)
<1>0. MaxItems \in Nat
  BY Zenon, ExplainSnapshotAssumption
<1>1. PICK L \in Nat : L = Len(history) /\ L >= 3
  BY DEF RecordInv, RecordTyped
<1>2. D = 1..L /\ 1 \in 1..L /\ L \in 1..L
  BY <1>1 DEF RecordInv, RecordTyped
<1>3. I \in SUBSET (1..L)
  BY Zenon, <1>2 DEF Important, RowsWith
<1>4. D \ I \in SUBSET (1..L) /\ kept \in SUBSET (D \ I)
  BY Zenon, <1>2 DEF Largest
<1>5. I \cup kept \in SUBSET (1..L)
  BY Zenon, <1>3, <1>4
<1>6. BoundExplainHistory(history) = Smallest(I \cup kept, MaxItems)
  <2>1. ~(Len(history) <= MaxItems)
    BY <1>0, <1>1
  <2> QED
    BY Zenon, <2>1 DEF BoundExplainHistory
<1>7. Cardinality(BoundExplainHistory(history)) <= MaxItems
  <2>1. PICK K \in SUBSET (1..L) : K = I \cup kept
    BY Zenon, <1>5
  <2>2. Cardinality(Smallest(K, MaxItems)) <= MaxItems
    BY Zenon, <1>0, SmallestFits
  <2> QED
    BY ZenonT(60), <2>1, <2>2, <1>6
<1>8. ASSUME Cardinality(I) < MaxItems
      PROVE  I \cup {L} \subseteq I \cup kept /\ Cardinality(I \cup kept) = MaxItems
  <2> HIDE DEF D, I
  <2>1. IsFiniteSet(I) /\ Cardinality(I) \in Nat
    BY Zenon, <1>3, Counted
  <2>2. room \in Nat /\ room > 0
    BY SMTT(30), <1>0, <1>8, <2>1
  <2>3. PICK U \in SUBSET (1..L) : U = D \ I
    BY Zenon, <1>4
  <2>4. Cardinality(U) = L - Cardinality(I)
    <3>1. IsFiniteSet(D) /\ Cardinality(D) = L
      BY SMTT(30), <1>1, <1>2, FirstNumbers
    <3>2. D \cap I = I
      BY Zenon, <1>2, <1>3
    <3>3. Cardinality(D \ I) = Cardinality(D) - Cardinality(D \cap I)
      BY Zenon, <3>1, FS_Difference
    <3> QED
      BY ZenonT(60), <2>3, <3>1, <3>2, <3>3
  <2>5. room <= Cardinality(U)
    BY SMTT(30), <2>1, <2>4, <1>0, <1>1
  <2> HIDE DEF room
  <2>6. Cardinality(kept) = room
    BY Zenon, <2>2, <2>3, <2>5, LargestFills
  <2>7. IsFiniteSet(kept) /\ I \cap kept = {}
    <3>1. kept \in SUBSET U /\ kept \in SUBSET (1..L)
      BY Zenon, <1>4, <2>3
    <3>2. I \cap kept = {}
      BY Zenon, <1>4
    <3> HIDE DEF kept
    <3>3. IsFiniteSet(kept)
      BY Zenon, <3>1, Counted
    <3> QED
      BY Zenon, <3>2, <3>3
  <2>8. Cardinality(I \cup kept) = MaxItems
    <3> HIDE DEF kept
    <3>0. Cardinality(I \cap kept) = 0
      BY Zenon, <2>7, FS_EmptySet
    <3>1. Cardinality(I \cup kept) = Cardinality(I) + Cardinality(kept) - Cardinality(I \cap kept)
      BY Zenon, <2>1, <2>7, FS_Union
    <3> QED
      BY SMTT(30), <3>0, <3>1, <2>1, <2>6, <1>0 DEF room
  <2>9. L \in I \cup kept
    <3>1. CASE L \in I
      BY Zenon, <3>1
    <3>2. CASE L \notin I
      <4>1. L \in U
        BY Zenon, <3>2, <1>2, <2>3
      <4>2. { j \in U : j > L } = {}
        BY <2>3
      <4>3. Cardinality({ j \in U : j > L }) < room
        <5>1. Cardinality({ j \in U : j > L }) = 0
          BY Zenon, <4>2, FS_EmptySet
        <5> QED
          BY <5>1, <2>2
      <4> QED
        BY Zenon, <4>1, <4>3, <2>3 DEF Largest
    <3> QED
      BY Zenon, <3>1, <3>2
  <2> QED
    BY Zenon, <2>8, <2>9
<1>9. ASSUME Cardinality(I) < MaxItems
      PROVE  /\ I \cup {L} \subseteq BoundExplainHistory(history)
             /\ Cardinality(BoundExplainHistory(history)) = MaxItems
  <2>1. PICK K \in SUBSET (1..L) : K = I \cup kept
    BY Zenon, <1>5
  <2>2. I \cup {L} \subseteq K /\ Cardinality(K) = MaxItems
    BY Zenon, <1>8, <1>9, <2>1
  <2>3. Cardinality(K) <= MaxItems
    BY SMTT(30), <2>2, <1>0
  <2>4. Smallest(K, MaxItems) = K
    BY Zenon, <2>3, <1>0, SmallestKeepsAll
  <2>5. BoundExplainHistory(history) = K
    BY ZenonT(60), <1>6, <2>1, <2>4
  <2> QED
    BY ZenonT(60), <2>2, <2>5
<1> QED
  BY Zenon, <1>1, <1>7, <1>9

\* The snapshot fits the service's model and keeps the rows that matter
\* (boundExplainHistory, boundExplainAttempts), for every limit MaxItems and
\* however long the event lives.
THEOREM SnapshotFits == RecordSpec => []SnapshotWithinLimits
<1>1. RecordInv => SnapshotWithinLimits
  <2> SUFFICES ASSUME RecordInv PROVE SnapshotWithinLimits
    OBVIOUS
  <2>1. PICK L \in Nat : L = Len(history)
    BY DEF RecordInv, RecordTyped
  <2>2. MaxItems \in Nat
    BY Zenon, ExplainSnapshotAssumption
  <2>3. RecordTypeOK
    <3>1. /\ \A n \in DOMAIN history : history[n] \in HistoryRow
          /\ \A n \in DOMAIN attempts : attempts[n] \in AttemptRow
      BY DEF RecordInv, RecordTyped
    <3>2. \A a \in HistoryRow : a.next \in 0..MaxRetries
      BY DEF HistoryRow
    <3> QED
      BY Zenon, <3>1, <3>2 DEF RecordTypeOK, RecordInv, RecordTyped, AttemptRow
  <2>4. /\ Cardinality(BoundExplainHistory(history)) <= MaxItems
        /\ Cardinality(Important(history)) < MaxItems =>
             /\ Important(history) \cup {Len(history)} \subseteq BoundExplainHistory(history)
             /\ Len(history) >= MaxItems => Cardinality(BoundExplainHistory(history)) = MaxItems
    <3>1. CASE Len(history) <= MaxItems
      BY Zenon, <3>1, ShortHistory
    <3>2. CASE Len(history) > MaxItems
      BY Zenon, <3>2, LongHistory
    <3>3. Len(history) <= MaxItems \/ Len(history) > MaxItems
      BY <2>1, <2>2
    <3> QED
      BY Zenon, <3>1, <3>2, <3>3
  <2>5. Cardinality(BoundExplainAttempts(attempts)) <= MaxItems
    <3>1. PICK A \in Nat : DOMAIN attempts = 1..A
      BY DEF RecordInv, RecordTyped
    <3>2. Cardinality(Largest(1..A, MaxItems)) <= MaxItems
      BY Zenon, <2>2, LargestFits
    <3> QED
      BY Zenon, <3>1, <3>2 DEF BoundExplainAttempts
  <2>6. \A m, n \in BoundExplainAttempts(attempts) :
            m # n => AttemptNumber(attempts, m) # AttemptNumber(attempts, n)
    BY Zenon DEF AttemptNumber
  <2> QED
    BY Zenon, <2>3, <2>4, <2>5, <2>6 DEF SnapshotWithinLimits
<1> QED
  BY <1>1, RecordAlways, PTL

-----------------------------------------------------------------------------
(* The processes of a deployment.                                         *)

USE MigrationsAssumption, DeploymentAssumption

N == Cardinality(Files)

\* A prefix of the files.
Prefix(S) == \E n \in 0..N : S = 1..n

InTransaction(p) == pc[p] \in {"record", "commit"}

\* Apply commits a file together with its row, so never twice.
Rows ==
    /\ Prefix(recorded)
    /\ recorded \subseteq schema /\ schema \subseteq recorded \cup Guide
    /\ \A f \in Files : commits[f] > 0 => f \in recorded

\* The map of a process, and its transaction.
Maps ==
    /\ \A p \in Processes : Prefix(applied[p]) /\ applied[p] \subseteq recorded
    /\ \A p, q \in Processes :
        p # q /\ InTransaction(p) /\ InTransaction(q) => Due(p) \cap Due(q) = {}
    /\ \A p \in Processes : pc[p] = "commit" => Due(p) \cap recorded = {}
    /\ \A p \in Processes : pc[p] = "up" => recorded = Files

SchemaInv == TypeOK /\ Rows /\ Maps

Migrating == {"config", "migrate"}
Starting == {"config", "migrate", "group", "launch"}
Running == {"listen", "select", "shutdown", "cancel"}
Stopping == {"cancel", "wait", "closeRedis", "closePool", "closing"}
Stopped == {"closeRedis", "closePool", "closing"}

LoopsRun == \A l \in Api!Loops : loop[l] \in {"idle", "call"}

\* What a goroutine of the wait group has yet to take from its counter.
Alive(g) == IF g \in returned THEN 0 ELSE 1

\* What main has started, and what it has not yet stopped.
Pipeline ==
    /\ main = "config" => pc[Watched] = "list"
    /\ main \notin Migrating \cup {"exited"} => pc[Watched] = "up"
    /\ main \notin {"config", "migrate", "group", "exited"} => grouped
    /\ main \in Starting => \A l \in Api!Loops : loop[l] = "none"
    /\ main \in Starting \cup Running => ~cancelled /\ returned = {}
    /\ main \in Running => LoopsRun
    /\ main \in Starting => workers = 0
    /\ main \notin Starting \cup {"exited"} => workers = Alive("outbox") + Alive("delivery")
    /\ main # "exited" => \A g \in returned : \A l \in Api!RunsLoops(g) : loop[l] = "done"
    /\ main \in Stopped => returned = Api!Goroutines

\* The server, and the requests it has accepted.
Serving ==
    /\ main \in Starting \cup {"listen"} => server = "off"
    /\ main \in {"shutdown"} \cup Stopping => server \in {"closed", "failed"}
    /\ server = "listening" =>
        main \in {"select", "exited"} /\ recorded = Files /\ grouped /\ LoopsRun
    /\ main \in Stopping \/ pool = "closed" =>
        \A r \in Requests : request[r] # "none" => deadline \/ server = "failed"

\* The clients are open as long as main has not come to their Close.
Clients ==
    /\ main \notin Migrating \cup {"closePool", "closing", "exited"} => redis = "open"
    /\ main \notin {"config", "closing", "exited"} => pool = "open"
    /\ pool = "closed" =>
        main = "exited" /\ \A r \in Requests : request[r] \notin {"tx", "sent"}

LifeInv == Api!TypeOK /\ Pipeline /\ Serving /\ Clients

-----------------------------------------------------------------------------
(* Migrations.                                                             *)

LEMMA FilesAre == N \in Nat /\ Files = 1..N
  BY Zenon, FS_CardinalityType DEF N

\* The next file of a process whose map is the prefix of length n.
LEMMA DueIs ==
    ASSUME NEW p, NEW n \in 0..N, applied[p] = 1..n
    PROVE  Due(p) = IF n < N THEN {n + 1} ELSE {}
  BY FilesAre DEF Due

\* A step that changes where one process is, and nothing it is bound by.
LEMMA Moves ==
    ASSUME SchemaInv, NEW p \in Processes,
           NEW next \in {"list", "exec", "record", "commit", "up", "failed"}, Goto(p, next),
           UNCHANGED <<schema, recorded, commits, applied>>,
           manual' \in [Guide -> {"to do", "done", "error"}],
           crashes' \in 0..MaxCrashes, restarts' \in 0..MaxRestarts,
           next = "record" => InTransaction(p) \/ \A f \in Due(p) : ~ Locked(f),
           next = "commit" => InTransaction(p) /\ Due(p) \cap recorded = {},
           next = "up" => recorded = Files
    PROVE  SchemaInv'
<1> USE DEF SchemaInv
<1>1. \A q \in Processes : pc'[q] = IF q = p THEN next ELSE pc[q]
  BY Zenon DEF Goto, TypeOK
<1>2. TypeOK'
  BY Zenon DEF TypeOK, Goto
<1>3. \A q \in Processes : Due(q)' = Due(q)
  BY Zenon DEF Due
<1>4. Rows'
  BY Zenon DEF Rows, Prefix
<1>5. ASSUME NEW a \in Processes, NEW b \in Processes, a # b,
             InTransaction(a)', InTransaction(b)'
      PROVE  Due(a) \cap Due(b) = {}
  <2>1. CASE a # p /\ b # p
    BY Zenon, <1>1, <1>5, <2>1 DEF InTransaction, Maps
  <2>2. CASE InTransaction(p)
    BY Zenon, <1>1, <1>5, <2>2 DEF InTransaction, Maps
  <2>3. CASE ~ InTransaction(p) /\ (a = p \/ b = p)
    <3>1. next = "record" /\ \A f \in Due(p) : ~ Locked(f)
      BY Zenon, <1>1, <1>5, <2>3 DEF InTransaction
    <3> QED
      BY ZenonT(60), <1>1, <1>5, <2>3, <3>1 DEF InTransaction, Locked
  <2> QED
    BY ZenonT(60), <2>1, <2>2, <2>3
<1>6. \A a, b \in Processes :
        a # b /\ InTransaction(a)' /\ InTransaction(b)' => Due(a)' \cap Due(b)' = {}
  BY ZenonT(60), <1>3, <1>5
<1>7. /\ \A q \in Processes : Prefix(applied'[q]) /\ applied'[q] \subseteq recorded'
      /\ \A q \in Processes : pc'[q] = "commit" => Due(q)' \cap recorded' = {}
      /\ \A q \in Processes : pc'[q] = "up" => recorded' = Files
  BY Zenon, <1>1, <1>3 DEF Maps
<1>8. Maps'
  BY Zenon, <1>6, <1>7 DEF Maps, InTransaction, Prefix, N
<1> QED
  BY ZenonT(60), <1>2, <1>4, <1>8

\* A process reads, or loses, its map.
LEMMA MapStep ==
    ASSUME SchemaInv, NEW p \in Processes, NEW next \in {"list", "exec"}, Goto(p, next),
           NEW S \in {{}, recorded}, applied' = [applied EXCEPT ![p] = S],
           UNCHANGED <<schema, recorded, commits, manual, crashes>>,
           restarts' \in 0..MaxRestarts
    PROVE  SchemaInv'
<1> USE DEF SchemaInv
<1>1. /\ \A q \in Processes : pc'[q] = IF q = p THEN next ELSE pc[q]
      /\ \A q \in Processes : applied'[q] = IF q = p THEN S ELSE applied[q]
  BY Zenon DEF Goto, TypeOK
<1>2. Prefix(S) /\ S \subseteq recorded
  <2>1. {} = 1..0 /\ 0 \in 0..N
    BY FilesAre
  <2> QED
    BY Zenon, <2>1 DEF Prefix, Rows
<1>3. TypeOK'
  BY Zenon, <1>2 DEF TypeOK, Goto
<1>4. \A q \in Processes \ {p} : Due(q)' = Due(q)
  BY Zenon, <1>1 DEF Due
<1>5. Rows'
  BY Zenon DEF Rows, Prefix
<1>6. \A a, b \in Processes :
        a # b /\ InTransaction(a)' /\ InTransaction(b)' => Due(a)' \cap Due(b)' = {}
  BY Zenon, <1>1, <1>4 DEF Maps, InTransaction
<1>7. /\ \A q \in Processes : Prefix(applied'[q]) /\ applied'[q] \subseteq recorded'
      /\ \A q \in Processes : pc'[q] = "commit" => Due(q)' \cap recorded' = {}
      /\ \A q \in Processes : pc'[q] = "up" => recorded' = Files
  BY Zenon, <1>1, <1>2, <1>4 DEF Maps
<1>8. Maps'
  BY Zenon, <1>6, <1>7 DEF Maps, InTransaction, Prefix, N
<1> QED
  BY ZenonT(60), <1>3, <1>5, <1>8

\* COMMIT of a file: it is the next row, since the map is a prefix of the rows
\* and the file is not among them.
LEMMA CommitStep ==
    ASSUME SchemaInv, NEW p \in Processes, Commit(p)
    PROVE  SchemaInv'
<1> USE DEF SchemaInv
<1>1. PICK f \in Due(p) : /\ schema' = schema \cup {f}
                          /\ recorded' = recorded \cup {f}
                          /\ commits' = [commits EXCEPT ![f] = @ + 1]
                          /\ applied' = [applied EXCEPT ![p] = @ \cup {f}]
  BY Zenon DEF Commit
<1>2. pc[p] = "commit" /\ Goto(p, "exec") /\ UNCHANGED <<manual, crashes, restarts>>
  BY Zenon DEF Commit
<1>3. PICK n \in 0..N : applied[p] = 1..n
  BY Zenon DEF Maps, Prefix
<1>4. PICK m \in 0..N : recorded = 1..m
  BY Zenon DEF Rows, Prefix
<1>5. n < N /\ f = n + 1 /\ Due(p) = {f}
  BY SMTT(30), <1>1, <1>3, DueIs
<1>6. f \notin recorded /\ applied[p] \subseteq recorded
  BY ZenonT(60), <1>1, <1>2 DEF Maps
<1>7. m = n
  BY SMTT(30), FilesAre, <1>3, <1>4, <1>5, <1>6
<1>8. f \in Files /\ recorded' = 1..f /\ applied[p] \cup {f} = 1..f /\ f \in 0..N
  BY SMTT(30), FilesAre, <1>1, <1>3, <1>4, <1>5, <1>7
<1>9. commits \in [Files -> {0, 1}] /\ commits[f] = 0
  <2>1. commits \in [Files -> {0, 1}]
    BY Zenon DEF TypeOK
  <2>2. commits[f] \in {0, 1}
    BY <1>8, <2>1, Zenon
  <2>3. ~(commits[f] > 0)
    BY Zenon, <1>6, <1>8 DEF Rows
  <2> QED
    BY SMTT(30), <2>1, <2>2, <2>3
<1>10. /\ \A q \in Processes : pc'[q] = IF q = p THEN "exec" ELSE pc[q]
       /\ \A q \in Processes : applied'[q] = IF q = p THEN 1..f ELSE applied[q]
  BY Zenon, <1>1, <1>2, <1>8 DEF Goto, TypeOK
<1>11. TypeOK'
  <2>1. commits' \in [Files -> {0, 1}]
    BY SMTT(20), <1>1, <1>8, <1>9
  <2>2. applied' \in [Processes -> SUBSET Files]
    BY Zenon, <1>1, <1>8 DEF TypeOK
  <2> QED
    BY ZenonT(60), <1>1, <1>2, <1>8, <2>1, <2>2 DEF TypeOK, Goto
<1>12. Rows'
  <2>1. Prefix(recorded)'
    BY Zenon, <1>8 DEF Prefix, N
  <2>2. \A g \in Files : commits'[g] > 0 => g \in recorded'
    BY Zenon, <1>1, <1>8 DEF Rows, TypeOK
  <2> QED
    BY ZenonT(60), <1>1, <2>1, <2>2 DEF Rows
<1>13. \A q \in Processes \ {p} : Due(q)' = Due(q)
  BY Zenon, <1>10 DEF Due
<1>14. \A a, b \in Processes :
        a # b /\ InTransaction(a)' /\ InTransaction(b)' => Due(a)' \cap Due(b)' = {}
  BY Zenon, <1>10, <1>13 DEF Maps, InTransaction
<1>15. \A q \in Processes : Prefix(applied'[q]) /\ applied'[q] \subseteq recorded'
  <2>1. Prefix(1..f)
    BY Zenon, <1>8 DEF Prefix
  <2> QED
    BY ZenonT(60), <1>1, <1>8, <1>10, <2>1 DEF Maps
<1>16. ASSUME NEW q \in Processes, pc'[q] = "commit" PROVE Due(q)' \cap recorded' = {}
  <2>1. q # p /\ pc[q] = "commit"
    BY Zenon, <1>10, <1>16
  <2>2. Due(q) \cap recorded = {} /\ Due(q) \cap Due(p) = {}
    BY ZenonT(60), <1>2, <2>1 DEF Maps, InTransaction
  <2> QED
    BY ZenonT(60), <1>1, <1>13, <2>1, <2>2
<1>17. \A q \in Processes : pc'[q] = "up" => recorded' = Files
  BY SMTT(30), <1>1, <1>8, <1>10 DEF Maps
<1>18. Maps'
  BY ZenonT(60), <1>14, <1>15, <1>16, <1>17 DEF Maps, InTransaction, Prefix, N
<1> QED
  BY ZenonT(60), <1>11, <1>12, <1>18

\* psql adds to the schema what the guide names, and no row.
LEMMA ByHandStep ==
    ASSUME SchemaInv, NEW f \in Guide, RunByHand(f)
    PROVE  SchemaInv'
<1> USE DEF SchemaInv
<1>1. /\ schema' \in {schema, schema \cup {f}}
      /\ manual' \in [Guide -> {"to do", "done", "error"}]
      /\ UNCHANGED <<recorded, commits, pc, applied, crashes, restarts>>
  BY Zenon DEF RunByHand, TypeOK
<1>2. TypeOK' /\ Rows'
  BY Zenon, <1>1 DEF TypeOK, Rows, Prefix
<1>3. Maps'
  BY ZenonT(40), <1>1 DEF Maps, InTransaction, Due, Prefix
<1> QED
  BY Zenon, <1>2, <1>3

LEMMA ApplyStep ==
    ASSUME SchemaInv, NEW p \in Processes, Apply(p)
    PROVE  SchemaInv'
<1>0. /\ manual \in [Guide -> {"to do", "done", "error"}]
      /\ crashes \in 0..MaxCrashes /\ restarts \in 0..MaxRestarts
  BY Zenon DEF SchemaInv, TypeOK
<1>1. CASE List(p)
  BY Zenon, <1>0, <1>1, MapStep DEF List
<1>2. CASE Exec(p)
  <2>1. PICK f \in Due(p) : ~ Locked(f) /\ Goto(p, IF Runs(f) THEN "record" ELSE "failed")
    BY ZenonT(60), <1>2 DEF Exec
  <2>2. Due(p) = {f}
    BY <2>1, DueIs DEF SchemaInv, Maps, Prefix
  <2> QED
    BY ZenonT(60), <1>0, <1>2, <2>1, <2>2, Moves DEF Exec
<1>3. CASE Record(p)
  <2>1. PICK f \in Due(p) : Goto(p, IF f \in recorded THEN "failed" ELSE "commit")
    BY ZenonT(60), <1>3 DEF Record
  <2>2. Due(p) = {f} /\ InTransaction(p)
    BY SMTT(20), <1>3, <2>1, DueIs DEF SchemaInv, Maps, Prefix, Record, InTransaction
  <2>3. CASE f \in recorded
    BY ZenonT(60), <1>0, <1>3, <2>1, <2>3, Moves DEF Record
  <2>4. CASE f \notin recorded
    <3>1. Due(p) \cap recorded = {}
      BY Zenon, <2>2, <2>4
    <3> QED
      BY ZenonT(60), <1>0, <1>3, <2>1, <2>2, <2>4, <3>1, Moves DEF Record
  <2> QED
    BY Zenon, <2>3, <2>4
<1>4. CASE Commit(p)
  BY Zenon, <1>4, CommitStep
<1>5. CASE Finish(p)
  <2>1. PICK n \in 0..N : applied[p] = 1..n
    BY ZenonT(60) DEF SchemaInv, Maps, Prefix
  <2>2. n = N /\ applied[p] = Files
    <3>1. Due(p) = {}
      BY Zenon, <1>5 DEF Finish
    <3>2. Due(p) = IF n < N THEN {n + 1} ELSE {}
      BY Zenon, <2>1, DueIs
    <3>3. ~(n < N)
      BY Zenon, <3>1, <3>2
    <3>4. n = N
      BY SMTT(30), <3>3, FilesAre
    <3> QED
      BY Zenon, <2>1, <3>4, FilesAre
  <2>3. recorded = Files
    BY Zenon, <2>2 DEF SchemaInv, Maps, TypeOK
  <2> QED
    BY ZenonT(40), <1>0, <1>5, <2>3, Moves DEF Finish
<1> QED
  BY Zenon, <1>1, <1>2, <1>3, <1>4, <1>5 DEF Apply

LEMMA CrashStep ==
    ASSUME SchemaInv, NEW p \in Processes, Crash(p)
    PROVE  SchemaInv'
<1>1. /\ Goto(p, "failed") /\ crashes' \in 0..MaxCrashes
      /\ UNCHANGED <<schema, recorded, commits, applied>>
      /\ manual' \in [Guide -> {"to do", "done", "error"}] /\ restarts' \in 0..MaxRestarts
  <2>1. /\ crashes \in 0..MaxCrashes /\ restarts \in 0..MaxRestarts
        /\ manual \in [Guide -> {"to do", "done", "error"}]
    BY Zenon DEF SchemaInv, TypeOK
  <2>2. crashes < MaxCrashes /\ crashes' = crashes + 1
    BY Zenon DEF Crash
  <2>3. crashes' \in 0..MaxCrashes
    <3>1. crashes \in 0..MaxCrashes /\ MaxCrashes \in Nat
      BY Zenon, <2>1
    <3> HIDE MigrationsAssumption
    <3> QED
      BY <2>2, <3>1
  <2> QED
    BY <2>1, <2>3, Zenon DEF Crash
<1> QED
  BY Zenon, <1>1, Moves

\* A process is started: it has no map.
LEMMA StartedStep ==
    ASSUME SchemaInv, NEW p \in Processes, Restart(p) \/ (Restarted /\ p = Watched)
    PROVE  SchemaInv'
<1>1. /\ Goto(p, "list") /\ applied' = [applied EXCEPT ![p] = {}]
      /\ UNCHANGED <<schema, recorded, commits, manual, crashes>>
      /\ restarts' \in 0..MaxRestarts
  <2>1. restarts \in 0..MaxRestarts /\ MaxRestarts \in Nat
    BY Zenon DEF SchemaInv, TypeOK
  <2> QED
    BY <2>1 DEF Restart, Restarted
<1> QED
  BY ZenonT(60), <1>1, MapStep

LEMMA SchemaInit == Init => SchemaInv
<1> SUFFICES ASSUME Init PROVE SchemaInv
  BY Zenon
<1>1. /\ schema = recorded /\ Prefix(recorded) /\ recorded \subseteq Files
      /\ \A p \in Processes : pc[p] = "list" /\ applied[p] = {}
      /\ \A f \in Files : commits[f] = 0
  <2>1. PICK n \in 0..N : schema = 1..n
    BY Zenon DEF Init, N
  <2>2. schema \subseteq Files
    BY FilesAre, <2>1
  <2> QED
    BY Zenon, <2>1, <2>2 DEF Init, Prefix
<1>2. TypeOK
  <2>1. 0 \in 0..MaxCrashes /\ 0 \in 0..MaxRestarts
    OBVIOUS
  <2> QED
    BY Zenon, <1>1, <2>1 DEF Init, TypeOK
<1>3. Prefix({})
  <2>1. {} = 1..0 /\ 0 \in 0..N
    BY SMTT(30), FilesAre
  <2> QED
    BY Zenon, <2>1 DEF Prefix
<1>4. Rows
  BY <1>1 DEF Rows
<1>5. Maps
  BY Zenon, <1>1, <1>3 DEF Maps, InTransaction
<1> QED
  BY ZenonT(60), <1>2, <1>4, <1>5 DEF SchemaInv

LEMMA SchemaUnchanged ==
    ASSUME SchemaInv, UNCHANGED vars
    PROVE  SchemaInv'
  BY ZenonT(40) DEF vars, SchemaInv, TypeOK, Rows, Maps, Prefix, InTransaction, Due

\* Every step of a deployment is one of the migrations, or leaves the database
\* alone.
LEMMA SchemaStep ==
    ASSUME SchemaInv, [DeploymentNext]_allVars
    PROVE  SchemaInv'
<1>1. CASE \E p \in Processes : Migrate(p)
  BY Zenon, <1>1, ApplyStep DEF Migrate
<1>2. CASE Migrated \/ FatalError \/ Lives \/ UNCHANGED allVars
  BY Zenon, <1>2, SchemaUnchanged DEF Migrated, FatalError, Lives, allVars
<1>3. CASE Killed
  BY Zenon, <1>3, CrashStep DEF Killed
<1>4. CASE Restarted
  BY Zenon, <1>4, StartedStep
<1>5. CASE Others
  BY ZenonT(60), <1>5, CrashStep, StartedStep, ByHandStep DEF Others
<1> QED
  BY Zenon, <1>1, <1>2, <1>3, <1>4, <1>5 DEF DeploymentNext

LEMMA SchemaAlways == DeploymentSpec => []SchemaInv
<1>1. DeploymentInit => SchemaInv
  BY Zenon, SchemaInit DEF DeploymentInit
<1> QED
  BY <1>1, SchemaStep, PTL DEF DeploymentSpec

\* However API processes start together, crash and are started again, and
\* whatever the operator runs with psql: Apply commits every file once and in
\* order, together with its schema_migrations row, and a process that has come
\* up has the whole schema.  For any number of files and processes.
THEOREM MigrationsInOrder == DeploymentSpec => []AppliedInOrder
<1>1. SchemaInv => AppliedInOrder
  <2> SUFFICES ASSUME SchemaInv PROVE AppliedInOrder
    BY Zenon
  <2>1. recorded = 1..Cardinality(recorded)
    <3>1. PICK n \in 0..N : recorded = 1..n
      BY Zenon DEF SchemaInv, Rows, Prefix
    <3>2. Cardinality(1..n) = n
      BY FilesAre, FS_Interval
    <3> QED
      BY Zenon, <3>1, <3>2
  <2>2. \A p \in Processes : pc[p] = "up" => schema = Files
    BY Zenon DEF SchemaInv, Rows, Maps, TypeOK
  <2> QED
    BY Zenon, <2>1, <2>2 DEF SchemaInv, Rows, AppliedInOrder
<1> QED
  BY <1>1, SchemaAlways, PTL

-----------------------------------------------------------------------------
(* The watched process.                                                    *)

LEMMA LifeInit == DeploymentInit => LifeInv
<1> SUFFICES ASSUME Init, Api!Init PROVE LifeInv
  BY Zenon DEF DeploymentInit
<1> USE DEF Api!Init
<1>1. Api!TypeOK
  <2>1. {grouped, signal, cancelled, deadline} \subseteq BOOLEAN
    BY Zenon
  <2> QED
    BY <2>1 DEF Api!TypeOK
<1>2. Pipeline
  BY Zenon DEF Init, Pipeline, Starting, Running, Migrating, Stopped
<1>3. Serving /\ Clients
  BY Zenon DEF Serving, Clients, Starting, Stopping, Migrating
<1> QED
  BY Zenon, <1>1, <1>2, <1>3 DEF LifeInv

\* Steps of the migrations that leave the watched process where it is, and a
\* row where it is.
LEMMA LifeOfOthers ==
    ASSUME LifeInv, UNCHANGED lifeVars, recorded = Files => recorded' = Files,
           main # "migrate" => pc'[Watched] = pc[Watched]
    PROVE  LifeInv'
<1> USE DEF LifeInv, lifeVars
<1>1. Api!TypeOK'
  BY SMTT(20) DEF Api!TypeOK
<1>2. Pipeline'
  BY Zenon DEF Pipeline, LoopsRun, Alive, Migrating
<1>3. Serving' /\ Clients'
  BY Zenon DEF Serving, Clients, LoopsRun
<1> QED
  BY ZenonT(60), <1>1, <1>2, <1>3

\* The startup of main, up to the server.
LEMMA StartsStep ==
    ASSUME LifeInv, SchemaInv, UNCHANGED vars, Api!Starts
    PROVE  LifeInv'
<1> USE DEF LifeInv, vars, Api!started, Api!loopVars, Api!clients, Api!Goes
<1>1. CASE Api!OpenPool
  <2>1. Api!TypeOK'
    BY Zenon, <1>1 DEF Api!OpenPool, Api!TypeOK
  <2>2. Pipeline'
    BY Zenon, <1>1 DEF Api!OpenPool, Pipeline, LoopsRun, Alive, Api!TypeOK,
              Migrating, Starting, Running, Stopping, Stopped
  <2>3. Serving'
    BY Zenon, <1>1 DEF Api!OpenPool, Pipeline, Serving, Maps, SchemaInv, LoopsRun, Api!TypeOK,
              Migrating, Starting, Running, Stopping, Stopped
  <2>4. Clients'
    BY ZenonT(60), <1>1 DEF Api!OpenPool, Clients, Api!TypeOK, Migrating, Starting, Running, Stopping, Stopped
  <2> QED
    BY ZenonT(60), <2>1, <2>2, <2>3, <2>4
<1>2. CASE Api!EnsureConsumerGroup
  <2>1. Api!TypeOK'
    BY Zenon, <1>2 DEF Api!EnsureConsumerGroup, Api!TypeOK
  <2>2. Pipeline'
    BY Zenon, <1>2 DEF Api!EnsureConsumerGroup, Pipeline, LoopsRun, Alive, Api!TypeOK,
              Migrating, Starting, Running, Stopping, Stopped
  <2>3. Serving'
    BY Zenon, <1>2 DEF Api!EnsureConsumerGroup, Pipeline, Serving, Maps, SchemaInv, LoopsRun, Api!TypeOK,
              Migrating, Starting, Running, Stopping, Stopped
  <2>4. Clients'
    BY ZenonT(60), <1>2 DEF Api!EnsureConsumerGroup, Clients, Api!TypeOK, Migrating, Starting, Running, Stopping, Stopped
  <2> QED
    BY Zenon, <2>1, <2>2, <2>3, <2>4
<1>3. CASE Api!LaunchWorkers
  <2>1. Api!TypeOK'
    BY SMTT(20), <1>3 DEF Api!LaunchWorkers, Api!TypeOK
  <2>2. Pipeline'
    BY SMTT(20), <1>3 DEF Api!LaunchWorkers, Pipeline, LoopsRun, Alive, Api!TypeOK,
              Migrating, Starting, Running, Stopping, Stopped
  <2>3. Serving'
    BY Zenon, <1>3 DEF Api!LaunchWorkers, Pipeline, Serving, Maps, SchemaInv, LoopsRun, Api!TypeOK,
              Migrating, Starting, Running, Stopping, Stopped
  <2>4. Clients'
    BY ZenonT(60), <1>3 DEF Api!LaunchWorkers, Clients, Api!TypeOK, Migrating, Starting, Running, Stopping, Stopped
  <2> QED
    BY Zenon, <2>1, <2>2, <2>3, <2>4
<1>4. CASE Api!Listen
  <2>1. Api!TypeOK'
    BY Zenon, <1>4 DEF Api!Listen, Api!TypeOK
  <2>2. Pipeline'
    BY Zenon, <1>4 DEF Api!Listen, Pipeline, LoopsRun, Alive, Api!TypeOK,
              Migrating, Starting, Running, Stopping, Stopped
  <2>3. Serving'
    BY Zenon, <1>4 DEF Api!Listen, Pipeline, Serving, Maps, SchemaInv, LoopsRun, Api!TypeOK,
              Migrating, Starting, Running, Stopping, Stopped
  <2>4. Clients'
    BY Zenon, <1>4 DEF Api!Listen, Clients, Api!TypeOK, Migrating, Starting, Running, Stopping, Stopped
  <2> QED
    BY Zenon, <2>1, <2>2, <2>3, <2>4
<1> QED
  BY ZenonT(60), <1>1, <1>2, <1>3, <1>4 DEF Api!Starts

\* Its way down: each statement comes after what it relies on.
LEMMA WayDownStep ==
    ASSUME LifeInv, SchemaInv, UNCHANGED vars, Api!WayDown
    PROVE  LifeInv'
<1> USE DEF LifeInv, vars, Api!started, Api!loopVars, Api!clients, Api!Goes
<1>1. CASE Api!ShutdownBegins
  <2>1. Api!TypeOK'
    BY Zenon, <1>1 DEF Api!ShutdownBegins, Api!TypeOK
  <2>2. Pipeline'
    BY Zenon, <1>1 DEF Api!ShutdownBegins, Pipeline, LoopsRun, Alive, Api!TypeOK,
              Migrating, Starting, Running, Stopping, Stopped
  <2>3. Serving'
    BY Zenon, <1>1 DEF Api!ShutdownBegins, Serving, Clients, Api!TypeOK,
              Migrating, Starting, Running, Stopping, Stopped
  <2>4. Clients'
    BY ZenonT(60), <1>1 DEF Api!ShutdownBegins, Clients, Api!TypeOK, Migrating, Starting, Running, Stopping, Stopped
  <2> QED
    BY Zenon, <2>1, <2>2, <2>3, <2>4
<1>2. CASE Api!ShutdownReturns
  <2>1. Api!TypeOK'
    BY Zenon, <1>2 DEF Api!ShutdownReturns, Api!TypeOK
  <2>2. Pipeline'
    BY Zenon, <1>2 DEF Api!ShutdownReturns, Pipeline, LoopsRun, Alive, Api!TypeOK,
              Migrating, Starting, Running, Stopping, Stopped
  <2>3. Serving'
    BY Zenon, <1>2 DEF Api!ShutdownReturns, Pipeline, Serving, Maps, SchemaInv, LoopsRun, Api!TypeOK,
              Migrating, Starting, Running, Stopping, Stopped
  <2>4. Clients'
    BY ZenonT(60), <1>2 DEF Api!ShutdownReturns, Clients, Api!TypeOK, Migrating, Starting, Running, Stopping, Stopped
  <2> QED
    BY Zenon, <2>1, <2>2, <2>3, <2>4
<1>3. CASE Api!ServerErr
  <2>1. Api!TypeOK'
    BY Zenon, <1>3 DEF Api!ServerErr, Api!TypeOK
  <2>2. Pipeline'
    BY Zenon, <1>3 DEF Api!ServerErr, Pipeline, LoopsRun, Alive, Api!TypeOK,
              Migrating, Starting, Running, Stopping, Stopped
  <2>3. Serving'
    BY Zenon, <1>3 DEF Api!ServerErr, Pipeline, Serving, Maps, SchemaInv, LoopsRun, Api!TypeOK,
              Migrating, Starting, Running, Stopping, Stopped
  <2>4. Clients'
    BY ZenonT(60), <1>3 DEF Api!ServerErr, Clients, Api!TypeOK, Migrating, Starting, Running, Stopping, Stopped
  <2> QED
    BY Zenon, <2>1, <2>2, <2>3, <2>4
<1>4. CASE Api!CancelApp
  <2>1. Api!TypeOK'
    BY Zenon, <1>4 DEF Api!CancelApp, Api!TypeOK
  <2>2. Pipeline'
    BY Zenon, <1>4 DEF Api!CancelApp, Pipeline, LoopsRun, Alive, Api!TypeOK,
              Migrating, Starting, Running, Stopping, Stopped
  <2>3. Serving'
    BY Zenon, <1>4 DEF Api!CancelApp, Pipeline, Serving, Maps, SchemaInv, LoopsRun, Api!TypeOK,
              Migrating, Starting, Running, Stopping, Stopped
  <2>4. Clients'
    BY ZenonT(60), <1>4 DEF Api!CancelApp, Clients, Api!TypeOK, Migrating, Starting, Running, Stopping, Stopped
  <2> QED
    BY Zenon, <2>1, <2>2, <2>3, <2>4
<1>5. CASE Api!WorkersWait
  <2>1. Api!TypeOK'
    BY Zenon, <1>5 DEF Api!WorkersWait, Api!TypeOK
  <2>2. Pipeline'
    <3>1. "outbox" \in returned /\ "delivery" \in returned
      BY SMTT(20), <1>5 DEF Api!WorkersWait, Pipeline, Alive, Starting
    <3>2. returned = Api!Goroutines
      BY ZenonT(40), <3>1 DEF Api!TypeOK, Api!Goroutines
    <3> QED
      BY ZenonT(60), <1>5, <3>2 DEF Api!WorkersWait, Pipeline, LoopsRun, Alive, Api!TypeOK,
                        Migrating, Starting, Running, Stopping, Stopped
  <2>3. Serving'
    BY Zenon, <1>5 DEF Api!WorkersWait, Pipeline, Serving, Maps, SchemaInv, LoopsRun, Api!TypeOK,
              Migrating, Starting, Running, Stopping, Stopped
  <2>4. Clients'
    BY ZenonT(60), <1>5 DEF Api!WorkersWait, Clients, Api!TypeOK, Migrating, Starting, Running, Stopping, Stopped
  <2> QED
    BY Zenon, <2>1, <2>2, <2>3, <2>4
<1>6. CASE Api!CloseRedis
  <2>1. Api!TypeOK'
    BY Zenon, <1>6 DEF Api!CloseRedis, Api!TypeOK
  <2>2. Pipeline'
    BY Zenon, <1>6 DEF Api!CloseRedis, Pipeline, LoopsRun, Alive, Api!TypeOK,
              Migrating, Starting, Running, Stopping, Stopped
  <2>3. Serving'
    BY Zenon, <1>6 DEF Api!CloseRedis, Pipeline, Serving, Maps, SchemaInv, LoopsRun, Api!TypeOK,
              Migrating, Starting, Running, Stopping, Stopped
  <2>4. Clients'
    BY ZenonT(60), <1>6 DEF Api!CloseRedis, Clients, Api!TypeOK, Migrating, Starting, Running, Stopping, Stopped
  <2> QED
    BY Zenon, <2>1, <2>2, <2>3, <2>4
<1>7. CASE Api!ClosePool
  <2>1. Api!TypeOK'
    BY Zenon, <1>7 DEF Api!ClosePool, Api!TypeOK
  <2>2. Pipeline'
    BY Zenon, <1>7 DEF Api!ClosePool, Pipeline, LoopsRun, Alive, Api!TypeOK,
              Migrating, Starting, Running, Stopping, Stopped
  <2>3. Serving'
    BY Zenon, <1>7 DEF Api!ClosePool, Pipeline, Serving, Maps, SchemaInv, LoopsRun, Api!TypeOK,
              Migrating, Starting, Running, Stopping, Stopped
  <2>4. Clients'
    BY ZenonT(60), <1>7 DEF Api!ClosePool, Clients, Api!TypeOK, Migrating, Starting, Running, Stopping, Stopped
  <2> QED
    BY Zenon, <2>1, <2>2, <2>3, <2>4
<1>8. CASE Api!PoolClosed
  <2>1. Api!TypeOK'
    BY ZenonT(60), <1>8 DEF Api!PoolClosed, Api!TypeOK
  <2>2. Pipeline'
    BY Zenon, <1>8 DEF Api!PoolClosed, Pipeline, LoopsRun, Alive, Api!TypeOK,
              Migrating, Starting, Running, Stopping, Stopped
  <2>3. Serving'
    BY Zenon, <1>8 DEF Api!PoolClosed, Pipeline, Serving, Maps, SchemaInv, LoopsRun, Api!TypeOK,
              Migrating, Starting, Running, Stopping, Stopped
  <2>4. Clients'
    BY Zenon, <1>8 DEF Api!PoolClosed, Clients, Api!TypeOK, Migrating, Starting, Running, Stopping, Stopped
  <2> QED
    BY Zenon, <2>1, <2>2, <2>3, <2>4
<1> QED
  BY ZenonT(60), <1>1, <1>2, <1>3, <1>4, <1>5, <1>6, <1>7, <1>8 DEF Api!WayDown

\* The signal is only noted, and a failed server accepts nothing more.
LEMMA EndingStep ==
    ASSUME LifeInv, UNCHANGED vars, Api!Signal \/ Api!ServerFails
    PROVE  LifeInv'
<1> USE DEF LifeInv, vars, Api!started, Api!loopVars, Api!clients
<1>1. Api!TypeOK'
  BY ZenonT(40) DEF Api!Signal, Api!ServerFails, Api!TypeOK
<1>2. Pipeline'
  BY SMTT(30) DEF Api!Signal, Api!ServerFails, Pipeline, LoopsRun, Alive
<1>3. Serving' /\ Clients'
  BY DEF Api!Signal, Api!ServerFails, Serving, Clients, LoopsRun, Starting, Stopping
<1> QED
  BY ZenonT(60), <1>1, <1>2, <1>3

\* A loop calls while the context is not done, and ends once it is.
LEMMA LoopStep ==
    ASSUME LifeInv, UNCHANGED vars, NEW l \in Api!Loops,
           Api!Call(l) \/ Api!CallReturns(l) \/ Api!LoopReturns(l)
    PROVE  LifeInv'
<1> USE DEF LifeInv, vars, Api!started, Api!clients
<1>1. /\ main # "exited" /\ loop[l] \in {"idle", "call"}
      /\ \E next \in {"idle", "call", "done"} :
            /\ loop' = [loop EXCEPT ![l] = next]
            /\ next = "done" => cancelled
      /\ UNCHANGED <<main, grouped, deadline, signal, cancelled, server, returned, workers,
                     redis, pool, request>>
  BY Zenon DEF Api!Call, Api!CallReturns, Api!LoopReturns
<1>2. /\ loop' \in [Api!Loops -> {"none", "idle", "call", "done"}]
      /\ \A k \in Api!Loops \ {l} : loop'[k] = loop[k]
      /\ ~cancelled => loop'[l] \in {"idle", "call"}
  BY ZenonT(60), <1>1 DEF Api!TypeOK
<1>3. Api!TypeOK'
  BY SMTT(20), <1>1, <1>2 DEF Api!TypeOK
<1>4. main \in Running => LoopsRun'
  BY Zenon, <1>1, <1>2 DEF Pipeline, LoopsRun
<1>5. main \notin Starting
  BY ZenonT(60), <1>1 DEF Pipeline
<1>6. \A g \in returned : \A k \in Api!RunsLoops(g) : loop'[k] = "done"
  BY SMTT(20), <1>1, <1>2 DEF Pipeline, Api!TypeOK, Api!Goroutines, Api!RunsLoops, Api!Loops
<1>7. Pipeline'
  BY ZenonT(60), <1>1, <1>4, <1>5, <1>6 DEF Pipeline, Alive
<1>8. Serving' /\ Clients'
  BY Zenon, <1>1, <1>4 DEF Serving, Clients, Running
<1> QED
  BY ZenonT(60), <1>3, <1>7, <1>8

\* A goroutine leaves the wait group when its loops are done.
LEMMA DoneStep ==
    ASSUME LifeInv, UNCHANGED vars, NEW g \in Api!Goroutines, Api!Done(g)
    PROVE  LifeInv'
<1> USE DEF LifeInv, vars, Api!started, Api!clients
<1>1. /\ main # "exited" /\ g \notin returned /\ returned' = returned \cup {g}
      /\ \A l \in Api!RunsLoops(g) : loop[l] = "done"
      /\ workers' = workers - 1
      /\ UNCHANGED <<main, grouped, deadline, signal, cancelled, server, loop, redis, pool,
                     request>>
  BY Zenon DEF Api!Done
<1>2. PICK l \in Api!Loops : loop[l] = "done"
  BY Zenon, <1>1 DEF Api!Goroutines, Api!RunsLoops, Api!Loops
<1>3. main \notin Starting \cup Running \cup Stopped
  BY Zenon, <1>1, <1>2 DEF Pipeline, LoopsRun, Api!Goroutines
<1>4. workers = Alive("outbox") + Alive("delivery")
  BY ZenonT(60), <1>1, <1>3 DEF Pipeline
<1>5. workers' = Alive("outbox")' + Alive("delivery")' /\ workers' \in 0..2
  BY SMTT(20), <1>1, <1>4 DEF Alive, Api!Goroutines
<1>6. Api!TypeOK'
  BY SMTT(20), <1>1, <1>5 DEF Api!TypeOK
<1>7. Pipeline'
  BY ZenonT(60), <1>1, <1>3, <1>5 DEF Pipeline
<1>8. Serving' /\ Clients'
  BY Zenon, <1>1 DEF Serving, Clients, LoopsRun
<1> QED
  BY ZenonT(60), <1>6, <1>7, <1>8

\* Requests are accepted while the server listens; a pool that is closed has
\* given out no connection, and main waits for those it had given out.
LEMMA RequestsStep ==
    ASSUME LifeInv, UNCHANGED vars, NEW r \in Requests, Api!Accept(r) \/ Api!RequestStep(r)
    PROVE  LifeInv'
<1> USE DEF LifeInv, vars, Api!started, Api!clients, Api!loopVars
<1>1. PICK from \in {"none", "begun", "tx", "sent", "answer"},
           to \in {"none", "begun", "tx", "sent", "answer"} :
        Api!Request(r, from, to) /\ (from = "none" => server = "listening")
  BY Zenon DEF Api!Accept, Api!RequestStep, Api!Begin, Api!XAdd, Api!Commit, Api!Answer
<1>2. /\ main # "exited" /\ request[r] = from
      /\ request' = [request EXCEPT ![r] = to]
      /\ UNCHANGED <<main, grouped, deadline, signal, cancelled, server, loop, returned, workers,
                     redis, pool>>
  BY Zenon, <1>1 DEF Api!Request
<1>3. Api!TypeOK'
  BY ZenonT(60), <1>2 DEF Api!TypeOK
<1>4. Pipeline'
  BY Zenon, <1>2 DEF Pipeline, LoopsRun, Alive
<1>5. pool # "closed"
  BY Zenon, <1>2 DEF Clients
<1>6. Clients'
  BY Zenon, <1>2, <1>5 DEF Clients
<1>7. Serving'
  BY ZenonT(60), <1>1, <1>2, <1>5 DEF Serving, LoopsRun, Stopping, Api!TypeOK
<1> QED
  BY ZenonT(60), <1>3, <1>4, <1>6, <1>7

\* A migration, of the watched process or of another one, keeps its rows.
LEMMA MigrateStep ==
    ASSUME LifeInv, SchemaInv, (\E p \in Processes : Migrate(p)) \/ Others
    PROVE  LifeInv'
<1>1. UNCHANGED lifeVars
  BY Zenon DEF Migrate, Others
<1>2. recorded = Files => recorded' = Files
  <2>1. recorded \subseteq recorded' /\ recorded' \subseteq Files
    BY ZenonT(40), SchemaStep DEF SchemaInv, TypeOK, DeploymentNext, Migrate, Others, Apply, List, Exec, Record,
                      Commit, Finish, Crash, Restart, RunByHand
  <2> QED
    BY Zenon, <2>1
<1>3. main # "migrate" => pc'[Watched] = pc[Watched]
  BY ZenonT(60) DEF Migrate, Others, Apply, List, Exec, Record, Commit, Finish, Crash, Restart, RunByHand,
         Goto, SchemaInv, TypeOK
<1> QED
  BY ZenonT(60), <1>1, <1>2, <1>3, LifeOfOthers

\* Apply has returned nil, or the process ends.
LEMMA MigratedStep ==
    ASSUME LifeInv, SchemaInv, Migrated \/ FatalError \/ Killed
    PROVE  LifeInv'
<1> USE DEF LifeInv, vars, Api!started, Api!loopVars, Api!clients, Api!Goes
<1>1. CASE Migrated
  <2>1. Api!TypeOK'
    BY ZenonT(40), <1>1 DEF Migrated, Api!ApplyMigrations, Api!TypeOK
  <2>2. Pipeline'
    BY Zenon, <1>1 DEF Migrated, Api!ApplyMigrations, Pipeline, Alive,
                Migrating, Starting, Running, Stopped
  <2>3. Serving' /\ Clients'
    BY ZenonT(60), <1>1 DEF Migrated, Api!ApplyMigrations, Serving, Clients, LoopsRun,
                Migrating, Starting, Stopping
  <2> QED
    BY ZenonT(60), <2>1, <2>2, <2>3
<1>2. CASE FatalError \/ Killed
  <2>1. /\ main # "exited" /\ main' = "exited" /\ UNCHANGED recorded
        /\ UNCHANGED <<grouped, signal, cancelled, deadline, server, loop,
                       returned, workers, redis, pool, request>>
    BY Zenon, <1>2 DEF FatalError, Killed, Api!Fatal, Crash
  <2>2. Api!TypeOK'
    BY Zenon, <2>1 DEF Api!TypeOK
  <2>3. Pipeline'
    BY Zenon, <2>1 DEF Pipeline, Migrating, Starting, Running, Stopped
  <2>4. Serving' /\ Clients'
    BY Zenon, <2>1 DEF Serving, Clients, LoopsRun, Migrating, Starting, Stopping
  <2> QED
    BY Zenon, <2>2, <2>3, <2>4
<1> QED
  BY Zenon, <1>1, <1>2

\* A new process has started nothing.
LEMMA RestartedStep ==
    ASSUME LifeInv, SchemaInv, Restarted
    PROVE  LifeInv'
<1>1. pc'[Watched] = "list"
  BY ZenonT(40) DEF Restarted, Goto, SchemaInv, TypeOK
<1>2. Api!TypeOK'
  <2>1. {grouped', signal', cancelled', deadline'} \subseteq BOOLEAN
    BY Zenon DEF Restarted
  <2> QED
    BY <2>1 DEF Restarted, Api!TypeOK
<1>3. Pipeline'
  BY Zenon, <1>1 DEF Restarted, Pipeline, Migrating, Starting, Running, Stopped
<1>4. Serving' /\ Clients'
  BY Zenon DEF Restarted, Serving, Clients, Migrating, Starting, Stopping
<1> QED
  BY Zenon, <1>2, <1>3, <1>4 DEF LifeInv

LEMMA LifeStep ==
    ASSUME LifeInv, SchemaInv, [DeploymentNext]_allVars
    PROVE  LifeInv'
<1>1. CASE (\E p \in Processes : Migrate(p)) \/ Others
  BY Zenon, <1>1, MigrateStep
<1>2. CASE Migrated \/ FatalError \/ Killed
  BY Zenon, <1>2, MigratedStep
<1>3. CASE Restarted
  BY Zenon, <1>3, RestartedStep
<1>4. CASE Lives
  BY ZenonT(60), <1>4, StartsStep, WayDownStep, EndingStep, LoopStep, DoneStep, RequestsStep
     DEF Lives, Api!Live
<1>5. CASE UNCHANGED allVars
  BY Zenon, <1>5, LifeOfOthers DEF allVars, vars
<1> QED
  BY ZenonT(60), <1>1, <1>2, <1>3, <1>4, <1>5 DEF DeploymentNext

LEMMA LifeAlways == DeploymentSpec => [](SchemaInv /\ LifeInv)
<1>1. DeploymentInit => LifeInv
  BY Zenon, LifeInit
<1>2. SchemaInv /\ LifeInv /\ [DeploymentNext]_allVars => LifeInv'
  BY Zenon, LifeStep
<1> QED
  BY <1>1, <1>2, SchemaAlways, PTL DEF DeploymentSpec

\* While an API process accepts requests the pipeline behind them is up: all
\* files are applied and recorded, the consumer group exists and the three
\* loops run; main starts the server last and shuts it down before cancelApp.
THEOREM ServingIsRunning == DeploymentSpec => []AcceptingMeansRunning
<1>1. SchemaInv /\ LifeInv => AcceptingMeansRunning
  BY ZenonT(40) DEF SchemaInv, LifeInv, TypeOK, Rows, Serving, LoopsRun, AcceptingMeansRunning
<1> QED
  BY <1>1, LifeAlways, PTL

\* main closes a client only after every goroutine that calls it has left the
\* wait group, and ends only when no request holds a connection; a request is
\* left without an answer only if the server failed or the deadline passed.
THEOREM ClientsOutliveCalls == DeploymentSpec => []CallsUseOpenClients
<1>1. LifeInv => CallsUseOpenClients
  <2> SUFFICES ASSUME LifeInv PROVE CallsUseOpenClients
    BY Zenon
  <2>1. ASSUME main # "exited", NEW l \in Api!Loops, loop[l] = "call"
        PROVE  redis = "open" /\ pool = "open"
    <3>1. main \notin Starting \cup Stopped
      BY <2>1 DEF LifeInv, Pipeline, Api!Goroutines, Api!RunsLoops, Api!Loops
    <3> QED
      BY ZenonT(60), <2>1, <3>1 DEF LifeInv, Clients, Migrating, Starting, Stopped
  <2> QED
    BY Zenon, <2>1 DEF LifeInv, Serving, Clients, CallsUseOpenClients
<1> QED
  BY <1>1, LifeAlways, PTL
=============================================================================
