----------------------------- MODULE StatusView -----------------------------
(***************************************************************************)
(* internal/operations and the readers of internal/httpapi: what the       *)
(* status, DLQ detail, metrics and explain handlers show of one event      *)
(* while its transactions are going on.                                    *)
(*                                                                         *)
(* A row's created_at is now(), the START of its transaction, and readers  *)
(* sort by (created_at, id); a reader's statements are not in one          *)
(* transaction.  Every BEGIN has its own time: a network round trip lies   *)
(* between any two that depend on each other.  n is the position of the    *)
(* row in its transaction and stands for id.                               *)
(*                                                                         *)
(* Streams, groups and retry delays are Delivery's; here an entry is added *)
(* and taken, and an attempt has one of its three outcomes.  A rollback, a *)
(* crash and the reclaim of a slow worker's entry spend one unit of        *)
(* MaxFaults.                                                              *)
(***************************************************************************)
EXTENDS Integers, FiniteSets

CONSTANTS
    Workers,     \* delivery workers
    Redrives,    \* redrive requests
    Outbox,      \* the outbox runner
    Reads,       \* the reading calls in use: "EventStatus", "DLQDetail"
    MaxEntries,  \* bound: entries added to the stream
    MaxFaults    \* bound

Publishers == Redrives \cup {Outbox}
Actors == Workers \cup Publishers

ASSUME StatusViewAssumption ==
    /\ Workers \cap Publishers = {} /\ Outbox \notin Redrives
    /\ MaxEntries \in Nat \ {0} /\ MaxFaults \in Nat

VARIABLES
    clock,     \* the time of the latest BEGIN
    history,   \* committed rows of event_status_history
    attempts,  \* committed rows of delivery_attempts, by their transaction
    record,    \* dlq_records.status; redriven_at is set when it is REDRIVEN
    added,     \* entries added to the stream so far
    todo,      \* entries that are not acknowledged
    pc,        \* the next step of each worker or publisher
    began,     \* the start of its transaction
    cur,       \* the entry a worker has
    rpc,       \* the next statement of the reader
    view,      \* what it has read
    faults

vars == <<clock, history, attempts, record, added, todo, pc, began, cur, rpc, view, faults>>

Outcomes == {"DELIVERED", "RETRYING", "DEAD_LETTERED"}
Statuses == Outcomes \cup {"STORED", "PENDING_PUBLICATION", "PUBLISHED", "PROCESSING", "REDRIVEN"}

Rows == [at : Nat, n : {1, 2}, status : Statuses]

TypeOK ==
    /\ clock \in Nat
    /\ history \subseteq Rows
    /\ attempts \subseteq Nat
    /\ record \in {"none", "OPEN", "REDRIVEN"}
    /\ added \in 0..MaxEntries
    /\ todo \subseteq 1..MaxEntries
    /\ \A w \in Workers : pc[w] \in {"idle", "processing", "attempt", "scheduled", "ack"} \cup Outcomes
    /\ \A p \in Publishers : pc[p] \in {"idle", "lock", "send", "commit", "done"}
    /\ began \in [Actors -> Nat]
    /\ cur \in [Workers -> 0..MaxEntries]
    /\ rpc \in {"idle", "attempts", "status", "explain", "detailHistory", "detailAttempts", "detail"}
    /\ view \in [history : SUBSET history, attempts : SUBSET attempts,
                 record : {"none", "OPEN", "REDRIVEN"}]
    /\ faults \in 0..MaxFaults

\* The ingestion transaction is committed: its two rows have one created_at.
Init ==
    /\ clock = 0
    /\ history = { [at |-> 0, n |-> 1, status |-> "STORED"],
                   [at |-> 0, n |-> 2, status |-> "PENDING_PUBLICATION"] }
    /\ attempts = {}
    /\ record = "none"
    /\ added = 0 /\ todo = {}
    /\ pc = [a \in Actors |-> "idle"]
    /\ began = [a \in Actors |-> 0]
    /\ cur = [w \in Workers |-> 0]
    /\ rpc = "idle"
    /\ view = [history |-> {}, attempts |-> {}, record |-> "none"]
    /\ faults = 0

Goto(a, next) == pc' = [pc EXCEPT ![a] = next]

Fault == faults < MaxFaults /\ faults' = faults + 1

\* The transaction of a ends.
End(a) == began' = [began EXCEPT ![a] = 0]

Begin(a) ==
    /\ clock' = clock + 1
    /\ began' = [began EXCEPT ![a] = clock + 1]

\* Mutant of RowOf: created_at is the time of the COMMIT.
RowNow(a, status) == [at |-> Cardinality(history), n |-> 1, status |-> status]

\* The row InsertStatusHistory adds in the transaction of a.
RowOf(a, status) == [at |-> began[a], n |-> 1, status |-> status]

AddEntry ==
    /\ added < MaxEntries
    /\ added' = added + 1
    /\ todo' = todo \cup {added + 1}

Reader == <<rpc, view>>

-----------------------------------------------------------------------------
(* PublishNextOutboxEvent and RedriveDLQ.                                  *)

\* A redrive holds the lock of the record from its SELECT ... FOR UPDATE on.
RecordLocked == \E r \in Redrives : pc[r] \in {"send", "commit"}

PublishBegin(p) ==
    /\ pc[p] = "idle"
    /\ Begin(p)
    /\ Goto(p, IF p = Outbox THEN "send" ELSE "lock")
    /\ UNCHANGED <<history, attempts, record, added, todo, cur, faults, Reader>>

\* ErrDLQNotFound and ErrDLQNotOpen end the redrive.
RedriveLock(r) ==
    /\ pc[r] = "lock"
    /\ ~RecordLocked
    /\ IF record = "OPEN"
       THEN Goto(r, "send") /\ UNCHANGED began
       ELSE Goto(r, "done") /\ End(r)
    /\ UNCHANGED <<clock, history, attempts, record, added, todo, cur, faults, Reader>>

\* XADD: the entry is there for the workers before the transaction commits.
Send(p) ==
    /\ pc[p] = "send"
    /\ AddEntry
    /\ Goto(p, "commit")
    /\ UNCHANGED <<clock, history, attempts, record, began, cur, faults, Reader>>

\* The outbox row is marked published, or the record redriven; COMMIT.
PublishCommit(p) ==
    /\ pc[p] = "commit"
    /\ Goto(p, "done")
    /\ history' = history \cup {RowOf(p, IF p = Outbox THEN "PUBLISHED" ELSE "REDRIVEN")}
    /\ record' = IF p = Outbox THEN record ELSE "REDRIVEN"
    /\ End(p)
    /\ UNCHANGED <<clock, attempts, added, todo, cur, faults, Reader>>

\* The outbox row is rescheduled and tried again, a redrive answers 503.
PublishRollback(p) ==
    /\ pc[p] \in {"send", "commit"}
    /\ Goto(p, IF p = Outbox THEN "idle" ELSE "done")
    /\ End(p)
    /\ Fault
    /\ UNCHANGED <<clock, history, attempts, record, added, todo, cur, Reader>>

-----------------------------------------------------------------------------
(* The recorder calls of processStreamMessage.                             *)

Held(n) == \E w \in Workers : cur[w] = n

Take(w) ==
    /\ pc[w] = "idle"
    /\ \E n \in todo :
        /\ cur' = [cur EXCEPT ![w] = n]
        /\ IF Held(n) THEN Fault ELSE UNCHANGED faults
    /\ Begin(w)
    /\ Goto(w, "processing")
    /\ UNCHANGED <<history, attempts, record, added, todo, Reader>>

RecordProcessing(w) ==
    /\ pc[w] = "processing"
    /\ history' = history \cup {RowOf(w, "PROCESSING")}
    /\ Goto(w, "attempt")
    /\ End(w)
    /\ UNCHANGED <<clock, attempts, record, added, todo, cur, faults, Reader>>

\* The attempt ends, and the transaction that records it begins; before a
\* RETRYING row comes the ZADD, and the pump may be faster than the row.
Attempt(w) ==
    /\ pc[w] = "attempt"
    /\ \E outcome \in {"DELIVERED", "DEAD_LETTERED"} : Goto(w, outcome)
    /\ Begin(w)
    /\ UNCHANGED <<history, attempts, record, added, todo, cur, faults, Reader>>

ScheduleRetry(w) ==
    /\ pc[w] = "attempt"
    /\ AddEntry
    /\ Goto(w, "scheduled")
    /\ UNCHANGED <<clock, history, attempts, record, began, cur, faults, Reader>>

BeginRetrying(w) ==
    /\ pc[w] = "scheduled"
    /\ Begin(w)
    /\ Goto(w, "RETRYING")
    /\ UNCHANGED <<history, attempts, record, added, todo, cur, faults, Reader>>

\* RecordDelivered, RecordRetrying and RecordDeadLettered: the attempt, the
\* record, which waits for a redrive that holds its lock, and the history row.
RecordOutcome(w) ==
    /\ pc[w] \in Outcomes
    /\ pc[w] = "DEAD_LETTERED" => ~RecordLocked
    /\ attempts' = attempts \cup {began[w]}
    /\ record' = IF pc[w] = "DEAD_LETTERED" THEN "OPEN" ELSE record
    /\ history' = history \cup {RowOf(w, pc[w])}
    /\ Goto(w, "ack")
    /\ End(w)
    /\ UNCHANGED <<clock, added, todo, cur, faults, Reader>>

Leave(w) ==
    /\ Goto(w, "idle")
    /\ cur' = [cur EXCEPT ![w] = 0]

\* XACK.
Ack(w) ==
    /\ pc[w] = "ack"
    /\ todo' = todo \ {cur[w]}
    /\ Leave(w)
    /\ UNCHANGED <<clock, history, attempts, record, added, began, faults, Reader>>

\* A call fails or the process stops; the entry stays pending.
Crash(w) ==
    /\ pc[w] # "idle"
    /\ Leave(w)
    /\ End(w)
    /\ Fault
    /\ UNCHANGED <<clock, history, attempts, record, added, todo, Reader>>

-----------------------------------------------------------------------------
(* EventStatus and DLQDetail, a statement at a time.  The explain handler  *)
(* goes on from EventStatus to the record of DLQDetail, and uses no more   *)
(* of it; the triage handler is DLQDetail.                                 *)

Before(a, b) == a.at < b.at \/ (a.at = b.at /\ a.n < b.n)

\* The last row in the order of fetchStatusHistory, which is also the row
\* that MetricsSummary's DISTINCT ON keeps.
Latest(rows) == CHOOSE a \in rows : \A b \in rows \ {a} : Before(b, a)

CurrentStatus(rows) == Latest(rows).status

Store == <<clock, history, attempts, record, added, todo, pc, began, cur, faults>>

Read(part, value, next) ==
    /\ view' = [view EXCEPT ![part] = value]
    /\ rpc' = next
    /\ UNCHANGED Store

\* Mutant of EventStatus: the attempts are read before the history.
EventStatusAttemptsFirst ==
    \/ rpc = "idle" /\ "EventStatus" \in Reads /\ Read("attempts", attempts, "attempts")
    \/ rpc = "attempts" /\ Read("history", history, "status")

EventStatus ==
    \/ rpc = "idle" /\ "EventStatus" \in Reads /\ Read("history", history, "attempts")
    \/ rpc = "attempts" /\ Read("attempts", attempts, "status")

\* explainRequestFromStore: ErrDLQNotFound is no error here.
ExplainRecord == rpc = "status" /\ Read("record", record, "explain")

\* ErrDLQNotFound when there is no record.
DLQDetail ==
    \/ rpc = "idle" /\ "DLQDetail" \in Reads /\ record # "none" /\ Read("record", record, "detailHistory")
    \/ rpc = "detailHistory" /\ Read("history", history, "detailAttempts")
    \/ rpc = "detailAttempts" /\ Read("attempts", attempts, "detail")

NothingRead == [history |-> {}, attempts |-> {}, record |-> "none"]

\* The handler answers.
Respond ==
    /\ rpc \in {"status", "explain", "detail"}
    /\ rpc' = "idle" /\ view' = NothingRead
    /\ UNCHANGED Store

Shown(status) == \E a \in view.history : a.status = status

\* Mutant of EnteredDLQ: only an open record counts.
EnteredIfOpen == view.record = "OPEN"

EnteredDLQ == view.record # "none" \/ Shown("DEAD_LETTERED")

RedriveCount ==
    LET rows == Cardinality({ a \in view.history : a.status = "REDRIVEN" })
    IN  IF rows = 0 /\ view.record = "REDRIVEN" THEN 1 ELSE rows

\* explainRequestFromStore, with the fields the validator compares.
ExplainRequest ==
    LET current == CurrentStatus(view.history)
    IN  [ currentStatus |-> current,
          statusHistory |-> { a.status : a \in view.history },
          attempts      |-> view.attempts,
          enteredDLQ    |-> EnteredDLQ,
          redriveCount  |-> RedriveCount,
          delivered     |-> current = "DELIVERED" ]

\* ExplainRequest._validate_snapshot of the AI service, which answers 422 to
\* a request that fails it.
ValidSnapshot(q) ==
    /\ q.statusHistory # {} \/ q.attempts # {}
    /\ q.delivered = (q.currentStatus = "DELIVERED")
    /\ (q.currentStatus = "DEAD_LETTERED" \/ "DEAD_LETTERED" \in q.statusHistory) => q.enteredDLQ
    /\ q.redriveCount > 0 => q.enteredDLQ

-----------------------------------------------------------------------------
WorkerStep(w) ==
    \/ Take(w) \/ RecordProcessing(w) \/ Attempt(w) \/ ScheduleRetry(w)
    \/ BeginRetrying(w) \/ RecordOutcome(w) \/ Ack(w)

PublisherStep(p) ==
    \/ PublishBegin(p) \/ Send(p) \/ PublishCommit(p)

ReaderStep == EventStatus \/ ExplainRecord \/ DLQDetail \/ Respond

Next ==
    \/ \E w \in Workers : WorkerStep(w) \/ Crash(w)
    \/ \E p \in Publishers : PublisherStep(p) \/ PublishRollback(p)
    \/ \E r \in Redrives : RedriveLock(r)
    \/ ReaderStep

Spec == Init /\ [][Next]_vars

-----------------------------------------------------------------------------
\* Every outcome that EventStatus or DLQDetail shows comes with the attempt it
\* is the outcome of: both are written by one transaction, and the attempts
\* are read after the history.  And the state of the record that DLQDetail
\* shows is explained by the history it shows, although a redrive or a
\* dead-lettering may commit between the two statements.  The variables have
\* their types.
OutcomesShowAttempts ==
    /\ TypeOK
    /\ rpc \in {"status", "detail"} =>
        \A a \in view.history : a.status \in Outcomes => a.at \in view.attempts
    /\ rpc = "detail" =>
        Shown(IF view.record = "OPEN" THEN "DEAD_LETTERED" ELSE "REDRIVEN")

\* The explain handler never sends a request that the AI service refuses as
\* inconsistent, whatever commits between the statements it is built from.
SnapshotAccepted == rpc = "explain" => ValidSnapshot(ExplainRequest)

Settled ==
    /\ todo = {}
    /\ \A w \in Workers : pc[w] = "idle"
    /\ \A p \in Publishers : pc[p] \in {"idle", "done"}

\* When nothing is going on, the current status of an event that was sent is
\* the outcome of an attempt: PUBLISHED and REDRIVEN, which are committed
\* after the workers can have the entry, never hide what became of it.  Checked
\* with one worker and one fault, and proved for any number of workers with one
\* fault and any number of faults with one worker: two workers and two faults
\* can leave another row in front.
SettledShowsOutcome ==
    (Settled /\ pc[Outbox] = "done") => CurrentStatus(history) \in Outcomes
=============================================================================
