------------------------------- MODULE Outbox -------------------------------
(***************************************************************************)
(* internal/outbox: the runners of several API processes, each calling     *)
(* PublishNextOutboxEvent in a loop: claim a due row, XADD it, commit.     *)
(*                                                                         *)
(* The pending rows are kept in the order of (next_attempt_at, created_at) *)
(* with the time that is left until each is due.  The delay of a           *)
(* reschedule is any of 1..MaxDelay units, less the time the transaction   *)
(* took; its exact length is outboxBackoff's, in OutboxBackoff.            *)
(* A lost reply, a failed commit or a crash spends one unit of MaxFaults;  *)
(* an XADD that fails costs nothing, Redis may be down for any time.       *)
(***************************************************************************)
EXTENDS Integers, Sequences

CONSTANTS
    Events,      \* events, each with at most one outbox row
    Publishers,  \* outbox runners
    NoRow,
    Healthy,     \* rows that Redis accepts if they are tried often enough
    MaxDelay,    \* the longest backoff, in units of time
    MaxFaults    \* bound

ASSUME OutboxAssumption ==
    /\ NoRow \notin Events
    /\ Healthy \subseteq Events
    /\ MaxDelay \in Nat \ {0}
    /\ MaxFaults \in Nat

VARIABLES
    status,  \* outbox.status of each event's row, "none" before it exists
    queue,   \* the pending rows in the order of next_attempt_at
    left,    \* the time until each row is due, 0 when it is
    sent,    \* entries added to the stream for each event
    pc,      \* where each runner is
    row,     \* the row its transaction has locked
    ahead,   \* the rows that were due when it was claimed
    faults

vars == <<status, queue, left, sent, pc, row, ahead, faults>>

TypeOK ==
    /\ status \in [Events -> {"none", "pending", "published"}]
    /\ queue \in Seq(Events)
    /\ left \in [Events -> 0..MaxDelay]
    /\ sent \in [Events -> Nat]
    /\ pc \in [Publishers -> {"poll", "wait", "publish", "mark", "reschedule"}]
    /\ row \in [Publishers -> Events \cup {NoRow}]
    /\ ahead \in [Publishers -> SUBSET Events]
    /\ faults \in 0..MaxFaults

Init ==
    /\ status = [e \in Events |-> "none"]
    /\ queue = <<>> /\ left = [e \in Events |-> 0]
    /\ sent = [e \in Events |-> 0]
    /\ pc = [p \in Publishers |-> "poll"]
    /\ row = [p \in Publishers |-> NoRow]
    /\ ahead = [p \in Publishers |-> {}]
    /\ faults = 0

Fault == faults < MaxFaults /\ faults' = faults + 1

Pending == { queue[i] : i \in 1..Len(queue) }
Due == { e \in Pending : left[e] = 0 }
Locked(e) == \E p \in Publishers : row[p] = e

\* The pending rows other than e.
Without(e) ==
    LET i == CHOOSE i \in 1..Len(queue) : queue[i] = e
    IN  SubSeq(queue, 1, i - 1) \o SubSeq(queue, i + 1, Len(queue))

\* Row e takes its place in a queue, behind the rows of a given set.
Enqueue(rest, e, behind) ==
    \E i \in 1..Len(rest) + 1 :
        /\ \A j \in 1..i - 1 : left[rest[j]] <= left'[e]
        /\ \A j \in i..Len(rest) : left[rest[j]] >= left'[e] /\ rest[j] \notin behind
        /\ queue' = SubSeq(rest, 1, i - 1) \o <<e>> \o SubSeq(rest, i, Len(rest))

\* The ingestion transaction commits a row that is due at once; its now() may
\* be earlier than that of rows that are there already.
Insert(e) ==
    /\ status[e] = "none"
    /\ status' = [status EXCEPT ![e] = "pending"]
    /\ left' = [left EXCEPT ![e] = 0]
    /\ Enqueue(queue, e, {})
    /\ UNCHANGED <<sent, pc, row, ahead, faults>>

Tick ==
    /\ Due # Pending
    /\ left' = [e \in Events |-> IF left[e] > 0 THEN left[e] - 1 ELSE 0]
    /\ UNCHANGED <<status, queue, sent, pc, row, ahead, faults>>

-----------------------------------------------------------------------------
(* PublishNextOutboxEvent.                                                 *)

\* Mutant of Claim: the row is not locked.
ClaimUnlocked(p) ==
    /\ pc[p] = "poll"
    /\ \E i \in 1..Len(queue) :
        /\ left[queue[i]] = 0
        /\ row' = [row EXCEPT ![p] = queue[i]]
    /\ ahead' = [ahead EXCEPT ![p] = Due]
    /\ pc' = [pc EXCEPT ![p] = "publish"]
    /\ UNCHANGED <<status, queue, left, sent, faults>>

\* FOR UPDATE SKIP LOCKED LIMIT 1.
Claim(p) ==
    /\ pc[p] = "poll"
    /\ \E i \in 1..Len(queue) :
        /\ left[queue[i]] = 0 /\ ~Locked(queue[i])
        /\ \A j \in 1..i - 1 : Locked(queue[j])
        /\ row' = [row EXCEPT ![p] = queue[i]]
    /\ ahead' = [ahead EXCEPT ![p] = Due]
    /\ pc' = [pc EXCEPT ![p] = "publish"]
    /\ UNCHANGED <<status, queue, left, sent, faults>>

\* Found is false: the runner waits for the poll interval.
ClaimNothing(p) ==
    /\ pc[p] = "poll"
    /\ \A e \in Due : Locked(e)
    /\ pc' = [pc EXCEPT ![p] = "wait"]
    /\ UNCHANGED <<status, queue, left, sent, row, ahead, faults>>

\* The entry is added: the call returns; or its reply is lost and it returns
\* an error; or the Redis client sends it once more.
XAdd(p) ==
    /\ pc[p] = "publish"
    /\ sent' = [sent EXCEPT ![row[p]] = @ + 1]
    /\ \/ pc' = [pc EXCEPT ![p] = "mark"] /\ UNCHANGED faults
       \/ pc' = [pc EXCEPT ![p] = "reschedule"] /\ Fault
       \/ UNCHANGED pc /\ Fault
    /\ UNCHANGED <<status, queue, left, row, ahead>>

\* Mutant of XAddFails: the error is not looked at.
XAddErrorIgnored(p) ==
    /\ pc[p] = "publish"
    /\ pc' = [pc EXCEPT ![p] = "mark"]
    /\ UNCHANGED <<status, queue, left, sent, row, ahead, faults>>

XAddFails(p) ==
    /\ pc[p] = "publish"
    /\ pc' = [pc EXCEPT ![p] = "reschedule"]
    /\ UNCHANGED <<status, queue, left, sent, row, ahead, faults>>

\* The transaction ends; next is what the runner does then.
Release(p, next) ==
    /\ pc' = [pc EXCEPT ![p] = next]
    /\ row' = [row EXCEPT ![p] = NoRow]
    /\ ahead' = [ahead EXCEPT ![p] = {}]

\* A COMMIT that is done returns, or returns an error.
Committed(p) ==
    \/ Release(p, "poll") /\ UNCHANGED faults
    \/ Release(p, "wait") /\ Fault

\* Mutant of MarkPublished: the row can be claimed again.
MarkOnly(p) ==
    /\ pc[p] = "mark"
    /\ status' = [status EXCEPT ![row[p]] = "published"]
    /\ Committed(p)
    /\ UNCHANGED <<queue, left, sent>>

\* markOutboxPublished, the PUBLISHED history row, COMMIT.
MarkPublished(p) ==
    /\ pc[p] = "mark"
    /\ status' = [status EXCEPT ![row[p]] = "published"]
    /\ queue' = Without(row[p])
    /\ UNCHANGED left
    /\ Committed(p)
    /\ UNCHANGED sent

\* Mutant of Reschedule: no delay.
RescheduleAtOnce(p) ==
    /\ pc[p] = "reschedule"
    /\ Committed(p)
    /\ UNCHANGED <<status, queue, left, sent>>

\* rescheduleOutboxAfterFailure, COMMIT: next_attempt_at becomes later than
\* that of every row that was due when this one was claimed.
Reschedule(p) ==
    /\ pc[p] = "reschedule"
    /\ \E d \in 0..MaxDelay : left' = [left EXCEPT ![row[p]] = d]
    /\ Enqueue(Without(row[p]), row[p], ahead[p])
    /\ Committed(p)
    /\ UNCHANGED <<status, sent>>

\* A statement or the COMMIT fails, or the process stops: rolled back.
Rollback(p) ==
    /\ pc[p] \in {"publish", "mark", "reschedule"}
    /\ Release(p, "wait")
    /\ Fault
    /\ UNCHANGED <<status, queue, left, sent>>

\* waitForContext(pollInterval), or the restart of the process.
Wake(p) ==
    /\ pc[p] = "wait"
    /\ pc' = [pc EXCEPT ![p] = "poll"]
    /\ UNCHANGED <<status, queue, left, sent, row, ahead, faults>>

-----------------------------------------------------------------------------
Run(p) ==
    \/ Claim(p) \/ ClaimNothing(p) \/ XAdd(p) \/ XAddFails(p)
    \/ MarkPublished(p) \/ Reschedule(p) \/ Wake(p)

Next ==
    \/ \E e \in Events : Insert(e)
    \/ Tick
    \/ \E p \in Publishers : Run(p) \/ Rollback(p)

Spec == Init /\ [][Next]_vars

\* The runners loop, time passes, and Redis does not refuse a healthy row
\* for ever.
FairSpec ==
    /\ Spec
    /\ WF_vars(Tick)
    /\ \A p \in Publishers : WF_vars(Run(p))
    /\ \A e \in Healthy : SF_vars(\E p \in Publishers : row[p] = e /\ XAdd(p))

-----------------------------------------------------------------------------
\* A row is marked published only when its entry is in the stream: an error of
\* XADD reschedules the row (PublishNextOutboxEvent).  And the variables have
\* their types, the delays their maximum.
PublishedWasSent ==
    /\ TypeOK
    /\ \A e \in Events : status[e] = "published" => sent[e] > 0

\* Every additional entry of an event is the trace of a fault: the row lock
\* and the status keep concurrent runners from publishing a row twice.
DuplicatesNeedFaults == \A e \in Events : sent[e] <= 1 + faults

\* A row marked published is never sent again and never reopened, whichever
\* runners were working on it (the row lock, status = 'pending' in the claim).
PublishedIsFinal ==
    [][\A e \in Events : status[e] = "published" =>
            status'[e] = "published" /\ sent'[e] = sent[e]]_vars

\* Rows that Redis keeps refusing do not hold up the others: a healthy row is
\* published in the end (the reschedule moves a failed row behind those that
\* are due).
HealthyRowsPublished ==
    \A e \in Healthy : status[e] = "pending" ~> status[e] = "published"
=============================================================================
