------------------------------ MODULE Delivery ------------------------------
(***************************************************************************)
(* The delivery side of EventRail: the Redis stream and its consumer       *)
(* group, the stream workers and retry pumps of internal/deliveryworker,   *)
(* the rows that internal/operations writes for them, the operator's       *)
(* redrive (RedriveDLQ) and the set-cursor endpoint of cmd/api.            *)
(*                                                                         *)
(* A stream entry is known by its position, which stands for its Redis ID. *)
(* Time is abstract: an entry of the pending list may become idle long     *)
(* enough to be claimed, and a retry member may become due, at any moment. *)
(* Everything that can go wrong outside the code (an error returned by     *)
(* Redis or PostgreSQL, with or without effect, a crash, a worker slower   *)
(* than the claim time, an operator moving the cursor) spends one unit of  *)
(* MaxDisturbances.                                                        *)
(***************************************************************************)
EXTENDS Integers, Sequences, FiniteSets

CONSTANTS
    Events,           \* identifiers of the events
    Kind,             \* the event_type of each event
    Workers,          \* API processes: a stream worker and a retry pump each
    Redrives,         \* redrive requests that can be in flight at a time
    NoEvent,          \* "no event"
    MaxRetries,       \* MAX_RETRIES
    Count,            \* PendingClaimCount and the Count of XREADGROUP
    PumpCount,        \* the Count of ZRANGEBYSCORE
    MaxPublishes,     \* bound: publications by the outbox and by replay
    MaxRedrives,      \* bound: redrive transactions
    MaxDisturbances   \* bound: faults of the environment

ASSUME DeliveryAssumption ==
    /\ Kind \in [Events -> {"webhook", "force.fail", "other"}]
    /\ NoEvent \notin Events
    /\ MaxRetries \in Nat
    /\ Count \in Nat \ {0} /\ PumpCount \in Nat \ {0}
    /\ MaxPublishes \in Nat /\ MaxRedrives \in Nat /\ MaxDisturbances \in Nat

VARIABLES
    \* Redis
    stream,        \* the entries of the event stream, oldest first
    lastDelivered, \* the group's last-delivered entry
    pel,           \* the group's pending entries list
    idle,          \* pending entries not touched for PendingClaimIdle
    zset,          \* members of the retry sorted set
    due,           \* members whose score has passed
    dlqStream,     \* stream entries copied to the dead-letter stream
    \* PostgreSQL
    history,       \* event_status_history (and delivery_attempts) rows
    dlq,           \* dlq_records: the status of each event's record
    \* stream workers
    pc, phase, batch, cur,
    \* retry pumps
    members,       \* members read and still to be published
    moved,         \* the member published and still to be removed
    \* redrive transactions
    rtx,           \* the event whose DLQ record the transaction has locked
    rpub,          \* the entry it has published, 0 before
    \* bookkeeping of the bounds, and what the operator skipped
    publishes, redrives, disturbances, skipped

redisVars  == <<stream, lastDelivered, pel, idle, zset, due, dlqStream>>
pgVars     == <<history, dlq>>
workerVars == <<pc, phase, batch, cur>>
pumpVars   == <<members, moved>>
txVars     == <<rtx, rpub>>
boundVars  == <<publishes, redrives, disturbances, skipped>>
vars == <<redisVars, pgVars, workerVars, pumpVars, txVars, boundVars>>

-----------------------------------------------------------------------------
(* Messages: the fields that the worker reads. A fresh message (outbox,    *)
(* replay, redrive) has no original_stream_id, written 0.                  *)

Message == [event : Events, retry : 0..MaxRetries, orig : Nat]

Fresh(e) == [event |-> e, retry |-> 0, orig |-> 0]

\* scheduleRetry puts the next retry number and the entry's own ID into the
\* member it stores; equal members are one member of the sorted set.
RetryMember(id) ==
    [event |-> stream[id].event, retry |-> stream[id].retry + 1, orig |-> id]

Ids == 1..Len(stream)

Row(id, status) == [id |-> id, status |-> status]
OutcomeStatus == {"DELIVERED", "RETRYING", "DEAD_LETTERED"}
RowStatus == OutcomeStatus \cup {"PROCESSING", "REDRIVEN"}

\* What one delivery attempt can come to, by event type: force.fail always
\* fails, a webhook answers, fails or is malformed, other types do nothing.
Outcomes(kind) ==
    { o \in {"ok", "retryable", "permanent"} :
        \/ kind = "webhook"
        \/ kind = "force.fail" /\ o = "retryable"
        \/ kind = "other" /\ o = "ok" }

\* Mutants of DecideFailureAction: one retry too many, one too few.
OneRetryTooMany(outcome, retry) ==
    IF outcome # "permanent" /\ retry <= MaxRetries THEN "schedule" ELSE "deadletter"

OneRetryTooFew(outcome, retry) ==
    IF outcome # "permanent" /\ retry + 1 < MaxRetries THEN "schedule" ELSE "deadletter"

\* DecideFailureAction, as the next call of the worker.
DecideFailureAction(outcome, retry) ==
    IF outcome # "permanent" /\ retry < MaxRetries THEN "schedule" ELSE "deadletter"

RedisType ==
    /\ stream \in Seq(Message)
    /\ lastDelivered \in 0..Len(stream)
    /\ pel \subseteq Ids /\ idle \subseteq pel
    /\ zset \subseteq Message /\ due \subseteq zset
    /\ dlqStream \subseteq Ids

PgType ==
    /\ history \subseteq [id : Ids, status : RowStatus]
    /\ dlq \in [Events -> {"none", "OPEN", "REDRIVEN"}]

WorkerType ==
    /\ pc \in [Workers -> {"down", "poll", "process", "deliver", "schedule",
                           "retrying", "deadletter", "dead", "delivered", "ack"}]
    /\ phase \in [Workers -> {"reclaim", "read"}]
    /\ batch \in [Workers -> SUBSET Ids]
    /\ cur \in [Workers -> 0..Len(stream)]

PumpType ==
    /\ members \in [Workers -> SUBSET Message]
    /\ moved \in [Workers -> SUBSET Message]

TxType ==
    /\ rtx \in [Redrives -> Events \cup {NoEvent}]
    /\ rpub \in [Redrives -> 0..Len(stream)]

BoundType ==
    /\ publishes \in 0..MaxPublishes
    /\ redrives \in 0..MaxRedrives
    /\ disturbances \in 0..MaxDisturbances
    /\ skipped \subseteq Ids

TypeOK == RedisType /\ PgType /\ WorkerType /\ PumpType /\ TxType /\ BoundType

Init ==
    /\ stream = <<>> /\ lastDelivered = 0
    /\ pel = {} /\ idle = {} /\ zset = {} /\ due = {} /\ dlqStream = {}
    /\ history = {} /\ dlq = [e \in Events |-> "none"]
    /\ pc = [w \in Workers |-> "poll"] /\ phase = [w \in Workers |-> "reclaim"]
    /\ batch = [w \in Workers |-> {}] /\ cur = [w \in Workers |-> 0]
    /\ members = [w \in Workers |-> {}] /\ moved = [w \in Workers |-> {}]
    /\ rtx = [r \in Redrives |-> NoEvent] /\ rpub = [r \in Redrives |-> 0]
    /\ publishes = 0 /\ redrives = 0 /\ disturbances = 0 /\ skipped = {}

Disturb ==
    /\ disturbances < MaxDisturbances
    /\ disturbances' = disturbances + 1
    /\ UNCHANGED <<publishes, redrives, skipped>>

-----------------------------------------------------------------------------
(* Publication of a stored event, by the outbox publisher or by a replay.  *)

Publish(e) ==
    /\ publishes < MaxPublishes
    /\ publishes' = publishes + 1
    /\ stream' = Append(stream, Fresh(e))
    /\ UNCHANGED <<lastDelivered, pel, idle, zset, due, dlqStream, pgVars,
                   workerVars, pumpVars, txVars, redrives, disturbances, skipped>>

-----------------------------------------------------------------------------
(* runStreamWorker: claim what is idle, work it off, read what is new,     *)
(* work it off, again.  phase names the command that comes next.           *)

Polling(w, command) == pc[w] = "poll" /\ phase[w] = command

\* The first Count elements of a set of stream IDs.
FirstOf(S) ==
    { T \in SUBSET S : /\ \A i \in T, j \in S \ T : i < j
                       /\ \/ Cardinality(T) = Count
                          \/ T = S /\ Cardinality(S) < Count }

Receive(w, ids) ==
    /\ batch' = [batch EXCEPT ![w] = ids]
    /\ pc' = [pc EXCEPT ![w] = IF ids = {} THEN "poll" ELSE "process"]
    /\ UNCHANGED cur

\* Mutant of Reclaim: the worker only reads new entries.
ReclaimNothing(w) ==
    /\ Polling(w, "reclaim")
    /\ phase' = [phase EXCEPT ![w] = "read"]
    /\ UNCHANGED <<redisVars, pgVars, pc, batch, cur, pumpVars, txVars, boundVars>>

\* XAUTOCLAIM from 0-0; the claim restarts the idle time of what it returns.
Reclaim(w) ==
    /\ Polling(w, "reclaim")
    /\ phase' = [phase EXCEPT ![w] = "read"]
    /\ \E ids \in FirstOf(idle) :
        /\ idle' = idle \ ids
        /\ \/ Receive(w, ids) /\ UNCHANGED boundVars
           \/ Receive(w, {}) /\ Disturb
    /\ UNCHANGED <<stream, lastDelivered, pel, zset, due, dlqStream, pgVars,
                   pumpVars, txVars>>

\* XREADGROUP with ">"; when the reply is lost the entries are pending all
\* the same, and only XAUTOCLAIM brings them back.
ReadGroup(w) ==
    LET last == IF lastDelivered + Count < Len(stream) THEN lastDelivered + Count
                                                       ELSE Len(stream)
        ids  == lastDelivered + 1 .. last
    IN  /\ Polling(w, "read")
        /\ phase' = [phase EXCEPT ![w] = "reclaim"]
        /\ lastDelivered' = last
        /\ pel' = pel \cup ids
        /\ idle' = idle \ ids
        /\ \/ Receive(w, ids) /\ UNCHANGED boundVars
           \/ Receive(w, {}) /\ Disturb
        /\ UNCHANGED <<stream, zset, due, dlqStream, pgVars, pumpVars, txVars>>

\* XAUTOCLAIM or XREADGROUP answers with an error and has done nothing.
PollFails(w) ==
    /\ pc[w] = "poll"
    /\ phase' = [phase EXCEPT ![w] = IF @ = "reclaim" THEN "read" ELSE "reclaim"]
    /\ Disturb
    /\ UNCHANGED <<redisVars, pgVars, pc, batch, cur, pumpVars, txVars>>

-----------------------------------------------------------------------------
(* processStreamMessage: one action per call that reaches Redis,           *)
(* PostgreSQL or the destination.                                          *)

\* The worker is done with its message, whatever came of it.
Leave(w, id) ==
    /\ batch' = [batch EXCEPT ![w] = @ \ {id}]
    /\ pc' = [pc EXCEPT ![w] = IF batch[w] \subseteq {id} THEN "poll" ELSE "process"]
    /\ cur' = [cur EXCEPT ![w] = 0]
    /\ UNCHANGED phase

\* A call took effect: it returns, or returns an error and the message is
\* left as it is, pending.
Returns(w, next) ==
    \/ /\ pc' = [pc EXCEPT ![w] = next]
       /\ UNCHANGED <<phase, batch, cur, boundVars>>
    \/ Leave(w, cur[w]) /\ Disturb

RecordProcessing(w) ==
    /\ pc[w] = "process"
    /\ \E id \in batch[w] :
        /\ \A other \in batch[w] : id <= other
        /\ history' = history \cup {Row(id, "PROCESSING")}
        /\ \/ /\ pc' = [pc EXCEPT ![w] = "deliver"]
              /\ cur' = [cur EXCEPT ![w] = id]
              /\ UNCHANGED <<phase, batch, boundVars>>
           \/ Leave(w, id) /\ Disturb
    /\ UNCHANGED <<redisVars, dlq, pumpVars, txVars>>

\* Mutant of RecordProcessingFails: the error is logged and the message is
\* delivered all the same.
RecordProcessingIgnored(w) ==
    /\ pc[w] = "process"
    /\ \E id \in batch[w] :
        /\ \A other \in batch[w] : id <= other
        /\ cur' = [cur EXCEPT ![w] = id]
    /\ pc' = [pc EXCEPT ![w] = "deliver"]
    /\ Disturb
    /\ UNCHANGED <<redisVars, pgVars, phase, batch, pumpVars, txVars>>

RecordProcessingFails(w) ==
    /\ pc[w] = "process"
    /\ \E id \in batch[w] :
        /\ \A other \in batch[w] : id <= other
        /\ Leave(w, id)
    /\ Disturb
    /\ UNCHANGED <<redisVars, pgVars, pumpVars, txVars>>

\* processMessageWithResult, then the branch of handleDeliveryFailure.
Deliver(w) ==
    /\ pc[w] = "deliver"
    /\ LET m == stream[cur[w]] IN
       \E outcome \in Outcomes(Kind[m.event]) :
          pc' = [pc EXCEPT ![w] = IF outcome = "ok" THEN "delivered"
                                  ELSE DecideFailureAction(outcome, m.retry)]
    /\ UNCHANGED <<redisVars, pgVars, phase, batch, cur, pumpVars, txVars, boundVars>>

\* ZADD: a member that is already there only gets a new score.
ScheduleRetry(w) ==
    /\ pc[w] = "schedule"
    /\ zset' = zset \cup {RetryMember(cur[w])}
    /\ due' = due \ {RetryMember(cur[w])}
    /\ Returns(w, "retrying")
    /\ UNCHANGED <<stream, lastDelivered, pel, idle, dlqStream, pgVars, pumpVars, txVars>>

RecordOutcome(w, status) ==
    /\ history' = history \cup {Row(cur[w], status)}
    /\ Returns(w, "ack")
    /\ UNCHANGED <<redisVars, pumpVars, txVars>>

RecordRetrying(w) ==
    /\ pc[w] = "retrying"
    /\ RecordOutcome(w, "RETRYING")
    /\ UNCHANGED dlq

RecordDelivered(w) ==
    /\ pc[w] = "delivered"
    /\ RecordOutcome(w, "DELIVERED")
    /\ UNCHANGED dlq

MoveToDLQ(w) ==
    /\ pc[w] = "deadletter"
    /\ dlqStream' = dlqStream \cup {cur[w]}
    /\ Returns(w, "dead")
    /\ UNCHANGED <<stream, lastDelivered, pel, idle, zset, due, pgVars, pumpVars, txVars>>

\* A redrive transaction that has locked the event's DLQ record.
Locked(e) == \E r \in Redrives : rtx[r] = e

\* Mutant of RecordDeadLettered: the redrive does not lock the record.
DeadLetterUnlocked(w) ==
    /\ pc[w] = "dead"
    /\ dlq' = [dlq EXCEPT ![stream[cur[w]].event] = "OPEN"]
    /\ RecordOutcome(w, "DEAD_LETTERED")

\* The upsert waits for a transaction that has the record locked.
RecordDeadLettered(w) ==
    /\ pc[w] = "dead"
    /\ ~Locked(stream[cur[w]].event)
    /\ dlq' = [dlq EXCEPT ![stream[cur[w]].event] = "OPEN"]
    /\ RecordOutcome(w, "DEAD_LETTERED")

Ack(w) ==
    /\ pc[w] = "ack"
    /\ pel' = pel \ {cur[w]}
    /\ idle' = idle \ {cur[w]}
    /\ Leave(w, cur[w])
    /\ UNCHANGED <<stream, lastDelivered, zset, due, dlqStream, pgVars, pumpVars,
                   txVars, boundVars>>

\* Mutant of CallFails: the error of moveToDLQ is logged and the handler goes on.
MoveErrorIgnored(w) ==
    /\ pc[w] = "deadletter"
    /\ pc' = [pc EXCEPT ![w] = "dead"]
    /\ Disturb
    /\ UNCHANGED <<redisVars, pgVars, phase, batch, cur, pumpVars, txVars>>

\* A call after RecordProcessing answers with an error and has done nothing.
CallFails(w) ==
    /\ pc[w] \in {"schedule", "retrying", "deadletter", "dead", "delivered", "ack"}
    /\ Leave(w, cur[w])
    /\ Disturb
    /\ UNCHANGED <<redisVars, pgVars, pumpVars, txVars>>

-----------------------------------------------------------------------------
(* retryPump and republishRetryMember.  XADD comes before ZREM.            *)

PumpRead(w) ==
    /\ pc[w] # "down" /\ members[w] = {} /\ moved[w] = {} /\ due # {}
    /\ \E S \in SUBSET due :
        /\ Cardinality(S) = PumpCount \/ (S = due /\ Cardinality(S) < PumpCount)
        /\ members' = [members EXCEPT ![w] = S]
    /\ UNCHANGED <<redisVars, pgVars, workerVars, moved, txVars, boundVars>>

\* Mutant of PumpPublish: the member is removed before its entry is added, and
\* an XADD that fails leaves neither.
PumpRemoveFirst(w) ==
    /\ moved[w] = {}
    /\ \E m \in members[w] :
        /\ members' = [members EXCEPT ![w] = @ \ {m}]
        /\ zset' = zset \ {m}
        /\ due' = due \ {m}
        /\ \/ stream' = Append(stream, m) /\ UNCHANGED boundVars
           \/ UNCHANGED stream /\ Disturb
    /\ UNCHANGED <<lastDelivered, pel, idle, dlqStream, pgVars, workerVars, moved,
                   txVars>>

\* The entry is added, and: the call returns; or the reply is lost and the
\* member is given up for this round; or the Redis client sends it again.
PumpPublish(w) ==
    /\ moved[w] = {}
    /\ \E m \in members[w] :
        /\ stream' = Append(stream, m)
        /\ \/ /\ members' = [members EXCEPT ![w] = @ \ {m}]
              /\ moved' = [moved EXCEPT ![w] = {m}]
              /\ UNCHANGED boundVars
           \/ /\ members' = [members EXCEPT ![w] = @ \ {m}]
              /\ UNCHANGED moved
              /\ Disturb
           \/ UNCHANGED pumpVars /\ Disturb
    /\ UNCHANGED <<lastDelivered, pel, idle, zset, due, dlqStream, pgVars,
                   workerVars, txVars>>

\* ZREM, which finds nothing when another pump was faster.
PumpRemove(w) ==
    /\ moved[w] # {}
    /\ zset' = zset \ moved[w]
    /\ due' = due \ moved[w]
    /\ moved' = [moved EXCEPT ![w] = {}]
    /\ UNCHANGED <<stream, lastDelivered, pel, idle, dlqStream, pgVars, workerVars,
                   members, txVars, boundVars>>

\* XADD or ZREM answers with an error and has done nothing.
PumpFails(w) ==
    /\ IF moved[w] # {}
       THEN moved' = [moved EXCEPT ![w] = {}] /\ UNCHANGED members
       ELSE /\ \E m \in members[w] : members' = [members EXCEPT ![w] = @ \ {m}]
            /\ UNCHANGED moved
    /\ Disturb
    /\ UNCHANGED <<redisVars, pgVars, workerVars, txVars>>

-----------------------------------------------------------------------------
(* Processes stop, by a crash or by a shutdown that cancels the context,   *)
(* and start again; EnsureConsumerGroup then finds the group in place.     *)

Stop(w) ==
    /\ pc[w] # "down"
    /\ pc' = [pc EXCEPT ![w] = "down"]
    /\ phase' = [phase EXCEPT ![w] = "reclaim"]
    /\ batch' = [batch EXCEPT ![w] = {}]
    /\ cur' = [cur EXCEPT ![w] = 0]
    /\ members' = [members EXCEPT ![w] = {}]
    /\ moved' = [moved EXCEPT ![w] = {}]
    /\ Disturb
    /\ UNCHANGED <<redisVars, pgVars, txVars>>

Start(w) ==
    /\ pc[w] = "down"
    /\ pc' = [pc EXCEPT ![w] = "poll"]
    /\ UNCHANGED <<redisVars, pgVars, phase, batch, cur, pumpVars, txVars, boundVars>>

-----------------------------------------------------------------------------
(* Time.                                                                   *)

InHand(id) == \E w \in Workers : id \in batch[w]

\* A pending entry reaches PendingClaimIdle.  That is the normal course for
\* an entry nobody holds; for one still in a worker's batch it takes a worker
\* slower than 30 seconds (ten webhook timeouts are 100).
BecomeIdle(id) ==
    /\ id \in pel \ idle
    /\ idle' = idle \cup {id}
    /\ IF InHand(id) THEN Disturb ELSE UNCHANGED boundVars
    /\ UNCHANGED <<stream, lastDelivered, pel, zset, due, dlqStream, pgVars,
                   workerVars, pumpVars, txVars>>

BecomeDue(m) ==
    /\ m \in zset \ due
    /\ due' = due \cup {m}
    /\ UNCHANGED <<stream, lastDelivered, pel, idle, zset, dlqStream, pgVars,
                   workerVars, pumpVars, txVars, boundVars>>

-----------------------------------------------------------------------------
(* RedriveDLQ, one database transaction around one XADD.                   *)

\* Mutant of RedriveLock: SELECT without FOR UPDATE.
RedriveNoLock(r, e) ==
    /\ rtx[r] = NoEvent
    /\ dlq[e] = "OPEN"
    /\ redrives < MaxRedrives
    /\ redrives' = redrives + 1
    /\ rtx' = [rtx EXCEPT ![r] = e]
    /\ UNCHANGED <<redisVars, pgVars, workerVars, pumpVars, rpub, publishes,
                   disturbances, skipped>>

\* SELECT ... FOR UPDATE finds the record open; a missing or closed record
\* ends the request, a locked one makes it wait.
RedriveLock(r, e) ==
    /\ rtx[r] = NoEvent
    /\ dlq[e] = "OPEN"
    /\ ~Locked(e)
    /\ redrives < MaxRedrives
    /\ redrives' = redrives + 1
    /\ rtx' = [rtx EXCEPT ![r] = e]
    /\ UNCHANGED <<redisVars, pgVars, workerVars, pumpVars, rpub, publishes,
                   disturbances, skipped>>

\* As for the pump: the call returns, fails after taking effect (and the
\* transaction rolls back), or is sent again by the Redis client.
RedrivePublish(r) ==
    /\ rtx[r] # NoEvent /\ rpub[r] = 0
    /\ stream' = Append(stream, Fresh(rtx[r]))
    /\ \/ /\ rpub' = [rpub EXCEPT ![r] = Len(stream) + 1]
          /\ UNCHANGED <<rtx, boundVars>>
       \/ /\ rtx' = [rtx EXCEPT ![r] = NoEvent]
          /\ UNCHANGED rpub
          /\ Disturb
       \/ UNCHANGED txVars /\ Disturb
    /\ UNCHANGED <<lastDelivered, pel, idle, zset, due, dlqStream, pgVars,
                   workerVars, pumpVars>>

RedriveCommit(r) ==
    /\ rpub[r] # 0
    /\ dlq' = [dlq EXCEPT ![rtx[r]] = "REDRIVEN"]
    /\ history' = history \cup {Row(rpub[r], "REDRIVEN")}
    /\ rtx' = [rtx EXCEPT ![r] = NoEvent]
    /\ rpub' = [rpub EXCEPT ![r] = 0]
    /\ UNCHANGED <<redisVars, workerVars, pumpVars, boundVars>>

\* An error or a crash: PostgreSQL rolls the transaction back.
RedriveAbort(r) ==
    /\ rtx[r] # NoEvent
    /\ rtx' = [rtx EXCEPT ![r] = NoEvent]
    /\ rpub' = [rpub EXCEPT ![r] = 0]
    /\ Disturb
    /\ UNCHANGED <<redisVars, pgVars, workerVars, pumpVars>>

-----------------------------------------------------------------------------
(* POST /consumer-groups/set-cursor: XGROUP SETID to an entry, to 0 or to  *)
(* $ (the end).  Moving the cursor forward skips what was not yet read.    *)

SetGroupCursor(id) ==
    /\ disturbances < MaxDisturbances
    /\ disturbances' = disturbances + 1
    /\ lastDelivered' = id
    /\ skipped' = skipped \cup (lastDelivered + 1 .. id)
    /\ UNCHANGED <<stream, pel, idle, zset, due, dlqStream, pgVars, workerVars,
                   pumpVars, txVars, publishes, redrives>>

-----------------------------------------------------------------------------
StreamWorker(w) ==
    \/ Reclaim(w) \/ ReadGroup(w)
    \/ RecordProcessing(w) \/ Deliver(w)
    \/ ScheduleRetry(w) \/ RecordRetrying(w)
    \/ MoveToDLQ(w) \/ RecordDeadLettered(w)
    \/ RecordDelivered(w) \/ Ack(w)

RetryPump(w) == PumpRead(w) \/ PumpPublish(w) \/ PumpRemove(w)

Redrive(r) == RedrivePublish(r) \/ RedriveCommit(r)

Next ==
    \/ \E e \in Events : Publish(e)
    \/ \E w \in Workers : StreamWorker(w) \/ RetryPump(w) \/ Start(w)
    \/ \E w \in Workers : \/ PollFails(w) \/ RecordProcessingFails(w)
                          \/ CallFails(w) \/ PumpFails(w) \/ Stop(w)
    \/ \E id \in pel : BecomeIdle(id)
    \/ \E m \in zset : BecomeDue(m)
    \/ \E r \in Redrives : \/ \E e \in Events : RedriveLock(r, e)
                           \/ Redrive(r) \/ RedriveAbort(r)
    \/ \E id \in 0..Len(stream) : SetGroupCursor(id)

Spec == Init /\ [][Next]_vars

\* Processes are restarted, the worker loops and the transactions keep
\* running, and time passes.
Fairness ==
    /\ \A w \in Workers : /\ WF_vars(StreamWorker(w))
                          /\ WF_vars(RetryPump(w))
                          /\ WF_vars(Start(w))
    /\ \A r \in Redrives : WF_vars(Redrive(r))
    /\ WF_vars(\E id \in pel : ~InHand(id) /\ BecomeIdle(id))
    /\ WF_vars(\E m \in zset : BecomeDue(m))

FairSpec == Spec /\ Fairness

-----------------------------------------------------------------------------
(* Properties.                                                             *)

Published(e) == \E id \in Ids : stream[id].event = e

Delivered(e) ==
    \E id \in Ids : stream[id].event = e /\ Row(id, "DELIVERED") \in history

\* The entry is still with the consumer group: not yet read, or pending.
WithGroup(id) == id > lastDelivered \/ id \in pel

Skipped(e) == \E id \in skipped : stream[id].event = e

\* Something in Redis will still bring the event to a worker.
InFlight(e) ==
    \/ \E id \in Ids : stream[id].event = e /\ WithGroup(id)
    \/ \E m \in zset : m.event = e

\* No event is lost: whatever fails, crashes, is reprocessed or redriven, an
\* event that was published is in flight, delivered, or open in the
\* dead-letter table, unless an operator moved the group's cursor past it.
\* (At-least-once delivery: the order of ZADD, record and XACK in
\* handleDeliveryFailure, of XADD and ZREM in republishRetryMember, and the
\* row lock of RedriveDLQ.)
NoEventLost ==
    \A e \in Events :
        Published(e) => InFlight(e) \/ Delivered(e) \/ dlq[e] = "OPEN" \/ Skipped(e)

\* No entry leaves the pending list before PostgreSQL knows that it was
\* taken up and how it ended (RecordProcessing first, XACK last).
AckedIsRecorded ==
    \A id \in Ids \ skipped :
        WithGroup(id) \/ /\ Row(id, "PROCESSING") \in history
                         /\ \E status \in OutcomeStatus : Row(id, status) \in history

\* A dead-letter record never exists without the copy of its message in the
\* dead-letter stream (handleDeliveryFailure writes the stream first).
RecordHasCopy ==
    \A e \in Events :
        dlq[e] # "none" => \E id \in dlqStream : stream[id].event = e

\* While nothing fails, every entry that a redrive adds answers a dead letter
\* of its own: beside the publications of the outbox and of replays there is
\* at most one fresh entry for each entry that was dead-lettered, however many
\* redrive requests race for a record and whenever a worker opens it again
\* (SELECT ... FOR UPDATE, and REDRIVEN in the same transaction).  A fault
\* voids it: RedriveDLQ rolls back after its XADD and the record stays open.
RedrivesAnswerDeadLetters ==
    disturbances = 0 =>
        Cardinality({id \in Ids : stream[id].retry = 0})
            <= publishes + Cardinality({id \in Ids : Row(id, "DEAD_LETTERED") \in history})

\* Nothing stays pending, unread or scheduled for ever: after a lost reply, a
\* failed call or a stop, and when there is more than one page of them, the
\* entries are claimed and the retries published, and the group's pending list
\* and the retry set run empty again and again.
Drains == []<>(lastDelivered = Len(stream) /\ pel = {} /\ zset = {})

-----------------------------------------------------------------------------
(* Inductive strengthening, for the proofs in DeliveryProofs.              *)

\* A later entry carries the same event.
Later(id) == \E j \in Ids : j > id /\ stream[j].event = stream[id].event

Scheduled(id) == \E m \in zset : m.orig = id

\* The event's open record answers for the entry: no redrive transaction has
\* published an entry up to this one that its commit would close it for.
OpenFor(id) ==
    /\ dlq[stream[id].event] = "OPEN"
    /\ \A r \in Redrives :
        ~(rtx[r] = stream[id].event /\ rpub[r] # 0 /\ rpub[r] <= id)

\* The entry may leave the pending list.
Done(id) == \/ Delivered(stream[id].event) \/ Scheduled(id)
            \/ Later(id) \/ OpenFor(id)

WorkingPc == {"deliver", "schedule", "retrying", "deadletter", "dead", "delivered", "ack"}

\* A worker that works on a message holds an entry of the stream, and
\* schedules a retry only while the budget lasts.
Hand(w) ==
    /\ pc[w] \in WorkingPc => cur[w] \in Ids
    /\ pc[w] = "schedule" => stream[cur[w]].retry < MaxRetries

WorkerHands == \A w \in Workers : Hand(w)

\* Members of the retry set, and the copies of them in the hands of the
\* pumps, come from an entry of their event.
FromEntry(m) == m.orig \in Ids /\ stream[m.orig].event = m.event

PumpHands ==
    /\ \A m \in zset : FromEntry(m)
    /\ \A w \in Workers : \A m \in members[w] \cup moved[w] : FromEntry(m)

\* A redrive that has published did so for the event it has locked.
TxHands ==
    \A r \in Redrives :
        rpub[r] # 0 => rtx[r] # NoEvent /\ stream[rpub[r]].event = rtx[r]

TypeInv == TypeOK /\ WorkerHands /\ PumpHands /\ TxHands

\* Every entry the group no longer holds is done with, and what is about to
\* be acknowledged or removed has its successor in place.
NothingDropped ==
    /\ \A id \in Ids : WithGroup(id) \/ id \in skipped \/ Done(id)
    /\ \A w \in Workers :
        /\ pc[w] = "retrying" => Scheduled(cur[w]) \/ Later(cur[w])
        /\ pc[w] = "ack" => Done(cur[w])
        /\ \A m \in moved[w] : Later(m.orig)

LossInv == TypeInv /\ NothingDropped

\* What the history must hold while an entry is being worked on.
Recorded ==
    /\ AckedIsRecorded
    /\ \A w \in Workers :
        /\ pc[w] \in WorkingPc => Row(cur[w], "PROCESSING") \in history
        /\ pc[w] = "ack" =>
            \E status \in OutcomeStatus : Row(cur[w], status) \in history

\* A retry is made from an entry: its event, and the number after its own.
Made(m) == m.orig \in Ids /\ m = RetryMember(m.orig)

Chained ==
    /\ \A id \in Ids : stream[id].retry > 0 => Made(stream[id])
    /\ \A m \in zset : Made(m)
    /\ \A w \in Workers : \A m \in members[w] \cup moved[w] : Made(m)

\* Two entries for the same attempt at an event.
SameTurn(i, j) ==
    stream[i].event = stream[j].event /\ stream[i].retry = stream[j].retry

OneProcess == \A v, w \in Workers : v = w

\* No retry was added for the entry, or is about to be.
Unrepeated(id) == \A j \in Ids : stream[j].retry > 0 => stream[j].orig # id
Untouched(id) == Unrepeated(id) /\ \A m \in zset : m.orig # id

\* One process on its own: what is pending it has in its hands,
OneReader ==
    /\ idle = {} /\ \A id \in pel : InHand(id)
    /\ \A w \in Workers :
        /\ pc[w] # "down"
        /\ pc[w] = "poll" => batch[w] = {}
        /\ pc[w] \in {"poll", "process"} => cur[w] = 0
        /\ cur[w] <= lastDelivered /\ \A id \in batch[w] : id <= lastDelivered

\* it schedules a retry for an entry once,
OneRetry ==
    /\ \A id \in Ids : id > lastDelivered => Untouched(id)
    /\ \A w \in Workers :
        /\ \A id \in batch[w] : id # cur[w] => Untouched(id)
        /\ pc[w] \in {"deliver", "schedule"} => Untouched(cur[w])

\* and its pump adds every retry once.
OnePump ==
    \A w \in Workers :
        /\ members[w] \subseteq zset /\ members[w] \cap moved[w] = {}
        /\ \A m \in zset : m \in moved[w] \/ Unrepeated(m.orig)

OneTurn == \A i, j \in Ids : SameTurn(i, j) => i = j

OneByOne == OneTurn /\ OneReader /\ OneRetry /\ OnePump
=============================================================================
