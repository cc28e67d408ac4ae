# EventRail: a TLA+ verification project

EventRail accepts events over HTTP, stores them in PostgreSQL together with an
outbox row, publishes them to a Redis stream, and delivers them at least once to
webhooks, with retries, a dead-letter queue and operator redrives. Beside the
pipeline it shows the state of events, replays them, and has an AI service explain
and triage failures. This directory models these parts and their composition, checks
them with TLC and proves the main properties with TLAPS.

## The system and its parts

```
POST /events -> internal/ingestion -> events + outbox      (PostgreSQL)
                    internal/outbox -> XADD stream:events   (Redis)
        internal/deliveryworker: XREADGROUP / XAUTOCLAIM -> webhook (mock-destination)
             |-> retry sorted set -> retry pump -> XADD
             |-> dead-letter stream + dlq_records -> redrive -> XADD
POST /replay -> events in a time range -> XADD
GET  status, DLQ detail    <- history, attempts, dlq_records
POST explain, triage -> snapshot -> ai-service -> answer
```

| Part | Source | Module | State of the model |
|---|---|---|---|
| Ingestion, idempotency keys | `internal/ingestion` | `Ingestion`, `IdempotentStore` | modelled |
| Create-event handler | `internal/httpapi/event_handler.go` | `Ingestion` | its answers |
| Outbox publisher and runner | `internal/outbox` | `Outbox` | modelled |
| Outbox backoff | `outboxBackoff` | `OutboxBackoff` | modelled |
| Stream publisher | `internal/broker/redisstream` | `Outbox`, `Delivery` | modelled |
| Delivery worker, retry pump | `internal/deliveryworker` | `Delivery` | modelled |
| Retry backoff | `backoffDelay` | `RetryBackoff` | modelled |
| Failure classification | `internal/delivery` | `AttemptOutcome`, `EventRecord`, `Delivery` | modelled |
| Operational store, writes | `internal/operations` | `Delivery`, `StatusView`, `EventRecord` | modelled |
| Operational store, reads | `internal/operations` | `StatusView` | `EventStatus`, `DLQDetail` |
| Redrive, set-cursor endpoints | `internal/httpapi`, `cmd/api` | `Delivery` | modelled |
| Replay | `cmd/api/replay_handler.go` | `Replay` | modelled |
| Mock destination | `cmd/mock-destination` | `ReceiptServer`, `ReceiptDelivery` | modelled |
| Migrations | `migrations` | `Migrations`, `Deployment` | modelled |
| Startup and shutdown | `cmd/api/main.go` | `ApiProcess`, `Deployment` | modelled |
| Explanation and triage clients | `internal/httpapi` | `EventRecord` with `AttemptOutcome`, `ExplainSnapshot`, `Triage`; `Explanation` | modelled |
| AI service | `ai-service` | `Explanation`, `Triage` | explainer, deterministic triage, no embeddings or prompts |
| Dashboard | `dashboard` | | not modelled |
| The pipeline as a whole | all of it | `EventRail`, `EventLifecycle` | modelled |

`PROJECT.json` maps every definition to its source lines, and lists the hazards of
the code with the properties that cover them.

## Modules

**Delivery** has the Redis side (`stream`, the group's `lastDelivered`, the pending
list `pel`, the retry set `zset`, the dead-letter stream), the PostgreSQL side
(`history`, `dlq`), the workers, the pumps and the redrive transactions. Each call a
worker makes to Redis, PostgreSQL or the destination is one action, in the order of
`processStreamMessage` and `handleDeliveryFailure`: `RecordProcessing`, `Deliver`, then
`ScheduleRetry`, `RecordRetrying`, `Ack`, or `MoveToDLQ`, `RecordDeadLettered`, `Ack`, or
`RecordDelivered`, `Ack`. A stream entry is known by its position. Two retries of one
entry are one member of the sorted set, as they are equal strings in Redis.
An attempt row is written in the same transaction as its history row, so `history`
stands for both. Time is abstract: an entry becomes idle (`BecomeIdle`) and a retry
becomes due (`BecomeDue`) at any moment.

Faults are an error without effect, an error after the effect, an XADD that the Redis
client sends again, a stop of the process, a worker that outlasts the claim time, and
an operator who moves the cursor. Each costs one unit of `MaxDisturbances`.
`skipped` is history only: it remembers which entries the operator moved the cursor past.

**Ingestion** runs `PersistEventWithOutbox` for several requests at a time, one action per
statement, under READ COMMITTED: an INSERT waits while another open transaction has
inserted the same key. **IdempotentStore** is the promise to clients: each request is
answered in one atomic step.

**Outbox** runs several runners. The pending rows are a queue in the order of
`next_attempt_at`; a rescheduled row goes behind every row that was due when it was
claimed, because its new time is later than the claim. **OutboxBackoff** is the loop of
`outboxBackoff` on a machine word with largest value `MaxInt`. **RetryBackoff** is
`backoffDelay` on 64-bit words in four limbs, since TLC's integers have 32 bits.

**EventRail** composes the three: it extends `Delivery` and instantiates `Ingestion` and
`Outbox`, and shares the steps in which they meet. The commit of a request puts its event
into the table the outbox claims from (`Persist`), and an XADD of the outbox appends the
entry the workers read (`SendEntry`). **EventLifecycle** is what a client may rely on:
an accepted event is delivered, or open in the dead-letter table, or was skipped by an
operator, and a redrive renews the promise. `ImplementsLifecycle` is the refinement, with
the committed rows as accepted events and the history and DLQ rows as its other variables.

**ReceiptServer** is the mock destination: `applyReceipt` with its modes and its receipts
by key, the counters, and a restart that forgets them. **ReceiptDelivery** extends
`Delivery` and replaces the free choice of a webhook's outcome by the service's answer
over a network that loses requests and answers and lets requests arrive late. Its
variable `rejected` is history: the events with an attempt that failed for good.

**StatusView** looks at one event through the eyes of a reader. Rows carry the start time
of their transaction, as `now()` does in PostgreSQL, and become visible at the commit.
`EventStatus` and `DLQDetail` are one action per statement (READ COMMITTED), and
`explainRequestFromStore` is both of them in turn. The workers' calls are those of `Delivery`,
reduced to what leaves rows behind.

**Replay** is a client that follows `next_cursor` through the pages of a time range and
repeats a request that failed, while other requests commit events.

**EventRecord** lets one event pass through deliveries, retries, redrives and replays, with
every answer of the destination, and keeps the rows the store has of it. Three modules of
operators say what is made of these rows. **AttemptOutcome** has the worker's
classification of an attempt and the one `explainAttemptOutcome` reads back from its row.
**ExplainSnapshot** has the bounds and derived numbers of the snapshot sent to the AI
service: `boundExplainHistory`, `boundExplainAttempts`, ordinals and `retryCountFromHistory`.
**Triage** has the request built from the attempts of a dead-lettered event and the
deterministic classification of the service. **Explanation** is one request from the API
to the AI service and back: retrieval, provider, validation and fallback in Python, then
timeout and validation of the answer in Go. The texts of an explanation are abstracted to
the facts validation looks at: how much evidence, which citations, which status,
forbidden phrases or not.

**Migrations** is `Apply` in processes that start together, with the files that can be run
twice told apart from those that cannot. **ApiProcess** is `main`: the startup, the outbox
runner and the worker loops, a redrive request with its transaction, the signal and the
failing server, and the deferred `Close` calls. **Deployment** composes them: one process is
followed through its whole life, its migrations included, may be killed at any point and
is started again after any end, while other processes migrate the same database.

The `MC*` modules give the constants their values.

## What TLC checks

| Run | Instance | Properties |
|---|---|---|
| `delivery` | 1 webhook event, 2 processes, 2 redrives, 1 retry, 2 faults | `TypeOK`, `NoEventLost`, `AckedIsRecorded`, `RecordHasCopy`, `RedrivesAnswerDeadLetters` |
| `receipts` | 2 events, one invalid, 1 process, 1 retry, 1 redrive, 1 loss or restart, 1 change of mode, fairness | `OneReceiptPerEvent`, `DeliveredHasReceipt`, `RetryBudgetSpent`, `RedriveRecovers` |
| `ingestion` | 5 requests, 1 row without a hash, fairness | `StoredWithOutbox`, `ImplementsStore`, `EveryRequestAnswered` |
| `outbox` | 3 rows, one refused for ever, 2 runners, 1 fault, fairness; all delays up to 15, 7 attempts | `PublishedWasSent`, `DuplicatesNeedFaults`, `PublishedIsFinal`, `HealthyRowsPublished`, `BackoffIsCapped` |
| `retries` | 2 events, one always failing, 1 process, 1 retry, pages of 1, 1 fault, fairness; 6 base delays, 70 retries | `NoEventLost`, `Drains`, `RetryDelaysGrow` |
| `status_view` | 1 worker, outbox, 1 redrive, 1 reader, 1 fault | `OutcomesShowAttempts`, `SnapshotAccepted`, `SettledShowsOutcome` |
| `replay` | 6 events, pages of 1 to 3, 1 failure, 1 XADD sent again, fairness | `ReplayComplete`, `RepeatsNeedFailures`, `ReplayEnds` |
| `event_record` | 7 codes, 2 texts, 2 retries, 4 attempts, snapshots of 7 rows | `ExplainAgreesWithWorker`, `SnapshotWithinLimits`, `RetryCountIsLongestPass`, `TriageFollowsAttempts` |
| `lifecycle` | 1 request, 1 runner, 1 process, 1 redrive, 1 replay, 1 fault on each side, fairness | `AcceptedNotLost`, `ImplementsLifecycle` |
| `deployment` | 2 processes, 3 files, 2 run by hand, 1 request, 1 crash, 1 restart, fairness | `AppliedInOrder`, `OneComesUp`, `AcceptingMeansRunning`, `CallsUseOpenClients`, `SignalEndsProcess` |
| `explanation` | all snapshots, three providers, 2 waits a call | `AnswerIsGrounded`, `StatusIndependentOfProvider`, `ExplainedWhileUp` |
| `triage_timeout` | 3 codes, 1 retry, 3 attempts | `TimeoutIsOutage` is violated |

What they show, in words:

- `NoEventLost`: a published event is in flight, delivered, or open in the dead-letter
  table, unless an operator skipped it. This is the README's "At-least-once delivery".
- `AckedIsRecorded`: an acknowledged entry has its PROCESSING row and an outcome row.
- `RetryBudgetSpent`: an event that only failed retryably is dead-lettered after all its
  retries, and not before.
- `RecordHasCopy`: a DLQ record has a copy of its message in the dead-letter stream.
- `RedrivesAnswerDeadLetters`: without a fault, the stream never gets more entries from
  redrives than there are DEAD_LETTERED rows: the row lock and the status that is read
  under it keep two operators from answering one dead letter twice. With a fault they can:
  a redrive that rolls back after its XADD leaves the record open for another.
- `Drains`: a fault delays but does not block. Whether a reply was lost, an XADD repeated or
  a process restarted, what is left pending is claimed, retries beyond one page of the
  pump are published by a later one, and the queues run empty.
- `ImplementsStore`: the README's "Exactly-once ingestion". Concurrent, failed and repeated
  requests look like requests to an atomic store with one event for each key.
- `StoredWithOutbox`: an event and its outbox row are stored together, and no request is
  answered with an event that is not stored.
- `DuplicatesNeedFaults`, `PublishedIsFinal`: without faults the outbox publishes once.
- `HealthyRowsPublished`: rows that Redis refuses do not hold up the others.
- `BackoffIsCapped`, `RetryDelaysGrow`: the outbox delay is the capped power of two. The retry
  delay never exceeds ten seconds, and grows to them and stays there as long as the exact
  product fits into 64 bits (see the observation below for what comes after). They are
  `DelaysAreCapped` and `DelaysGrow`, over all arguments, at the steps that use the delays.
- `EveryRequestAnswered`: no request waits for ever for the transaction that holds its key.
- `ImplementsLifecycle`, `AcceptedNotLost`: the parts together keep the promise that none
  of them can keep alone, from the answer to the client to the settled event, and with no
  fault, replay or redrive the stream gets one entry for each retry number, except for
  the retries of several processes (see Findings). The run has one process and no retry;
  the theorem `AcceptedSurvives` has any number of both.
- `OneReceiptPerEvent`, `DeliveredHasReceipt`: retries, late requests and lost answers make
  no second receipt, and DELIVERED is never written without one. A restart of the mock
  destination forgets its keys, so the bound is one receipt per life of the service. Each
  request is counted once.
- `RedriveRecovers`: a redrive to a repaired service ends in a delivery.
- `OutcomesShowAttempts`, `SnapshotAccepted`: the order of the reads is
  what makes an answer consistent without a transaction around them; an outcome in the
  history comes with its attempt, a DLQ record with its row, and the snapshot of an
  explanation is one the AI service accepts.
- `SettledShowsOutcome`: although rows are ordered by the start of their transactions, the
  newest row of a quiet event is an outcome. The run has one worker and one fault; with
  several workers the property needs that at most one fault strikes (`SettledIsOutcome`).
- `ReplayComplete`, `RepeatsNeedFailures`, `ReplayEnds`: paging neither
  skips, strays nor goes on for ever, and repeats an event only after a failed request or
  an XADD that the Redis client had to send again.
- `SnapshotWithinLimits`, `RetryCountIsLongestPass`: a snapshot is never refused for its size
  or its attempt numbers, the rows that matter survive the cut, and its counts are right
  over many redrives. (It is refused for a response code above 599, `explainer.py:67`.)
- `ExplainAgreesWithWorker`: a 4xx or 5xx is a failure, and the
  explanation, which reads the error text, calls it what the worker did. The text quotes the
  destination's reason phrase or the address of the request. Only one case differs: a
  transport failure with the word "permanent" in its address.
- `TriageFollowsAttempts`: the advice is about the last answer
  when the last attempt had one, and is not_ready only if some attempt was rejected for
  good, or the newest error or a field of the event has a word of a rejection in it.
- `AnswerIsGrounded`, `StatusIndependentOfProvider`, `ExplainedWhileUp`: no model can cite what was
  not retrieved or change the recovery status, and its failure costs no explanation unless
  it comes after the client's timeout.
- `AppliedInOrder`, `OneComesUp`: concurrent starts make processes fail, but never
  all of them, and never leave half a migration. The exceptions are a crash, and a file
  that cannot be run twice (002) and was run by hand.
- `AcceptingMeansRunning`, `CallsUseOpenClients`, `SignalEndsProcess`: requests are accepted
  only on a complete schema and with all loops running, no loop meets a closed client, a
  shutdown leaves no transaction open, and a signal ends the process.

The type invariant of a module is a conjunct of one invariant of its run; in
`delivery` it is checked by itself, as `TypeCorrect` is a theorem of its own. Each property is
violated by at least one plausible change of the code; the changed definitions stand beside the originals ("Mutant of ...") and are listed in `PROJECT.json`.

### Bounds

One event is enough for loss and redrives, because events only meet in a worker's batch
and in a page of the pump; `receipts` has two of them and a batch size of two, `retries`
two and pages of one, so that both retries are due and only one fits. Two
processes give every race for an entry, a member or a record. Batch and page sizes of 1
and 2 stand for 10 and 50. `delivery` has two faults, so that a crash of one redrive can meet a
failure of a worker; once a retry was scheduled it allows one redrive or fault, and no
duplicates of the retried entry (`RetryBound`); `retries` has those that one fault makes. An event that is refused for good is
dead-lettered without a retry and meets both redrives and both faults. The theorems
below have no bounds. The compositions have few faults per component; what they add is
the order between the parts.

`replay` has three events with one `created_at`, so that a page ends among them, one out of
range and one of another source; limits 1, 0 (the default) and 7 (cut to the maximum).
`event_record` has codes of every class, some with a rule of their own and the border 599
and 600; a text that a client or a destination chooses has no word a reader looks for, or
has "permanent" and "forbidden" (the theorems have all codes and all words); its snapshots have 7 rows in place of 20, so that four attempts give histories that
are longer and as many as eight rows that should be kept. `explanation` has an Ollama timeout
of 12 in place of 45: only that it exceeds the client's 10 matters. `deployment` has three
files, of which the middle one cannot be run twice, and the first two are the ones that
`demo_guide.md` has run by hand. `MaxInt` is 15 in `outbox`, so that all triples of arguments
are tried; the theorem covers every word size. `retries` has base delays from 1 ms to the
largest duration and retries beyond the 64 bits of a word.

### Fairness

`Delivery`: each stream worker, each pump and each redrive transaction goes on while it
can, a stopped process is started again, an entry nobody works on becomes idle, and a
retry becomes due. The restart is an assumption about the operator: `docker-compose.yml`
has no restart policy, and with no process running nothing is delivered. Weak fairness suffices: the loops
of `runStreamWorker` and `retryPump` never end by themselves. The destination is not
assumed to answer well. `Ingestion`: each transaction goes on. `Outbox`: the runners loop,
time passes, and for the rows in `Healthy` alone an XADD that is tried again and again
succeeds in the end (strong fairness); nothing is assumed for the others. `EventRail` and
`ReceiptDelivery` have the fairness of their components and no more. `Replay`: the client
goes on to the last page. `Deployment`: a started process goes on with its migrations; it need not
be started again; no statement of `main` blocks for ever, calls to Redis and PostgreSQL
return (they have timeouts or a context that is cancelled), and handlers end; a call need
not be made. `Explanation`: the request goes on; how the provider behaves is free.

### Deadlock

It is checked except where the system really ends or falls silent: the requests of
`ingestion` and of the reader, a finished replay, an event at its
bound of attempts, an answered explanation, processes that are up or have ended, and
`lifecycle`, which may run out of work and of redrives.

## Findings

`latestResponseCode` (`internal/httpapi/operational_handlers.go:352`) skips attempts without a
code. An event rejected with 400, taken up again (by a replay in the trace; a redrive leads
to the same rows) and then dead-lettered by timeouts is triaged as a validation error that
is not ready, where `ai-service/tests/test_triage.py:41` expects
`destination_outage` and `review_required` for a timeout (`triage_timeout`).

Observations without a run:

- With two processes and no fault at all, one retry may be published twice: both retry
  pumps read a due member before either removes it, and both XADD it
  (`republishRetryMember`, `internal/deliveryworker/worker.go:546`). Delivery is promised at least
  once, so nothing is contradicted; `AcceptedNotLost` makes the exception explicit.
- `backoffDelay` (`internal/deliveryworker/worker.go:594`) multiplies before it compares with the
  cap. With the default base of 500 ms the product wraps to a negative number at retry 36
  and to 0 from retry 57, so the retry is due at once. The comment in line 595 says
  "Exponential backoff: base * 2^(retry-1), capped". The default `MAX_RETRIES` stays below,
  but the configuration accepts any positive number. `DelaysGrow` has `Fits` as a premise for
  this. `outboxBackoff` has no such flaw (`BackoffIsExact`).
- `boundExplainHistory` (`internal/httpapi/event_explain.go:320`) claims in line 325 to preserve
  "the initial acceptance state, terminal recovery markers, and the most recent
  transitions". With 20 markers or more it stops copying before it comes to the newest
  rows; hence the premise in `SnapshotWithinLimits`.
- `attemptsFromStatus` in the dashboard (`useEventDemo.ts:948`) shows every attempt that is not
  2xx or 5xx as "Needs attention", with the detail "Receipt Service rejected the delivery
  with a permanent validation failure." The worker retries 408, 425, 429 and attempts
  without an answer.
- `demo_guide.md:22` has the reader run the migrations by hand after starting the API, which
  has applied them: the second command fails, as `002_add_idempotency.sql` adds a column
  without IF NOT EXISTS. Run before the start, it makes the API's own migration fail, at
  every start; `OneComesUp` makes the exception explicit.
- The words `explainAttemptOutcome` and `_classify` look for may come from the address, the reason
  phrase or the fields of the event: an address with "permanent" makes a timeout a permanent
  failure in the explanation, and a source named `credentials-service` makes it an
  authentication error in the triage, which is then not ready.
- A worker puts a retry into the sorted set before it records RETRYING, so a slow worker
  of one process may write RETRYING behind the DELIVERED of another; no document says
  what the view shows then.
- With the default timeouts the Ollama provider (45 s) outlasts the API's client (10 s),
  which answers 503 while the fallback is never reached in time. The 7 s of the OpenAI
  provider hold for each wait of a call, so a slow connection and a slow answer together
  do the same, where `README.md:53` says "OpenAI failures fall back to deterministic grounded
  explanations".
- An answer of 3xx or of 600 and above is recorded as DELIVERED (`NewHTTPFailure`,
  `internal/delivery/failure.go:70`, returns no error for it). No document says what it should be.
- `moveToDLQ` sets `original_stream_id` of the message to the last entry's ID before
  `RecordDeadLettered` reads it, so `dlq_records.original_stream_id` is the last entry and not
  the first. No document says which it should be.

## What TLAPS proves

For every value of the constants. The only assumptions are the named `ASSUME`s of the modules,
which give the constants their ranges. Every safety property that a passing run checks has a
theorem, except `RedrivesAnswerDeadLetters`.

The whole pipeline, for any number of events, requests, runners, processes, retries, redrives,
replays and faults, from `DeliveryAssumption` and `RailAssumption` (ranges; a request has a
hash):

- `AcceptedSurvives` (`EventRailProofs`): `RailSpec => []AcceptedNotLost`. Every step of the whole is
  a step of each component or leaves it alone (`StepOfIngestion`, `StepOfOutbox`,
  `StepOfDelivery`), so the inductive invariants of the three components hold here:
  `IngestionProofs` and `OutboxProofs` are instantiated with the variables of the whole. `Ingested`
  and `Queued` are what the others need of them. `Linked` is what no component can say
  alone: the outbox has the rows of the stored events, what was sent is in the stream,
  and the stream, the records and the redrives know of stored events only. An accepted
  event is then pending, or published and hence in the stream, where `NothingDropped`
  takes over. For the second half, `Chained` says that a retry is made from an entry and
  carries the next number, `FreshOnce` that only the outbox adds entries with retry 0, one
  per event, and `OneByOne` that a process on its own holds what is pending, schedules
  a retry for an entry once, and has its pump add it once. `WholeInv` is all of them.
- `LifecycleImplemented` (`EventRailProofs`): `RailSpec => Lifecycle!Safety`, the initial states and
  the steps of `ImplementsLifecycle`. A commit is the acceptance of an event; DELIVERED and
  DEAD_LETTERED rows, the commit of a redrive and a moved cursor are its other steps,
  and by `Linked` they are about accepted events.

Delivery, for any number of events, processes, redrives, retries and faults, from
`DeliveryAssumption`:

- `TypeCorrect` (`DeliveryProofs`): `Spec => []TypeOK`. `TypeOK` bounds the retry number in
  every message, so it is not inductive: `TypeInv` adds that a worker in
  `handleDeliveryFailure` holds an entry, and schedules only below `MaxRetries`
  (`WorkerHands`), that retry members come from entries of their event (`PumpHands`), and
  that a redrive published for the event it has locked (`TxHands`).
- `NoLoss` (`DeliveryProofs`): `Spec => []NoEventLost`. The strengthening is
  `NothingDropped`: every entry that the group no longer holds is skipped, or its event is
  delivered, or it has a member in the retry set, or a later entry carries its event, or
  the event's DLQ record is open and no uncommitted redrive will close it for an entry up
  to this one (`OpenFor`). It also says what must be in place before an acknowledgement
  or a ZREM. `NoEventLost` follows by looking at the last entry of the event, which has
  no later one; that there is a last one is an invariant of its own (`Ended`). General
  lemmas say which facts any step keeps (`LaterKept`, `DeliveredKept`, `ScheduledStep`,
  `OpenStep`, `DoneStep`), how an entry leaves the group (`GroupStep`) and what a worker and
  a pump did to be where they are (`PhaseStep`, `MovedStep`).
- `AcksAreRecorded` (`DeliveryProofs`): `Spec => []AckedIsRecorded`, strengthened by
  what the history holds while a worker is at each of its calls (`Recorded`).
- `RecordsHaveCopies` (`DeliveryProofs`): `Spec => []RecordHasCopy`. `CopyInv` adds that a worker
  about to write the record has copied its message, and that a redrive holds a record that
  exists, so that its commit creates none.

Delivery with the Receipt Service, for any number of events, processes, retries, lost and late
messages, restarts and control requests, from `DeliveryAssumption` and `ReceiptAssumption` (the
proofs make no use of `WebhookAssumption`). Every step of the system is a step of `Delivery`
or leaves it alone (`StepOfDelivery`), so the invariants of `DeliveryProofs` carry over:

- `BudgetIsSpent` (`ReceiptProofs`): `SystemSpec => []RetryBudgetSpent`. `Budgeted` says that every
  message in the stream, in the retry set and in a pump's hands carries a retry number only
  after all the smaller ones were taken up (`Climbed`), and that a worker dead-letters a
  message that failed for good or carries the last number. `Recorded` and `CopyInv` relate
  the worker's position to the PROCESSING row and the record to its copy.
- `DeliveriesHaveReceipts` (`ReceiptProofs`): `SystemSpec => []DeliveredHasReceipt`. `Receipted` adds that
  a remembered key has its receipt and that a worker between the answer 200 and
  `RecordDelivered` stands on one.
- `ReceiptsAreUnique` (`ReceiptProofs`): `SystemSpec => []OneReceiptPerEvent`. `Counted` relates the
  counters to the set of keys, and allows a key that is not remembered one receipt less.

Ingestion, for any number of requests, keys and hashes, from `IngestionAssumption` (what the
rows written before the hash column existed look like):

- `RowsStoredTogether` (`IngestionProofs`): `Spec => []StoredWithOutbox`. The invariant says
  nothing of open transactions, so `StoreInv` adds what each knows between its statements:
  the row it has inserted is the only one, committed or not, with its ID and key, and is
  staged with its outbox row (`Reserved`); the row it has found has its key and its hash
  (`Matching`); and it has not answered.
- `StoreImplemented` (`IngestionProofs`): `Spec => ImplementsStore`. A commit maps to the creation
  of an event, the answers after a look-up to a repetition or a refusal, every other step to
  a stutter. A request takes effect when its transaction commits; `Reserved` is why no other
  commit can have taken the key before.

Outbox, for any number of rows, runners, delays and faults, from `OutboxAssumption`:

- `PublishedRowsSent` and `DuplicatesAreFaults` (`OutboxProofs`): `Spec => []PublishedWasSent` and
  `Spec => []DuplicatesNeedFaults`. `OutboxInv` adds that the queue holds pending rows, each
  once (`QueueInv`), that an open transaction has locked such a row and no two the same one
  (`LockInv`), and that a row which is neither published nor being marked was sent at most
  once per fault (`SentInv`). What `Enqueue` and `Without` do to the elements of the queue is
  proved from the pieces of the sequence (`PutInElements`, `TakeOutElements`).
- `PublishedRowsFinal` (`OutboxProofs`): `Spec => PublishedIsFinal`, by `LockInv` and `QueueInv`: a
  step that sends or reschedules works on a pending row.

Backoff, from `BackoffAssumption` and `RetryBackoffAssumption`:

- `BackoffIsExact` (`SequentialProofs`): `DelaysAreCapped`, for every word size, cap, base and attempt.
  `LoopIs` says that the loop holds `base * 2^n` after `n` rounds, or the cap where the power exceeds
  it; the delay is at most `max \div 2` when doubled. `Power2` and the loop are recursive
  functions: that they have a solution is proved by looking at the least counterexample
  (`LeastNat`).
- `RetryDelays` (`SequentialProofs`): `DelaysGrow`, for every base and every number of retries.
  `WordOf(v)` is the word of the number `v`: a shift of it is the word of `2 * v` (`WordShift`) and
  words below 2^63 are ordered as their numbers (`WordOrder`), so that while the product
  fits it is the word of the exact product (`ProductIs`, `ProductSmall`), and the delay is its
  minimum with ten seconds (`DelayIs`).

Replay, for any events, times, filters, page limits, failures and repeated XADDs, from `ReplayAssumption`:

- `ReplayPublishesAll` and `RepeatsAreFailures` (`SequentialProofs`): `Spec => []ReplayComplete` and
  `Spec => []RepeatsNeedFailures`. `PagingInv` says what lies on either side of the cursor:
  the selected events it has passed are published (`Behind`), what lies ahead was sent by
  failed requests and repeated XADDs only (`Repeats`), and while a page is published the events not yet sent
  are in it or beyond its limit. `RowsCut` says what the query promises: the rows it
  returns come before every row that its limit cuts off.

Deployment, for any number of processes, migration files, crashes and requests, from
`MigrationsAssumption` (the files are numbered) and `DeploymentAssumption` (the process whose
`main` is looked at is one of them):

- `MigrationsInOrder` (`DatabaseProofs`): `DeploymentSpec => []AppliedInOrder`. `SchemaInv` adds that
  the map a process has read is a prefix of the recorded files, that two open
  transactions apply different files, and that a file about to be committed is not
  recorded (`Maps`).
- `ServingIsRunning` and `ClientsOutliveCalls` (`DatabaseProofs`): `DeploymentSpec =>
  []AcceptingMeansRunning` and `DeploymentSpec => []CallsUseOpenClients`. `LifeInv` relates the
  position of `main` to the clients, the loops that have started or returned, the count of
  the wait group, the server and the requests.

Reads, for any number of workers, redrives and stream entries, from `StatusViewAssumption`:

- `ReadsExplainThemselves` and `SnapshotsAreConsistent` (`StatusViewProofs`): `Spec =>
  []OutcomesShowAttempts` and `Spec => []SnapshotAccepted`, for any number of faults. `Recorded`
  says which rows are committed together, `Reading` what the statements already executed
  promise to those still to come. Both need that committed rows stay.
- `SettledIsOutcome` (`StatusViewProofs`): `Spec => []SettledShowsOutcome` under `NoLateCrash`: at most one
  fault, or one worker. `Times` says that no two transactions share a start time, so the
  newest row exists and is one (`LatestRow`); `Followed` says that a row that is not an
  outcome is followed by one, or by an entry nobody holds, or by a worker that will add
  one. The premise is needed. With two workers and two faults, one worker may reclaim
  the entry of the other, record PROCESSING, and crash after the other has recorded its
  outcome and acknowledged the entry: PROCESSING stays the newest row. TLC finds this
  with `Workers = {w1, w2}` and `MaxFaults = 2`.

The rows of one event and what is made of them, for any status codes, texts, limits of retries and
snapshots, and any number of passes, from `EventRecordAssumption` and `ExplainSnapshotAssumption`.
`RecordInv` has the types, what each attempt row tells (`RowsTell`), where the record's error
comes from (`ErrorKept`) and how retries are counted (`PassCounted`):

- `ExplanationAgrees` (`DatabaseProofs`): `RecordSpec => []ExplainAgreesWithWorker`. `RowTells` looks at
  every code and every way to fail without one, with any reason phrase and address,
  through `NewHTTPFailure` to the stored text and back through `explainAttemptOutcome`.
- `TriageIsAboutAttempts` (`DatabaseProofs`): `RecordSpec => []TriageFollowsAttempts`. The code and the
  error of a request come from attempts (`ErrorKept`), and codes of transient failures with
  a text that has no word of a rejection never classify as one (`TriageOfTransient`),
  whichever two rows they are taken from.
- `RetryCountTold` (`DatabaseProofs`): `RecordSpec => []RetryCountIsLongestPass`. `PassCounted`: the number
  in a RETRYING row is the number of RETRYING rows of its pass so far.
- `SnapshotFits` (`DatabaseProofs`): `RecordSpec => []SnapshotWithinLimits`. `Largest(S, n)` and
  `Smallest(S, n)` have at most `n` elements, and as many if `S` has (`LargestFits`,
  `LargestFills`, `SmallestKeepsAll`), by looking at an extremal element.

Explanations, for any timeouts, chunks, snapshots and providers, from `ExplanationAssumption`.
`ExplainInv` says that a draft about to be returned, or answered with 200, was made for this
snapshot and is valid:

- `AnswersAreGrounded` (`SequentialProofs`): `ExplainSpec => []AnswerIsGrounded`.
- `StatusesAreFacts` (`SequentialProofs`): `ExplainSpec => []StatusIndependentOfProvider`, since the texts of
  the deterministic provider have the status of `recovery_status_for_request` in every
  branch (`StatusesAgree`).

`SequentialProofs` has the proofs of the parts in which one actor works alone (backoff, replay,
explanation), `DatabaseProofs` those of the schema, the process and the rows of an event.

Only model-checked: the liveness properties `Drains`, `RedriveRecovers`, `EveryRequestAnswered`,
`HealthyRowsPublished`, `ReplayEnds`, `OneComesUp`, `SignalEndsProcess`, `ExplainedWhileUp` and the
liveness part of `ImplementsLifecycle`, since fairness and ENABLED are out of the prover's reach.
`RedrivesAnswerDeadLetters` is safety and is only checked, too: it compares the sizes of sets that
grow together, and the induction over their cardinalities has not been carried out.
`TimeoutIsOutage` is refuted by its run.

## Not modelled

- The contents of messages, headers and payloads; the wording of errors beyond the words
  the code looks for; JSON decoding, validation of bodies and the canonical request hash.
- `ListDLQ`, the metrics, health and version handlers and `GET /events/{id}`: single reads that
  are formatted. The list ends after 200 records without a cursor.
- Trimming of the Redis stream (the code does none) and loss of Redis data.
- Embeddings, prompts and the parsing of runbooks in the AI service; model providers are
  an arbitrary answer or failure. The provider choice of triage is left at deterministic.
- The dashboard: the runs, polls and aborts of its hook, and all rendering. CORS. The test
  helpers.

## Plan

1. The dashboard hook: runs, polls and aborts, and what is shown after a redrive.
2. What the view should show when duplicates of an event end differently, once that is
   decided (two hazards in `PROJECT.json` wait for it).
