------------------------------ MODULE EventRail ------------------------------
(***************************************************************************)
(* The whole way of an event: Ingestion, Outbox and Delivery composed.     *)
(*                                                                         *)
(* They meet in two places.  The COMMIT of an ingestion transaction is     *)
(* what inserts a row into the outbox; the XADD of an outbox runner (and   *)
(* of a replay, which publishes any stored event again) is what appends an *)
(* entry to the stream that the workers read.  Each is one joint step of   *)
(* the two components; every other step belongs to one of them.            *)
(***************************************************************************)
EXTENDS Delivery

CONSTANTS
    Requests, Key, Hash, NoKey,            \* of Ingestion
    Publishers, NoRow, MaxDelay, MaxFaults, \* of Outbox
    MaxReplays                             \* bound: publications by replays

ASSUME RailAssumption ==
    /\ \A q \in Requests : Hash[q] # "NULL"
    /\ NoRow \notin Events
    /\ MaxDelay \in Nat \ {0} /\ MaxFaults \in Nat /\ MaxReplays \in Nat

VARIABLES
    \* Ingestion
    events, outbox, inPc, inId, staged, answer,
    \* Outbox
    status, queue, left, sent, outPc, row, ahead, faults,
    replays

In == INSTANCE Ingestion WITH
    pc <- inPc, id <- inId, EventIds <- Events, LegacyEvents <- {}

Out == INSTANCE Outbox WITH pc <- outPc, Healthy <- Events

inVars  == <<events, outbox, inPc, inId, staged, answer>>
outVars == <<status, queue, left, sent, outPc, row, ahead, faults>>
railVars == <<vars, inVars, outVars, replays>>

RailInit == Init /\ In!Init /\ Out!Init /\ replays = 0

-----------------------------------------------------------------------------
\* Mutant of StoredTogether: the outbox row is a write of its own, which a
\* crash can cut off.
StoredApart ==
    \/ UNCHANGED outVars
    \/ \E e \in outbox' \ outbox : Out!Insert(e)

\* The rows that a transaction adds to the outbox appear with its COMMIT.
StoredTogether ==
    \/ outbox' = outbox /\ UNCHANGED outVars
    \/ \E e \in outbox' \ outbox : Out!Insert(e)

Persist(q) ==
    /\ In!Persist(q)
    /\ StoredTogether
    /\ UNCHANGED <<vars, replays>>

RequestFails(q) ==
    /\ In!Rollback(q)
    /\ UNCHANGED <<vars, outVars, replays>>

\* Mutant of SendEntry: the runner's entry goes to another stream.
SendElsewhere(p) == Out!XAdd(p) /\ UNCHANGED vars

\* The runner's XADD is the entry that the workers read.
SendEntry(p) == Out!XAdd(p) /\ Publish(row[p])

RunOutbox(p) ==
    /\ \/ SendEntry(p)
       \/ /\ \/ Out!Claim(p) \/ Out!ClaimNothing(p) \/ Out!XAddFails(p)
             \/ Out!MarkPublished(p) \/ Out!Reschedule(p) \/ Out!Wake(p)
          /\ UNCHANGED vars
    /\ UNCHANGED <<inVars, replays>>

OutboxElse ==
    /\ Out!Tick \/ \E p \in Publishers : Out!Rollback(p)
    /\ UNCHANGED <<vars, inVars, replays>>

Replay(e) ==
    /\ \E ev \in events : ev.id = e
    /\ replays < MaxReplays
    /\ replays' = replays + 1
    /\ Publish(e)
    /\ UNCHANGED <<inVars, outVars>>

DeliveryElse ==
    /\ Next
    /\ publishes' = publishes
    /\ UNCHANGED <<inVars, outVars, replays>>

RailNext ==
    \/ \E q \in Requests : Persist(q) \/ RequestFails(q)
    \/ \E p \in Publishers : RunOutbox(p)
    \/ OutboxElse
    \/ \E e \in Events : Replay(e)
    \/ DeliveryElse

RailSpec == RailInit /\ [][RailNext]_railVars

\* The fairness of the three components: nothing more is assumed of the
\* whole.
Alone(A) == A /\ UNCHANGED <<inVars, outVars, replays>>

RailFairSpec ==
    /\ RailSpec
    /\ \A q \in Requests : WF_railVars(Persist(q))
    /\ WF_railVars(Out!Tick /\ UNCHANGED <<vars, inVars, replays>>)
    /\ \A p \in Publishers : WF_railVars(RunOutbox(p))
    /\ SF_railVars(\E p \in Publishers : SendEntry(p) /\ UNCHANGED <<inVars, replays>>)
    /\ \A w \in Workers : /\ WF_railVars(Alone(StreamWorker(w)))
                          /\ WF_railVars(Alone(RetryPump(w)))
                          /\ WF_railVars(Alone(Start(w)))
    /\ \A r \in Redrives : WF_railVars(Alone(Redrive(r)))
    /\ WF_railVars(Alone(\E id \in pel : ~InHand(id) /\ BecomeIdle(id)))
    /\ WF_railVars(Alone(\E m \in zset : BecomeDue(m)))

-----------------------------------------------------------------------------
(* Properties.                                                             *)

Stored == { ev.id : ev \in events }

\* Types of the components, and the counters they share: every publication
\* of the stream is one of the outbox or of a replay.
RailTypeOK ==
    /\ TypeOK /\ In!TypeOK /\ Out!TypeOK
    /\ replays \in 0..MaxReplays
    /\ \A e \in Events : sent[e] <= publishes

\* Nothing failed and nobody asked for a repetition.
Quiet == faults = 0 /\ replays = 0 /\ redrives = 0 /\ disturbances = 0

\* Once the client has its answer (created, or existing), the event is
\* somewhere where it will be taken up again, or it is settled: pending in
\* the outbox, in flight in Redis, delivered, open in the dead-letter table,
\* or given up by an operator.  No step of the three components, and no
\* crash between two of them, drops it ("Redis downtime cannot lose an
\* accepted event").  Nor is it handed over twice for nothing: with no fault,
\* no replay and no redrive the stream has at most one entry for each retry
\* number.  The one exception are the retry pumps of two processes, which
\* may both read a due member before one of them removes it (retryPump).
\* And the variables have their types.
AcceptedNotLost ==
    /\ RailTypeOK
    /\ \A q \in Requests : In!Accepted(q) =>
        LET e == answer[q].id IN
        \/ status[e] = "pending"
        \/ InFlight(e) \/ Delivered(e) \/ dlq[e] = "OPEN" \/ Skipped(e)
    /\ Quiet => \A i, j \in Ids : (i # j /\ SameTurn(i, j)) =>
            stream[i].retry > 0 /\ ~OneProcess

\* The refinement mapping to what EventRail promises.
Lifecycle == INSTANCE EventLifecycle WITH
    accepted  <- Stored,
    delivered <- { e \in Events : Delivered(e) },
    open      <- { e \in Events : dlq[e] = "OPEN" },
    skipped   <- { e \in Events : Skipped(e) }

\* The three components together implement the life of an event: it is
\* never delivered or dead-lettered before it is accepted, only a redrive
\* closes its record, and every accepted event is settled in the end, again
\* after each redrive.
ImplementsLifecycle == Lifecycle!Spec

-----------------------------------------------------------------------------
(* Inductive strengthening, for the proofs in EventRailProofs.             *)

\* Ingestion, outbox and stream tell the same story: a row is in the outbox
\* when its event is stored, it was sent only to the stream, and the stream,
\* the dead-letter table and the redrives know of stored events only.
Linked ==
    /\ \A e \in Events : e \in outbox <=> status[e] # "none"
    /\ \A e \in Events : sent[e] > 0 => Published(e) /\ sent[e] <= publishes
    /\ \A id \in Ids : stream[id].event \in outbox
    /\ \A e \in Events : dlq[e] # "none" => e \in outbox
    /\ \A r \in Redrives : rtx[r] # NoEvent => rtx[r] \in outbox
    /\ replays \in 0..MaxReplays

\* The outbox is the only one to add entries with retry 0, each event once.
FreshOnce ==
    /\ \A r \in Redrives : rtx[r] = NoEvent
    /\ \A id \in Ids : stream[id].retry = 0 => sent[stream[id].event] > 0
    /\ \A i, j \in Ids : (SameTurn(i, j) /\ stream[i].retry = 0) => i = j

HandedOverOnce ==
    Quiet => FreshOnce /\ (OneProcess => OneByOne)
=============================================================================
