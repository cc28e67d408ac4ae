--------------------------- MODULE EventRailProofs ---------------------------
(***************************************************************************)
(* Ingestion, Outbox and Delivery together, for every number of events,    *)
(* requests, publishers, workers and faults: an accepted event is never    *)
(* lost and never handed over twice for nothing (AcceptedNotLost), and     *)
(* every step of the whole is one of the life of an event (EventLifecycle, *)
(* its safety part).                                                       *)
(*                                                                         *)
(* Every step of the whole is a step of each component or leaves it alone, *)
(* so what is proved of a component alone (IngestionProofs, OutboxProofs,  *)
(* DeliveryProofs) holds of it here.  Linked, Chained and HandedOverOnce   *)
(* of EventRail are what has to be added, about two components at a time.  *)
(***************************************************************************)
EXTENDS EventRail, DeliveryProofs

USE DeliveryAssumption, RailAssumption

-----------------------------------------------------------------------------
(* Every step of the whole is a step of each component, or leaves it       *)
(* alone.                                                                  *)

\* What Ingestion and Outbox promise to the others, from their own proofs.
Ingested ==
    /\ In!StoredWithOutbox
    /\ \A q \in Requests : inPc[q] = "commit" => inId[q] \in Events /\ staged[q] = {inId[q]}

Queued ==
    /\ Out!TypeOK
    /\ \A e \in Events : status[e] = "published" => sent[e] > 0
    /\ \A p \in Publishers : outPc[p] \in {"publish", "mark", "reschedule"} =>
           row[p] \in Events /\ status[row[p]] = "pending"
    /\ faults = 0 => \A p \in Publishers : outPc[p] = "publish" => ~(sent[row[p]] > 0)

PartInv == LossInv /\ Ended /\ Ingested /\ Queued

LEMMA StoredIsOutbox == Ingested => Stored = outbox /\ Stored \subseteq Events
<1> SUFFICES ASSUME Ingested PROVE Stored = outbox /\ Stored \subseteq Events
  BY Zenon
<1>1. outbox = { ev.id : ev \in events \ {} } /\ outbox \subseteq Events
  BY Zenon DEF Ingested, In!StoredWithOutbox, In!TypeOK
<1>2. events \ {} = events
  BY Zenon
<1> QED
  BY Zenon, <1>1, <1>2 DEF Stored

\* Only the COMMIT adds a row, that of its event.
LEMMA WhoStores ==
    ASSUME Ingested, NEW q \in Requests, In!Persist(q) \/ In!Rollback(q)
    PROVE  \/ events' = events /\ outbox' = outbox
           \/ /\ inId[q] \in Events /\ outbox' = outbox \cup {inId[q]}
              /\ events' = events \cup {In!Row(q)} /\ In!Row(q).id = inId[q]
<1>1. CASE In!Commit(q)
  <2>1. In!Row(q).id = inId[q]
    BY Zenon DEF In!Row
  <2> QED
    BY Zenon, <1>1, <2>1 DEF In!Commit, Ingested
<1>2. CASE ~In!Commit(q)
  BY Zenon, <1>2 DEF In!Persist, In!Rollback, In!InsertEvent, In!InsertConflicts,
       In!InsertOutbox, In!Lookup, In!CommitFound
<1> QED
  BY Zenon, <1>1, <1>2

LEMMA StepOfIngestion ==
    ASSUME RailNext PROVE In!Next \/ UNCHANGED inVars
<1>1. ASSUME NEW q \in Requests, Persist(q) \/ RequestFails(q) PROVE In!Next
  BY Zenon, <1>1 DEF Persist, RequestFails, In!Next
<1>2. ASSUME NEW p \in Publishers, RunOutbox(p) PROVE UNCHANGED inVars
  BY Zenon, <1>2 DEF RunOutbox
<1>3. OutboxElse \/ DeliveryElse \/ (\E e \in Events : Replay(e)) => UNCHANGED inVars
  BY Zenon DEF OutboxElse, DeliveryElse, Replay
<1> QED
  BY Zenon, <1>1, <1>2, <1>3 DEF RailNext

LEMMA StepOfOutbox ==
    ASSUME Ingested, RailNext PROVE Out!Next \/ UNCHANGED outVars
<1>1. ASSUME NEW q \in Requests, Persist(q) \/ RequestFails(q) PROVE Out!Next \/ UNCHANGED outVars
  <2>1. outbox' \ outbox \subseteq Events
    BY Zenon, <1>1, WhoStores DEF Persist, RequestFails
  <2> QED
    BY Zenon, <1>1, <2>1 DEF Persist, RequestFails, StoredTogether, Out!Next
<1>2. ASSUME NEW p \in Publishers, RunOutbox(p) PROVE Out!Next
  BY Zenon, <1>2 DEF RunOutbox, SendEntry, Out!Next, Out!Run
<1>3. OutboxElse => Out!Next
  BY Zenon DEF OutboxElse, Out!Next
<1>4. DeliveryElse \/ (\E e \in Events : Replay(e)) => UNCHANGED outVars
  BY Zenon DEF DeliveryElse, Replay
<1> QED
  BY ZenonT(60), <1>1, <1>2, <1>3, <1>4 DEF RailNext

\* What a step of the whole does to the stream is a step of Delivery.
LEMMA StepOfDelivery ==
    ASSUME Queued, RailNext PROVE Next \/ UNCHANGED vars
<1>1. ASSUME NEW q \in Requests, Persist(q) \/ RequestFails(q) PROVE UNCHANGED vars
  BY Zenon, <1>1 DEF Persist, RequestFails
<1>2. ASSUME NEW p \in Publishers, RunOutbox(p) PROVE Next \/ UNCHANGED vars
  <2>1. CASE SendEntry(p)
    <3>1. row[p] \in Events
      BY Zenon, <2>1 DEF Queued, SendEntry, Out!XAdd
    <3> QED
      BY Zenon, <2>1, <3>1 DEF SendEntry, Next
  <2> QED
    BY Zenon, <1>2, <2>1 DEF RunOutbox
<1>3. OutboxElse => UNCHANGED vars
  BY Zenon DEF OutboxElse
<1>4. DeliveryElse \/ (\E e \in Events : Replay(e)) => Next
  BY Zenon DEF DeliveryElse, Replay, Next
<1> QED
  BY Zenon, <1>1, <1>2, <1>3, <1>4 DEF RailNext

\* The step of the whole that adds an entry to the stream.
LEMMA WhoAdds ==
    ASSUME PartInv, RailNext
    PROVE  \/ stream' = stream
           \/ \E p \in Publishers : SendEntry(p) /\ UNCHANGED <<inVars, replays>>
           \/ \E e \in outbox : Replay(e)
           \/ \E w \in Workers : DeliveryElse /\ PumpPublish(w)
           \/ \E r \in Redrives : DeliveryElse /\ RedrivePublish(r)
<1> USE DEF vars, redisVars
<1>1. \A q \in Requests : Persist(q) \/ RequestFails(q) => stream' = stream
  BY Zenon DEF Persist, RequestFails
<1>2. \A p \in Publishers : RunOutbox(p) =>
          stream' = stream \/ (SendEntry(p) /\ UNCHANGED <<inVars, replays>>)
  BY Zenon DEF RunOutbox
<1>3. OutboxElse => stream' = stream
  BY Zenon DEF OutboxElse
<1>4. ASSUME NEW e \in Events, Replay(e) PROVE e \in outbox
  BY Zenon, <1>4, StoredIsOutbox DEF Replay, PartInv, Stored
<1>5. ASSUME DeliveryElse
      PROVE  \/ stream' = stream
             \/ \E w \in Workers : PumpPublish(w)
             \/ \E r \in Redrives : RedrivePublish(r)
  <2>1. publishes \in Nat /\ publishes' = publishes
    BY <1>5 DEF DeliveryElse, PartInv, LossInv, TypeInv, TypeOK, BoundType
  <2>2. publishes' # publishes + 1
    BY <2>1
  <2>3. ~ \E e \in Events : Publish(e)
    BY Zenon, <2>2 DEF Publish
  <2> QED
    BY Zenon, <1>5, <2>3, Footprint DEF DeliveryElse
<1> QED
  BY Zenon, <1>1, <1>2, <1>3, <1>4, <1>5 DEF RailNext

\* A row comes to the outbox with the commit of its event (Commit), and its
\* status is never taken back.
LEMMA IntentStep ==
    ASSUME PartInv, RailNext, \A e \in Events : e \in outbox <=> status[e] # "none"
    PROVE  /\ outbox \subseteq outbox'
           /\ \A e \in Events : e \in outbox' <=> status'[e] # "none"
<1> DEFINE G == /\ outbox \subseteq outbox'
                /\ \A e \in Events : e \in outbox' <=> status'[e] # "none"
<1>1. ASSUME outbox' = outbox, status' = status PROVE G
  BY Zenon, <1>1
<1>2. status \in [Events -> {"none", "pending", "published"}]
  BY Zenon DEF PartInv, Queued, Out!TypeOK
<1>3. ASSUME NEW q \in Requests, Persist(q) PROVE G
  <2>1. CASE outbox' = outbox /\ UNCHANGED outVars
    BY Zenon, <1>1, <2>1 DEF outVars
  <2>2. CASE \E e \in outbox' \ outbox : Out!Insert(e)
    <3>1. PICK e \in outbox' \ outbox : Out!Insert(e)
      BY Zenon, <2>2
    <3>3. outbox' = outbox \cup {inId[q]} /\ inId[q] \in Events
      BY Zenon, <1>3, <3>1, WhoStores DEF Persist, PartInv
    <3>4. outbox' = outbox \cup {e} /\ e \in Events
      BY Zenon, <3>1, <3>3
    <3>5. status' = [status EXCEPT ![e] = "pending"]
      BY Zenon, <3>1 DEF Out!Insert
    <3> QED
      BY Zenon, <1>2, <3>4, <3>5
  <2> QED
    BY Zenon, <1>3, <2>1, <2>2 DEF Persist, StoredTogether
<1>4. ASSUME NEW q \in Requests, RequestFails(q) PROVE G
  BY Zenon, <1>1, <1>4 DEF RequestFails, outVars, In!Rollback
<1>5. ASSUME NEW p \in Publishers, RunOutbox(p) PROVE G
  <2>1. outbox' = outbox
    BY Zenon, <1>5 DEF RunOutbox, inVars
  <2>2. CASE Out!MarkPublished(p)
    <3>1. row[p] \in Events /\ status[row[p]] = "pending"
      BY Zenon, <2>2 DEF Out!MarkPublished, PartInv, Queued
    <3>2. status' = [status EXCEPT ![row[p]] = "published"]
      BY Zenon, <2>2 DEF Out!MarkPublished
    <3> QED
      BY Zenon, <1>2, <2>1, <3>1, <3>2
  <2>3. CASE ~Out!MarkPublished(p)
    <3>1. status' = status
      BY Zenon, <1>5, <2>3 DEF RunOutbox, SendEntry, Out!XAdd, Out!Claim, Out!ClaimNothing,
           Out!XAddFails, Out!Reschedule, Out!Wake
    <3> QED
      BY Zenon, <1>1, <2>1, <3>1
  <2> QED
    BY Zenon, <2>2, <2>3
<1>6. OutboxElse \/ DeliveryElse \/ (\E e \in Events : Replay(e)) => G
  <2>1. OutboxElse \/ DeliveryElse \/ (\E e \in Events : Replay(e)) => outbox' = outbox /\ status' = status
    BY Zenon DEF OutboxElse, DeliveryElse, Replay, Out!Tick, Out!Rollback, inVars, outVars
  <2> QED
    BY Zenon, <1>1, <2>1
<1> QED
  BY Zenon, <1>3, <1>4, <1>5, <1>6 DEF RailNext

\* The stream grows, or a step leaves it alone.
LEMMA RailGrows ==
    ASSUME PartInv, [RailNext]_railVars
    PROVE  Grows /\ Len(stream') <= Len(stream) + 1 /\ \A e \in Events : Published(e) => Published(e)'
<1> USE DEF PartInv, LossInv, TypeInv, TypeOK
<1>1. CASE stream' = stream
  <2>1. Grows
    BY ZenonT(60), <1>1, GrowsUnchanged
  <2> QED
    BY Zenon, <1>1, <2>1, SameLength DEF Published, Ids
<1>2. CASE Next
  <2>1. Grows /\ Len(stream') <= Len(stream) + 1
    BY Zenon, <1>2, StreamStep
  <2>2. \A id \in Ids : id \in Ids' /\ stream'[id] = stream[id]
    BY Zenon, <2>1, GrownEntries
  <2> QED
    BY Zenon, <2>1, <2>2 DEF Published
<1> QED
  BY Zenon, <1>1, <1>2, StepOfDelivery DEF vars, redisVars, railVars

\* What is added is the entry of a runner, of a replay, of a pump, of a
\* redrive.
LEMMA Added ==
    ASSUME PartInv, NEW m \in Message, stream' = Append(stream, m)
    PROVE  Len(stream') = Len(stream) + 1 /\ stream'[Len(stream) + 1] = m /\ Len(stream) + 1 \in Ids'
<1>1. RedisType
  BY Zenon DEF PartInv, LossInv, TypeInv, TypeOK
<1> QED
  BY Zenon, <1>1, GrowsByAppend, AppendedEntry

\* The outbox counts what it added to the stream.
LEMMA SentStep ==
    ASSUME PartInv, RailNext,
           \A e \in Events : sent[e] > 0 => Published(e) /\ sent[e] <= publishes
    PROVE  \A e \in Events : sent'[e] > 0 => Published(e)' /\ sent'[e] <= publishes'
<1>1. publishes \in Nat
  BY DEF PartInv, LossInv, TypeInv, TypeOK, BoundType
<1>2. sent \in [Events -> Nat]
  BY Zenon DEF PartInv, Queued, Out!TypeOK
<1>3. \A e \in Events : Published(e) => Published(e)'
  BY Zenon, RailGrows
<1>4. CASE \E p \in Publishers : SendEntry(p)
  <2>1. PICK p \in Publishers : SendEntry(p)
    BY Zenon, <1>4
  <2>2. PICK d \in Events : d = row[p]
    BY Zenon, <2>1 DEF SendEntry, Out!XAdd, PartInv, Queued
  <2>3. stream' = Append(stream, Fresh(d)) /\ publishes' = publishes + 1
    BY Zenon, <2>1, <2>2 DEF SendEntry, Publish
  <2>4. Published(d)'
    <3>1. Len(stream) + 1 \in Ids' /\ stream'[Len(stream) + 1].event = d
      BY ZenonT(60), <2>3, FreshIsMessage, Added
    <3> QED
      BY Zenon, <3>1 DEF Published
  <2>5. sent' = [sent EXCEPT ![d] = @ + 1]
    BY Zenon, <2>1, <2>2 DEF SendEntry, Out!XAdd
  <2>6. ASSUME NEW e \in Events, sent'[e] > 0, e # d PROVE Published(e)
    BY SMTT(30), <1>2, <2>5, <2>6
  <2>7. ASSUME NEW e \in Events, sent'[e] > 0 PROVE sent'[e] <= publishes'
    BY SMTT(30), <1>1, <1>2, <2>3, <2>5, <2>7
  <2> QED
    BY Zenon, <1>3, <2>4, <2>6, <2>7
<1>5. CASE ~ \E p \in Publishers : SendEntry(p)
  <2>1. sent' = sent
    <3>1. \A e : Out!Insert(e) => sent' = sent
      BY Zenon DEF Out!Insert
    <3>2. \A q \in Requests : Persist(q) \/ RequestFails(q) => sent' = sent
      BY Zenon, <3>1 DEF Persist, StoredTogether, RequestFails, outVars
    <3>3. \A p \in Publishers : RunOutbox(p) => sent' = sent
      BY Zenon, <1>5 DEF RunOutbox, Out!Claim, Out!ClaimNothing, Out!XAddFails, Out!MarkPublished,
                  Out!Reschedule, Out!Wake
    <3>4. OutboxElse \/ DeliveryElse \/ (\E e \in Events : Replay(e)) => sent' = sent
      BY Zenon DEF OutboxElse, DeliveryElse, Replay, Out!Tick, Out!Rollback, outVars
    <3> QED
      BY Zenon, <3>2, <3>3, <3>4 DEF RailNext
  <2>2. publishes' = publishes \/ publishes' = publishes + 1
    BY Zenon, <1>5 DEF RailNext, Persist, RequestFails, RunOutbox, OutboxElse, Replay, DeliveryElse,
                Publish, vars, boundVars
  <2>3. publishes <= publishes' /\ publishes' \in Nat
    BY <1>1, <2>2
  <2> QED
    BY SMTT(30), <1>1, <1>2, <1>3, <2>1, <2>3
<1> QED
  BY Zenon, <1>4, <1>5

\* The stream has entries of stored events only.
LEMMA StreamLinked ==
    ASSUME PartInv, Linked, RailNext
    PROVE  \A id \in Ids' : stream'[id].event \in outbox'
<1>1. outbox \subseteq outbox' /\ outbox \subseteq Events
  BY Zenon, IntentStep, StoredIsOutbox DEF Linked, PartInv
<1>2. ASSUME stream' = stream PROVE \A id \in Ids' : stream'[id].event \in outbox'
  BY Zenon, <1>1, <1>2 DEF Linked, Ids
<1>3. ASSUME NEW m \in Message, m.event \in outbox, stream' = Append(stream, m)
      PROVE  \A id \in Ids' : stream'[id].event \in outbox'
  <2>1. Grows /\ Len(stream') = Len(stream) + 1 /\ stream'[Len(stream) + 1] = m
    BY Zenon, <1>3, GrowsByAppend DEF PartInv, LossInv, TypeInv, TypeOK
  <2>2. \A id \in Ids' : id \in Ids \/ id = Len(stream) + 1
    BY Zenon, <2>1, AppendedEntry
  <2> QED
    BY ZenonT(60), <1>1, <1>3, <2>1, <2>2 DEF Linked, Grows
<1>4. ASSUME NEW e \in outbox, stream' = Append(stream, Fresh(e))
      PROVE  \A id \in Ids' : stream'[id].event \in outbox'
  BY ZenonT(60), <1>1, <1>3, <1>4, FreshIsMessage
<1>5. ASSUME NEW p \in Publishers, SendEntry(p) PROVE row[p] \in outbox /\ stream' = Append(stream, Fresh(row[p]))
  <2>1. row[p] \in Events /\ status[row[p]] = "pending"
    BY Zenon, <1>5 DEF SendEntry, Out!XAdd, PartInv, Queued
  <2> QED
    BY ZenonT(60), <1>5, <2>1 DEF SendEntry, Publish, Linked
<1>6. ASSUME NEW w \in Workers, PumpPublish(w)
      PROVE  \E m \in Message : m.event \in outbox /\ stream' = Append(stream, m)
  <2>1. PICK m \in members[w] : stream' = Append(stream, m)
    BY Zenon, <1>6 DEF PumpPublish
  <2>2. m \in Message /\ FromEntry(m)
    BY Zenon, <2>1 DEF PartInv, LossInv, TypeInv, TypeOK, PumpType, PumpHands
  <2> QED
    BY Zenon, <2>1, <2>2 DEF FromEntry, Linked
<1>7. ASSUME NEW r \in Redrives, RedrivePublish(r) PROVE rtx[r] \in outbox /\ stream' = Append(stream, Fresh(rtx[r]))
  BY Zenon, <1>7 DEF RedrivePublish, Linked
<1>8. \A e \in outbox : Replay(e) => stream' = Append(stream, Fresh(e))
  BY Zenon DEF Replay, Publish
<1> QED
  BY ZenonT(60), WhoAdds, <1>2, <1>3, <1>4, <1>5, <1>6, <1>7, <1>8

\* The dead-letter table and the redrives know stored events only.
LEMMA RecordsLinked ==
    ASSUME PartInv, Linked, Next, outbox \subseteq outbox'
    PROVE  /\ \A e \in Events : dlq'[e] # "none" => e \in outbox'
           /\ \A r \in Redrives : rtx'[r] # NoEvent => rtx'[r] \in outbox'
<1> DEFINE G == /\ \A e \in Events : dlq'[e] # "none" => e \in outbox'
                /\ \A r \in Redrives : rtx'[r] # NoEvent => rtx'[r] \in outbox'
<1>1. /\ dlq \in [Events -> {"none", "OPEN", "REDRIVEN"}]
      /\ rtx \in [Redrives -> Events \cup {NoEvent}]
  BY Zenon DEF PartInv, LossInv, TypeInv, TypeOK, PgType, TxType
<1>2. ASSUME NEW e \in outbox, NEW v, dlq' = [dlq EXCEPT ![e] = v] \/ dlq' = dlq,
             NEW r, rtx' = [rtx EXCEPT ![r] = NoEvent] \/ rtx' = rtx
      PROVE  G
  BY Zenon, <1>1, <1>2 DEF Linked
<1>3. ASSUME UNCHANGED dlq, NEW r, rtx' = [rtx EXCEPT ![r] = NoEvent] \/ rtx' = rtx PROVE G
  BY Zenon, <1>1, <1>3 DEF Linked
<1>4. ASSUME NEW w \in Workers, RecordDeadLettered(w) PROVE G
  <2>1. cur[w] \in Ids
    BY Zenon, <1>4 DEF RecordDeadLettered, PartInv, LossInv, TypeInv, WorkerHands, Hand, WorkingPc
  <2>2. stream[cur[w]].event \in outbox
    BY Zenon, <2>1 DEF Linked
  <2> QED
    BY ZenonT(60), <1>2, <1>4, <2>2 DEF RecordDeadLettered, RecordOutcome, txVars
<1>5. ASSUME NEW r \in Redrives, NEW e \in Events, RedriveLock(r, e) PROVE G
  <2>1. e \in outbox /\ dlq' = dlq /\ rtx' = [rtx EXCEPT ![r] = e]
    BY Zenon, <1>5 DEF RedriveLock, Linked, pgVars
  <2> QED
    BY Zenon, <1>1, <2>1 DEF Linked
<1>6. ASSUME NEW r \in Redrives, RedrivePublish(r) \/ RedriveAbort(r) PROVE G
  BY Zenon, <1>3, <1>6 DEF RedrivePublish, RedriveAbort, txVars, pgVars
<1>7. ASSUME NEW r \in Redrives, RedriveCommit(r) PROVE G
  <2>1. rtx[r] \in outbox
    BY Zenon, <1>7 DEF RedriveCommit, Linked, PartInv, LossInv, TypeInv, TxHands
  <2> QED
    BY ZenonT(60), <1>2, <1>7, <2>1 DEF RedriveCommit
<1>8. UNCHANGED <<dlq, txVars>> => G
  BY Zenon, <1>3 DEF txVars
<1> HIDE DEF G
<1>9. G
  BY ZenonT(60), <1>4, <1>5, <1>6, <1>7, <1>8, Footprint DEF Redrive
<1> QED
  BY Zenon, <1>9 DEF G

LEMMA LinkedStep == PartInv /\ Linked /\ [RailNext]_railVars => Linked'
<1> SUFFICES ASSUME PartInv, Linked, [RailNext]_railVars PROVE Linked'
  BY Zenon
<1>1. CASE UNCHANGED railVars
  BY Zenon, <1>1 DEF Linked, Ids, Published, railVars, inVars, outVars, vars, redisVars, pgVars,
                     txVars, boundVars
<1>2. CASE RailNext
  <2>1. /\ outbox \subseteq outbox'
        /\ \A e \in Events : e \in outbox' <=> status'[e] # "none"
    BY Zenon, <1>2, IntentStep DEF Linked
  <2>2. \A e \in Events : sent'[e] > 0 => Published(e)' /\ sent'[e] <= publishes'
    BY Zenon, <1>2, SentStep DEF Linked
  <2>3. \A id \in Ids' : stream'[id].event \in outbox'
    BY Zenon, <1>2, StreamLinked
  <2>4. /\ \A e \in Events : dlq'[e] # "none" => e \in outbox'
        /\ \A r \in Redrives : rtx'[r] # NoEvent => rtx'[r] \in outbox'
    <3>1. CASE UNCHANGED vars
      BY ZenonT(60), <2>1, <3>1 DEF Linked, vars, pgVars, txVars
    <3> QED
      BY ZenonT(60), <1>2, <2>1, <3>1, RecordsLinked, StepOfDelivery DEF PartInv
  <2>5. replays' \in 0..MaxReplays
    <3>1. replays' = replays \/ (replays < MaxReplays /\ replays' = replays + 1)
      BY Zenon, <1>2 DEF RailNext, Persist, RequestFails, RunOutbox, OutboxElse, Replay, DeliveryElse
    <3>2. replays \in 0..MaxReplays
      BY Zenon DEF Linked
    <3> QED
      BY <3>1, <3>2
  <2> QED
    BY ZenonT(60), <2>1, <2>2, <2>3, <2>4, <2>5 DEF Linked
<1> QED
  BY Zenon, <1>1, <1>2

LEMMA LinkedInit == RailInit => Linked
<1> SUFFICES ASSUME RailInit PROVE Linked
  BY Zenon
<1>1. /\ outbox = {} /\ \A e \in Events : status[e] = "none" /\ sent[e] = 0
      /\ replays = 0 /\ Ids = {}
      /\ \A e \in Events : dlq[e] = "none"
      /\ \A r \in Redrives : rtx[r] = NoEvent
  BY DEF RailInit, In!Init, Out!Init, Init, Ids
<1>2. \A e \in Events : ~(sent[e] > 0)
  BY <1>1
<1>3. replays \in 0..MaxReplays
  BY <1>1
<1> QED
  BY Zenon, <1>1, <1>2, <1>3 DEF Linked

\* The three components and what links them.
RailInv == PartInv /\ Linked

\* Types, and the fate of what was accepted.
LEMMA AcceptedIsSomewhere ==
    ASSUME RailInv, NEW q \in Requests, In!Accepted(q), NEW e, e = answer[q].id
    PROVE  \/ status[e] = "pending"
           \/ InFlight(e) \/ Delivered(e) \/ dlq[e] = "OPEN" \/ Skipped(e)
<1>1. [id |-> e, key |-> Key[q], hash |-> Hash[q]] \in events
  BY Zenon DEF RailInv, PartInv, Ingested, In!StoredWithOutbox
<1>2. e \in Stored
  <2>1. [id |-> e, key |-> Key[q], hash |-> Hash[q]].id = e
    BY Zenon
  <2> QED
    BY Zenon, <1>1, <2>1 DEF Stored
<1>3. e \in outbox /\ e \in Events
  BY Zenon, <1>2, StoredIsOutbox DEF RailInv, PartInv
<1>4. status[e] \in {"pending", "published"}
  BY ZenonT(60), <1>3 DEF RailInv, Linked, PartInv, Queued, Out!TypeOK
<1>5. status[e] = "published" => sent[e] > 0
  BY Zenon, <1>3 DEF RailInv, PartInv, Queued
<1>6. status[e] = "published" => Published(e)
  BY Zenon, <1>3, <1>5 DEF RailInv, Linked
<1>7. NoEventLost
  BY Zenon, LossInvImplies DEF RailInv, PartInv
<1> QED
  BY ZenonT(60), <1>3, <1>4, <1>6, <1>7 DEF NoEventLost

-----------------------------------------------------------------------------
(* Every step of the whole is one of the life of an event.                 *)

DeliveredSet == { e \in Events : Delivered(e) }

OpenSet      == { e \in Events : dlq[e] = "OPEN" }

SkippedSet   == { e \in Events : Skipped(e) }

lifeVars     == <<Stored, DeliveredSet, OpenSet, SkippedSet>>

\* Without a new row or cursor, what is on record is on record as before.
LEMMA SameRecord ==
    ASSUME PartInv, Grows,
           \A id : Row(id, "DELIVERED") \in history' => Row(id, "DELIVERED") \in history,
           history \subseteq history'
    PROVE  DeliveredSet' = DeliveredSet
<1>1. \A id \in Ids : id \in Ids' /\ stream'[id] = stream[id]
  BY Zenon, GrownEntries
<1>2. \A id : Row(id, "DELIVERED") \in history => id \in Ids
  <2>1. history \subseteq [id : Ids, status : RowStatus]
    BY Zenon DEF PartInv, LossInv, TypeInv, TypeOK, PgType
  <2> QED
    BY <2>1 DEF Row
<1>3. \A e \in Events : Delivered(e)' <=> Delivered(e)
  BY Zenon, <1>1, <1>2 DEF Delivered, Row
<1> QED
  BY Zenon, <1>3 DEF DeliveredSet

LEMMA SameSkipped ==
    ASSUME PartInv, Grows, skipped' = skipped
    PROVE  SkippedSet' = SkippedSet
<1>1. \A id \in skipped : stream'[id] = stream[id]
  BY Zenon DEF Grows, PartInv, LossInv, TypeInv, TypeOK, BoundType
<1>2. \A e \in Events : Skipped(e)' <=> Skipped(e)
  BY Zenon, <1>1 DEF Skipped
<1> QED
  BY Zenon, <1>2 DEF SkippedSet

\* A step of Delivery delivers, dead-letters, redrives or skips stored
\* events, or settles nothing.
LEMMA DeliveryRefines ==
    ASSUME RailInv, Next, Stored' = Stored
    PROVE  [Lifecycle!Next]_lifeVars
<1> USE DEF DeliveredSet, OpenSet, SkippedSet
<1>1. PartInv /\ Linked /\ TypeInv /\ Grows /\ Stored = outbox
  BY ZenonT(60), StreamStep, StoredIsOutbox DEF RailInv, PartInv, LossInv
<1>2. dlq \in [Events -> {"none", "OPEN", "REDRIVEN"}]
  BY Zenon, <1>1 DEF TypeInv, TypeOK, PgType
<1>3. CASE /\ \A id : Row(id, "DELIVERED") \in history' => Row(id, "DELIVERED") \in history
           /\ history \subseteq history' /\ UNCHANGED <<dlq, skipped>>
  <2>1. DeliveredSet' = DeliveredSet /\ SkippedSet' = SkippedSet
    BY ZenonT(60), <1>1, <1>3, SameRecord, SameSkipped
  <2>2. OpenSet' = OpenSet
    BY Zenon, <1>3
  <2> QED
    BY Zenon, <2>1, <2>2 DEF lifeVars
<1>4. ASSUME NEW w \in Workers, RecordDelivered(w) PROVE \E e \in Events : Lifecycle!Deliver(e)
  <2>1. cur[w] \in Ids
    BY ZenonT(60), <1>1, <1>4 DEF RecordDelivered, TypeInv, WorkerHands, Hand, WorkingPc
  <2>2. PICK d \in Events : d = stream[cur[w]].event /\ d \in Stored
    BY ZenonT(60), <1>1, <2>1, StoredIsOutbox DEF Linked, PartInv
  <2>3. /\ history' = history \cup {Row(cur[w], "DELIVERED")}
        /\ stream' = stream /\ UNCHANGED <<dlq, skipped>>
    BY Zenon, <1>4 DEF RecordDelivered, RecordOutcome, Returns, Disturb, boundVars, redisVars
  <2>4. \A id : Row(id, "DELIVERED") = Row(cur[w], "DELIVERED") => id = cur[w]
    BY DEF Row
  <2>5. \A e \in Events : Delivered(e)' <=> (Delivered(e) \/ e = d)
    BY ZenonT(60), <2>1, <2>2, <2>3, <2>4 DEF Delivered, Ids, Row
  <2>6. DeliveredSet' = DeliveredSet \cup {d}
    BY Zenon, <2>5
  <2>7. OpenSet' = OpenSet /\ SkippedSet' = SkippedSet
    BY ZenonT(60), <1>1, <2>3, SameSkipped
  <2> QED
    BY ZenonT(60), <2>2, <2>6, <2>7 DEF Lifecycle!Deliver
<1>5. ASSUME NEW w \in Workers, RecordDeadLettered(w) PROVE \E e \in Events : Lifecycle!DeadLetter(e)
  <2>1. cur[w] \in Ids
    BY ZenonT(60), <1>1, <1>5 DEF RecordDeadLettered, TypeInv, WorkerHands, Hand, WorkingPc
  <2>2. PICK d \in Events : d = stream[cur[w]].event /\ d \in Stored
    BY Zenon, <1>1, <2>1, StoredIsOutbox DEF Linked, PartInv
  <2>3. /\ history' = history \cup {Row(cur[w], "DEAD_LETTERED")}
        /\ dlq' = [dlq EXCEPT ![d] = "OPEN"] /\ UNCHANGED skipped
    BY ZenonT(60), <1>5, <2>2 DEF RecordDeadLettered, RecordOutcome, Returns, Disturb, boundVars
  <2>4. \A id : Row(id, "DELIVERED") # Row(cur[w], "DEAD_LETTERED")
    BY DEF Row
  <2>5. DeliveredSet' = DeliveredSet
    BY ZenonT(60), <1>1, <2>3, <2>4, SameRecord
  <2>6. \A e \in Events : dlq'[e] = "OPEN" <=> (dlq[e] = "OPEN" \/ e = d)
    BY Zenon, <1>2, <2>3
  <2>7. OpenSet' = OpenSet \cup {d}
    BY Zenon, <2>6
  <2>8. SkippedSet' = SkippedSet
    BY ZenonT(60), <1>1, <2>3, SameSkipped
  <2> QED
    BY ZenonT(60), <2>2, <2>5, <2>7, <2>8 DEF Lifecycle!DeadLetter
<1>6. ASSUME NEW r \in Redrives, RedriveCommit(r)
      PROVE  (\E e \in Events : Lifecycle!Redrive(e)) \/ UNCHANGED lifeVars
  <2>1. PICK d \in Events : d = rtx[r]
    <3>1. rtx[r] \in Events \cup {NoEvent} /\ rtx[r] # NoEvent
      BY ZenonT(60), <1>1, <1>6 DEF RedriveCommit, TypeInv, TxHands, TypeOK, TxType
    <3> QED
      BY Zenon, <3>1
  <2>2. /\ history' = history \cup {Row(rpub[r], "REDRIVEN")}
        /\ dlq' = [dlq EXCEPT ![d] = "REDRIVEN"] /\ UNCHANGED skipped
    BY Zenon, <1>6, <2>1 DEF RedriveCommit, boundVars
  <2>3. \A id : Row(id, "DELIVERED") # Row(rpub[r], "REDRIVEN")
    BY DEF Row
  <2>4. DeliveredSet' = DeliveredSet
    BY ZenonT(60), <1>1, <2>2, <2>3, SameRecord
  <2>5. \A e \in Events : dlq'[e] = "OPEN" <=> (dlq[e] = "OPEN" /\ e # d)
    BY Zenon, <1>2, <2>2
  <2>6. OpenSet' = OpenSet \ {d}
    BY Zenon, <2>5
  <2>7. SkippedSet' = SkippedSet
    BY ZenonT(60), <1>1, <2>2, SameSkipped
  <2>8. CASE d \in OpenSet
    BY ZenonT(60), <2>1, <2>4, <2>6, <2>7, <2>8 DEF Lifecycle!Redrive
  <2>9. CASE d \notin OpenSet
    <3>1. OpenSet' = OpenSet
      BY ZenonT(60), <2>6, <2>9
    <3> QED
      BY ZenonT(60), <2>4, <2>7, <3>1 DEF lifeVars
  <2> QED
    BY Zenon, <2>8, <2>9
<1>7. ASSUME NEW c \in 0..Len(stream), SetGroupCursor(c) PROVE Lifecycle!Skip
  <2>1. UNCHANGED <<stream, history, dlq>> /\ skipped \subseteq skipped'
    BY Zenon, <1>7 DEF SetGroupCursor, pgVars
  <2>2. DeliveredSet' = DeliveredSet /\ OpenSet' = OpenSet
    BY Zenon, <1>1, <2>1, SameRecord
  <2>3. SkippedSet \subseteq SkippedSet'
    BY Zenon, <2>1 DEF Skipped
  <2>4. SkippedSet' \subseteq Stored
    <3>1. TypeInv'
      BY Zenon, <1>1, TypeStep
    <3>2. skipped' \subseteq Ids' /\ Ids' = Ids
      BY ZenonT(60), <2>1, <3>1 DEF TypeInv, TypeOK, BoundType, Ids
    <3> QED
      BY ZenonT(60), <1>1, <2>1, <3>2 DEF Skipped, Linked
  <2> QED
    BY ZenonT(60), <2>2, <2>3, <2>4 DEF Lifecycle!Skip
<1> QED
  BY ZenonT(60), <1>3, <1>4, <1>5, <1>6, <1>7, WhoSettles DEF Lifecycle!Next

\* An event is accepted by the commit of its transaction.
LEMMA IngestionRefines ==
    ASSUME RailInv, NEW q \in Requests, In!Persist(q) \/ In!Rollback(q), UNCHANGED vars
    PROVE  [Lifecycle!Next]_lifeVars
<1>1. UNCHANGED <<DeliveredSet, OpenSet, SkippedSet>>
  BY Zenon DEF DeliveredSet, OpenSet, SkippedSet, Delivered, Skipped, Ids, vars, redisVars, pgVars,
               boundVars
<1>2. ASSUME NEW ev, ev.id \in Events, events' = events \cup {ev} PROVE Lifecycle!Next
  <2>1. Stored' = Stored \cup {ev.id}
    BY Zenon, <1>2 DEF Stored
  <2>2. Lifecycle!Accept(ev.id)
    BY Zenon, <1>1, <2>1 DEF Lifecycle!Accept, DeliveredSet, OpenSet, SkippedSet
  <2> QED
    BY Zenon, <1>2, <2>2 DEF Lifecycle!Next
<1>3. ASSUME events' = events PROVE UNCHANGED lifeVars
  BY ZenonT(60), <1>1, <1>3 DEF lifeVars, Stored
<1> QED
  BY ZenonT(60), <1>2, <1>3, WhoStores DEF RailInv, PartInv

LEMMA RailRefines == RailInv /\ [RailNext]_railVars => [Lifecycle!Next]_lifeVars
<1> SUFFICES ASSUME RailInv, [RailNext]_railVars PROVE [Lifecycle!Next]_lifeVars
  BY Zenon
<1>1. ASSUME UNCHANGED <<vars, events>> PROVE UNCHANGED lifeVars
  BY Zenon, <1>1 DEF lifeVars, Stored, DeliveredSet, OpenSet, SkippedSet, Delivered, Skipped, Ids,
               vars, redisVars, pgVars, boundVars
<1>2. CASE UNCHANGED railVars
  BY Zenon, <1>1, <1>2 DEF railVars, inVars
<1>3. ASSUME RailNext, events' = events PROVE [Lifecycle!Next]_lifeVars
  <2>1. Stored' = Stored
    BY Zenon, <1>3 DEF Stored
  <2> QED
    BY ZenonT(60), <1>1, <1>3, <2>1, DeliveryRefines, StepOfDelivery DEF RailInv, PartInv
<1>4. ASSUME NEW q \in Requests, Persist(q) \/ RequestFails(q) PROVE [Lifecycle!Next]_lifeVars
  BY Zenon, <1>4, IngestionRefines DEF Persist, RequestFails
<1>5. CASE /\ RailNext
           /\ \/ OutboxElse \/ DeliveryElse \/ \E e \in Events : Replay(e)
              \/ \E p \in Publishers : RunOutbox(p)
  <2>1. events' = events
    BY Zenon, <1>5 DEF OutboxElse, DeliveryElse, Replay, RunOutbox, inVars
  <2> QED
    BY Zenon, <1>3, <1>5, <2>1
<1> QED
  BY ZenonT(60), <1>2, <1>4, <1>5 DEF RailNext

-----------------------------------------------------------------------------
(* Without a fault nothing is handed over twice.                           *)

\* What is quiet now was quiet before, and no step of a disturbance, of a
\* replay or of a redrive led here.
LEMMA QuietStep ==
    ASSUME RailInv, RailNext, Quiet'
    PROVE  /\ Quiet /\ ~Disturb /\ ~Out!Fault
           /\ \A e : ~Replay(e)
           /\ \A r, e : ~RedriveLock(r, e)
           /\ \A c : ~SetGroupCursor(c)
<1>1. /\ faults \in Nat /\ replays \in Nat /\ redrives \in Nat /\ disturbances \in Nat
  BY DEF RailInv, Linked, PartInv, LossInv, TypeInv, TypeOK, BoundType, Queued, Out!TypeOK
<1>2. faults' = 0 /\ replays' = 0 /\ redrives' = 0 /\ disturbances' = 0
  BY Zenon DEF Quiet
<1>3. faults' # faults + 1 /\ replays' # replays + 1 /\ redrives' # redrives + 1
      /\ disturbances' # disturbances + 1
  BY SMTT(30), <1>1, <1>2
<1>4. disturbances' = disturbances /\ redrives' = redrives
  BY ZenonT(60), <1>3, StepOfDelivery, Counters DEF RailInv, PartInv, vars, boundVars
<1>5. replays' = replays
  BY Zenon, <1>3 DEF RailNext, Persist, RequestFails, RunOutbox, OutboxElse, Replay, DeliveryElse
<1>6. faults' = faults
  <2>1. ~Out!Fault
    BY Zenon, <1>3 DEF Out!Fault
  <2> QED
    BY Zenon, <2>1, StepOfOutbox DEF RailInv, PartInv, outVars, Out!Next, Out!Insert, Out!Tick, Out!Run,
         Out!Claim, Out!ClaimNothing, Out!XAdd, Out!XAddFails, Out!MarkPublished,
         Out!Reschedule, Out!Wake, Out!Rollback, Out!Committed
<1>7. Quiet
  BY ZenonT(60), <1>2, <1>4, <1>5, <1>6 DEF Quiet
<1> QED
  BY ZenonT(60), <1>3, <1>7 DEF Disturb, Out!Fault, Replay, RedriveLock, SetGroupCursor

\* A runner that is about to send has not sent before.
LEMMA QuietRows ==
    ASSUME RailInv, Quiet, NEW p \in Publishers, outPc[p] = "publish"
    PROVE  row[p] \in Events /\ ~(sent[row[p]] > 0)
  BY Zenon DEF RailInv, PartInv, Queued, Quiet

LEMMA NewEntry ==
    ASSUME PartInv, NEW m \in Message, stream' = Append(stream, m), NEW id \in Ids', id \notin Ids
    PROVE  id = Len(stream) + 1 /\ stream'[id] = m
<1>1. RedisType
  BY Zenon DEF PartInv, LossInv, TypeInv, TypeOK
<1> QED
  BY ZenonT(60), <1>1, GrowsByAppend, AppendedEntry

\* The outbox adds the entries with retry 0, one for each event.
LEMMA FreshStep ==
    ASSUME RailInv, Chained, FreshOnce, RailNext, Quiet'
    PROVE  FreshOnce'
<1>1. Quiet /\ (\A e : ~Replay(e)) /\ (\A r, e : ~RedriveLock(r, e)) /\ TypeInv /\ PartInv
  BY Zenon, QuietStep DEF RailInv, PartInv, LossInv
<1>2. sent \in [Events -> Nat] /\ rtx \in [Redrives -> Events \cup {NoEvent}]
  BY Zenon, <1>1 DEF PartInv, Queued, Out!TypeOK, TypeInv, TypeOK, TxType
<1>3. Grows
  BY Zenon, <1>1, RailGrows
<1>4. \A id \in Ids : id \in Ids' /\ stream'[id] = stream[id] /\ stream[id].event \in Events
  <2>1. \A id \in Ids : id \in Ids' /\ stream'[id] = stream[id] /\ stream[id] \in Message
    BY ZenonT(60), <1>3, GrownEntries
  <2> QED
    BY ZenonT(60), <2>1 DEF Message
<1>5. \A r \in Redrives : rtx'[r] = NoEvent
  <2>1. \A r \in Redrives : rtx[r] = NoEvent /\ rpub[r] = 0
    BY Zenon, <1>1 DEF FreshOnce, TypeInv, TxHands
  <2>2. \A r \in Redrives : ~Redrive(r) /\ ~RedriveAbort(r)
    BY Zenon, <2>1 DEF Redrive, RedrivePublish, RedriveCommit, RedriveAbort
  <2>3. rtx' = rtx
    BY ZenonT(60), <1>1, <2>2, StepOfDelivery, Footprint
       DEF PartInv, vars, txVars, RecordDeadLettered, RecordOutcome
  <2> QED
    BY Zenon, <2>1, <2>3
<1>6. \A e \in Events : sent[e] > 0 => sent'[e] > 0
  <2>1. ASSUME NEW p \in Publishers, Out!XAdd(p) PROVE sent' = [sent EXCEPT ![row[p]] = @ + 1]
    BY ZenonT(60), <2>1 DEF Out!XAdd
  <2>2. sent' = sent \/ \E p \in Publishers : Out!XAdd(p)
    BY ZenonT(60), <1>1, StepOfOutbox DEF PartInv, outVars, Out!Next, Out!Insert, Out!Tick, Out!Run,
         Out!Claim, Out!ClaimNothing, Out!XAddFails, Out!MarkPublished,
         Out!Reschedule, Out!Wake, Out!Rollback
  <2> QED
    BY SMTT(30), <1>2, <2>1, <2>2
<1>7. ASSUME NEW id \in Ids', id \notin Ids, stream'[id].retry = 0
      PROVE  /\ stream'[id].event \in Events /\ id = Len(stream) + 1
             /\ ~(sent[stream'[id].event] > 0) /\ sent'[stream'[id].event] > 0
  <2>1. CASE \E p \in Publishers : SendEntry(p)
    <3>1. PICK p \in Publishers : SendEntry(p)
      BY Zenon, <2>1
    <3>2. row[p] \in Events /\ ~(sent[row[p]] > 0)
      BY ZenonT(60), <1>1, <3>1, QuietRows DEF SendEntry, Out!XAdd
    <3>3. sent' = [sent EXCEPT ![row[p]] = @ + 1]
      BY Zenon, <3>1 DEF SendEntry, Out!XAdd
    <3>4. sent'[row[p]] > 0
      BY SMTT(30), <1>2, <3>2, <3>3
    <3>5. stream' = Append(stream, Fresh(row[p]))
      BY Zenon, <3>1 DEF SendEntry, Publish
    <3>6. Fresh(row[p]) \in Message /\ Fresh(row[p]).event = row[p]
      BY Zenon, <3>2, FreshIsMessage
    <3>7. id = Len(stream) + 1 /\ stream'[id] = Fresh(row[p])
      BY ZenonT(60), <1>1, <1>7, <3>5, <3>6, NewEntry
    <3> QED
      BY ZenonT(60), <3>2, <3>4, <3>6, <3>7
  <2>2. CASE \E w \in Workers : PumpPublish(w)
    <3>1. PICK w \in Workers : PumpPublish(w)
      BY Zenon, <2>2
    <3>2. PICK m \in members[w] : stream' = Append(stream, m)
      BY Zenon, <3>1 DEF PumpPublish
    <3>3. m \in Message /\ Made(m)
      BY ZenonT(60), <1>1, <3>2 DEF TypeInv, TypeOK, PumpType, Chained
    <3>4. stream'[id] = m
      BY ZenonT(60), <1>1, <1>7, <3>2, <3>3, NewEntry
    <3>5. m.retry > 0
      BY ZenonT(60), <1>1, <3>3, MadeIs
    <3> QED
      BY ZenonT(60), <1>7, <3>4, <3>5, Order
  <2>3. stream' # stream
    BY Zenon, <1>7 DEF Ids
  <2>4. \A r \in Redrives : ~RedrivePublish(r)
    BY Zenon DEF FreshOnce, RedrivePublish
  <2> QED
    BY ZenonT(60), <1>1, <2>1, <2>2, <2>3, <2>4, WhoAdds
<1>8. \A id \in Ids' : stream'[id].retry = 0 => sent'[stream'[id].event] > 0
  BY ZenonT(60), <1>4, <1>6, <1>7 DEF FreshOnce
<1>9. ASSUME NEW i \in Ids', NEW j \in Ids', stream'[i].event = stream'[j].event,
             stream'[i].retry = stream'[j].retry, stream'[i].retry = 0
      PROVE  i = j
  <2>1. ASSUME NEW k \in Ids, NEW n \in Ids', n \notin Ids, stream'[k].retry = 0, stream'[n].retry = 0
        PROVE  stream'[k].event # stream'[n].event
    <3>1. sent[stream'[k].event] > 0
      BY ZenonT(60), <1>4, <2>1 DEF FreshOnce
    <3> QED
      BY ZenonT(60), <1>7, <2>1, <3>1
  <2>2. CASE i \in Ids /\ j \in Ids
    BY ZenonT(60), <1>4, <1>9, <2>2 DEF FreshOnce, SameTurn
  <2>3. CASE i \notin Ids /\ j \notin Ids
    BY ZenonT(60), <1>7, <1>9, <2>3
  <2> QED
    BY ZenonT(60), <1>9, <2>1, <2>2, <2>3
<1> QED
  BY ZenonT(60), <1>5, <1>8, <1>9 DEF FreshOnce, SameTurn

\* The steps of Delivery that a quiet run of one process takes.
LEMMA QuietKinds ==
    ASSUME RailInv, FreshOnce, OneReader, OneProcess, RailNext, Quiet'
    PROVE  \/ UNCHANGED vars
           \/ /\ Next
              /\ \/ \E e \in Events : Publish(e)
                 \/ \E m \in zset : BecomeDue(m)
                 \/ \E w \in Workers : StreamWorker(w) \/ RetryPump(w)
<1>1. ~Disturb /\ (\A r, e : ~RedriveLock(r, e)) /\ (\A c : ~SetGroupCursor(c)) /\ TypeInv
  BY Zenon, QuietStep DEF RailInv, PartInv, LossInv
<1>2. \A w \in Workers : /\ ~PollFails(w) /\ ~RecordProcessingFails(w) /\ ~CallFails(w)
                         /\ ~PumpFails(w) /\ ~Stop(w) /\ ~Start(w)
  BY Zenon, <1>1 DEF PollFails, RecordProcessingFails, CallFails, PumpFails, Stop, Start, OneReader
<1>3. \A r \in Redrives : ~Redrive(r) /\ ~RedriveAbort(r)
  BY ZenonT(60), <1>1 DEF Redrive, RedrivePublish, RedriveCommit, RedriveAbort, FreshOnce, TypeInv, TxHands
<1>4. \A id \in pel : ~BecomeIdle(id)
  BY Zenon, <1>1 DEF BecomeIdle, OneReader
<1> QED
  BY ZenonT(60), <1>1, <1>2, <1>3, <1>4, StepOfDelivery DEF Next, RailInv, PartInv

HandInv == RailInv /\ Chained /\ HandedOverOnce

LEMMA HandInit == PartInv /\ RailInit => HandInv
<1> SUFFICES ASSUME PartInv, RailInit PROVE HandInv
  BY Zenon
<1>1. RailInv
  BY Zenon, LinkedInit DEF RailInv
<1>2. /\ Ids = {} /\ zset = {} /\ idle = {} /\ pel = {} /\ lastDelivered = 0
      /\ \A r \in Redrives : rtx[r] = NoEvent
  BY DEF RailInit, Init, Ids
<1>3. \A w \in Workers : /\ pc[w] = "poll" /\ batch[w] = {} /\ cur[w] = 0
                         /\ members[w] = {} /\ moved[w] = {}
  BY ZenonT(60) DEF RailInit, Init
<1>4. Chained
  BY ZenonT(60), <1>2, <1>3 DEF Chained
<1>5. FreshOnce
  BY ZenonT(60), <1>2 DEF FreshOnce
<1>6. \A w \in Workers : cur[w] <= lastDelivered
  BY SMTT(30), <1>2, <1>3
<1>7. OneByOne
  BY ZenonT(60), <1>2, <1>3, <1>6 DEF OneByOne, OneTurn, OneReader, OneRetry, OnePump
<1> QED
  BY ZenonT(60), <1>1, <1>4, <1>5, <1>7 DEF HandInv, HandedOverOnce

LEMMA HandStep == HandInv /\ PartInv' /\ [RailNext]_railVars => HandInv'
<1> SUFFICES ASSUME HandInv, PartInv', [RailNext]_railVars PROVE HandInv'
  BY Zenon
<1>1. RailInv /\ PartInv /\ TypeInv /\ Chained
  BY Zenon DEF HandInv, RailInv, PartInv, LossInv
<1>2. RailInv'
  BY Zenon, <1>1, LinkedStep DEF RailInv
<1>3. [Next]_vars
  BY Zenon, <1>1, StepOfDelivery DEF PartInv, railVars
<1>4. Chained'
  BY ZenonT(60), <1>1, <1>3, ChainedStep
<1>5. ASSUME UNCHANGED vars, OneByOne PROVE OneByOne'
  <2>1. UNCHANGED <<stream, idle, pel, batch, cur, pc, lastDelivered, zset, members, moved>>
    BY Zenon, <1>5 DEF vars, redisVars, workerVars, pumpVars
  <2>2. OneReader'
    BY Zenon, <1>5, <2>1 DEF OneByOne, OneReader, InHand
  <2>3. OneRetry'
    BY ZenonT(60), <1>5, <2>1 DEF OneByOne, OneRetry, Untouched, Unrepeated, Ids
  <2>4. OnePump'
    BY ZenonT(60), <1>5, <2>1 DEF OneByOne, OnePump, Unrepeated, Ids
  <2>5. OneTurn'
    BY Zenon, <1>5, <2>1 DEF OneByOne, OneTurn, SameTurn, Ids
  <2> QED
    BY ZenonT(60), <2>2, <2>3, <2>4, <2>5 DEF OneByOne
<1>6. CASE UNCHANGED railVars
  <2>1. Quiet' => Quiet
    BY Zenon, <1>6 DEF Quiet, railVars, outVars, vars, boundVars
  <2>2. FreshOnce => FreshOnce'
    BY Zenon, <1>6 DEF FreshOnce, SameTurn, Ids, railVars, outVars, vars, redisVars, txVars
  <2>3. UNCHANGED vars
    BY Zenon, <1>6 DEF railVars
  <2> QED
    BY ZenonT(60), <1>2, <1>4, <1>5, <2>1, <2>2, <2>3 DEF HandInv, HandedOverOnce
<1>7. ASSUME RailNext, Quiet' PROVE FreshOnce' /\ (OneProcess => OneByOne')
  <2>1. Quiet /\ FreshOnce /\ ~Disturb
    BY Zenon, <1>1, <1>7, QuietStep DEF HandInv, HandedOverOnce
  <2>2. FreshOnce'
    BY Zenon, <1>1, <1>7, <2>1, FreshStep
  <2>3. ASSUME OneProcess PROVE OneByOne'
    <3>1. OneByOne
      BY Zenon, <2>1, <2>3 DEF HandInv, HandedOverOnce
    <3>2. CASE UNCHANGED vars
      BY Zenon, <1>5, <3>1, <3>2
    <3>3. CASE /\ Next
               /\ \/ \E e \in Events : Publish(e)
                  \/ \E m \in zset : BecomeDue(m)
                  \/ \E w \in Workers : StreamWorker(w) \/ RetryPump(w)
      <4>1. OneReader' /\ OneRetry' /\ OnePump'
        BY ZenonT(60), <1>1, <2>1, <2>3, <3>1, <3>3, ReaderStep, RetryStep, PumpStep DEF OneByOne
      <4>2. ASSUME NEW i \in Ids', NEW j \in Ids', stream'[i].event = stream'[j].event,
                   stream'[i].retry = stream'[j].retry
            PROVE  i = j
        <5>1. CASE stream'[i].retry = 0
          BY ZenonT(60), <2>2, <4>2, <5>1 DEF FreshOnce, SameTurn
        <5> QED
          BY ZenonT(60), <1>1, <3>1, <3>3, <4>2, <5>1, TurnStep DEF OneByOne
      <4>3. OneTurn'
        BY Zenon, <4>2 DEF OneTurn, SameTurn
      <4> QED
        BY Zenon, <4>1, <4>3 DEF OneByOne
    <3> QED
      BY ZenonT(60), <1>1, <1>7, <2>1, <2>3, <3>1, <3>2, <3>3, QuietKinds DEF OneByOne
  <2> QED
    BY Zenon, <2>2, <2>3
<1>8. CASE RailNext
  <2>1. OneProcess' => OneProcess
    BY Zenon DEF OneProcess
  <2> QED
    BY ZenonT(60), <1>2, <1>4, <1>7, <1>8, <2>1 DEF HandInv, HandedOverOnce
<1> QED
  BY Zenon, <1>6, <1>8

LEMMA HandInvImplies == HandInv => AcceptedNotLost
<1> SUFFICES ASSUME HandInv PROVE AcceptedNotLost
  BY Zenon
<1>1. RailInv /\ PartInv /\ TypeInv
  BY Zenon DEF HandInv, RailInv, PartInv, LossInv
<1>2. TypeOK /\ In!TypeOK /\ Out!TypeOK /\ replays \in 0..MaxReplays
  BY Zenon, <1>1 DEF TypeInv, PartInv, RailInv, Linked, Ingested, In!StoredWithOutbox, Queued
<1>3. ASSUME NEW e \in Events PROVE sent[e] <= publishes
  <2>1. sent[e] \in Nat /\ (sent[e] > 0 => sent[e] <= publishes)
    BY Zenon, <1>1 DEF PartInv, Queued, Out!TypeOK, RailInv, Linked
  <2>2. publishes \in Nat
    BY <1>2 DEF TypeOK, BoundType
  <2> QED
    BY SMTT(30), <2>1, <2>2
<1>4. \A q \in Requests : In!Accepted(q) =>
        LET e == answer[q].id IN
        \/ status[e] = "pending"
        \/ InFlight(e) \/ Delivered(e) \/ dlq[e] = "OPEN" \/ Skipped(e)
  BY ZenonT(60), <1>1, AcceptedIsSomewhere
<1>5. ASSUME Quiet, NEW i \in Ids, NEW j \in Ids, i # j, SameTurn(i, j)
      PROVE  stream[i].retry > 0 /\ ~OneProcess
  <2>1. ~OneProcess
    BY Zenon, <1>5 DEF HandInv, HandedOverOnce, OneByOne, OneTurn
  <2>2. stream[i].retry # 0
    BY Zenon, <1>5 DEF HandInv, HandedOverOnce, FreshOnce
  <2>3. stream[i] \in Message
    BY ZenonT(60), <1>2, <1>5, Positions DEF TypeOK
  <2>4. stream[i].retry \in 0..MaxRetries
    BY Zenon, <2>3 DEF Message
  <2> QED
    BY SMTT(30), <2>1, <2>2, <2>4
<1> QED
  BY ZenonT(60), <1>2, <1>3, <1>4, <1>5 DEF AcceptedNotLost, RailTypeOK

-----------------------------------------------------------------------------
(* What is proved of Ingestion and of Outbox alone holds of them here.     *)

InP == INSTANCE IngestionProofs WITH
    pc <- inPc, id <- inId, EventIds <- Events, LegacyEvents <- {}

OutP == INSTANCE OutboxProofs WITH pc <- outPc, Healthy <- Events

LEMMA PartAssumptions == InP!IngestionAssumption /\ OutP!OutboxAssumption
  BY ZenonT(60) DEF InP!IngestionAssumption, InP!NoHash, OutP!OutboxAssumption

\* The definitions of Ingestion, under the names of its proofs.
LEMMA InSame ==
    /\ In!Init => InP!Init
    /\ [In!Next]_inVars => [InP!Next]_(InP!vars)
    /\ InP!StoredWithOutbox => In!StoredWithOutbox
<1>1. In!Init => InP!Init
  BY ZenonT(60) DEF In!Init, InP!Init, In!Store!Unanswered, InP!Store!Unanswered
<1>2. [In!Next]_inVars => [InP!Next]_(InP!vars)
  BY ZenonT(60) DEF inVars, InP!vars, In!Next, InP!Next, In!Persist, InP!Persist,
       In!InsertEvent, InP!InsertEvent, In!InsertConflicts, InP!InsertConflicts,
       In!InsertOutbox, InP!InsertOutbox, In!Commit, InP!Commit, In!Lookup, InP!Lookup,
       In!CommitFound, InP!CommitFound, In!Rollback, InP!Rollback, In!WithKey, InP!WithKey,
       In!Held, InP!Held, In!UsedIds, InP!UsedIds, In!Inserted, InP!Inserted, In!Goto, InP!Goto,
       In!Respond, InP!Respond, In!Row, InP!Row, In!Find, InP!Find,
       In!HashMatches, InP!HashMatches, In!NoHash, InP!NoHash
<1>3. InP!StoredWithOutbox => In!StoredWithOutbox
  BY ZenonT(60) DEF In!StoredWithOutbox, InP!StoredWithOutbox, InP!TypeOK, In!TypeOK,
       In!Accepted, InP!Accepted
<1> QED
  BY ZenonT(60), <1>1, <1>2, <1>3

\* The definitions of Outbox, under the names of its proofs.
LEMMA OutSame ==
    /\ Out!Init => OutP!Init
    /\ [Out!Next]_outVars => [OutP!Next]_(OutP!vars)
    /\ OutP!TypeOK => Out!TypeOK
<1>1. Out!Init => OutP!Init
  BY ZenonT(60) DEF Out!Init, OutP!Init
<1>2. [Out!Next]_outVars => [OutP!Next]_(OutP!vars)
  BY ZenonT(60) DEF outVars, OutP!vars, Out!Next, OutP!Next, Out!Run, OutP!Run,
       Out!Insert, OutP!Insert, Out!Tick, OutP!Tick, Out!Claim, OutP!Claim,
       Out!ClaimNothing, OutP!ClaimNothing, Out!XAdd, OutP!XAdd, Out!XAddFails, OutP!XAddFails,
       Out!MarkPublished, OutP!MarkPublished, Out!Reschedule, OutP!Reschedule,
       Out!Wake, OutP!Wake, Out!Rollback, OutP!Rollback, Out!Fault, OutP!Fault,
       Out!Pending, OutP!Pending, Out!Due, OutP!Due, Out!Locked, OutP!Locked,
       Out!Release, OutP!Release, Out!Committed, OutP!Committed,
       Out!Enqueue, OutP!Enqueue, Out!Without, OutP!Without
<1>3. OutP!TypeOK => Out!TypeOK
  BY ZenonT(60) DEF OutP!TypeOK, Out!TypeOK
<1> QED
  BY ZenonT(60), <1>1, <1>2, <1>3

\* The inductive invariant of the whole.
WholeInv == HandInv /\ InP!StoreInv /\ OutP!OutboxInv

LEMMA PartsImply ==
    /\ InP!StoreInv => Ingested
    /\ OutP!OutboxInv => Queued
<1>1. InP!StoreInv => Ingested
  BY ZenonT(60), PartAssumptions, InSame, InP!CommitsItsRow DEF InP!StoreInv, Ingested
<1>2. OutP!OutboxInv => Queued
  BY ZenonT(60), PartAssumptions, OutSame, OutP!RowsInHand DEF OutP!OutboxInv, Queued
<1> QED
  BY ZenonT(60), <1>1, <1>2

LEMMA WholeInit == RailInit => WholeInv
<1> SUFFICES ASSUME RailInit PROVE WholeInv
  BY ZenonT(60)
<1>1. InP!StoreInv
  BY ZenonT(60), PartAssumptions, InSame, InP!StoreInit DEF RailInit
<1>2. OutP!OutboxInv
  BY ZenonT(60), PartAssumptions, OutSame, OutP!OutboxInit DEF RailInit
<1>3. LossInv
  BY ZenonT(60), LossInit DEF RailInit
<1>4. Ids = {}
  BY SMTT(30) DEF RailInit, Init, Ids
<1>5. PartInv
  BY ZenonT(60), <1>1, <1>2, <1>3, <1>4, PartsImply DEF PartInv, RailInit, Init, Ended, Published
<1> QED
  BY ZenonT(60), <1>1, <1>2, <1>5, HandInit DEF WholeInv

LEMMA WholeStep == WholeInv /\ [RailNext]_railVars => WholeInv'
<1> SUFFICES ASSUME WholeInv, [RailNext]_railVars PROVE WholeInv'
  BY ZenonT(60)
<1>1. HandInv /\ PartInv /\ LossInv /\ Ended /\ Ingested /\ Queued /\ TypeInv
  BY ZenonT(60) DEF WholeInv, HandInv, RailInv, PartInv, LossInv
<1>2. InP!StoreInv'
  <2>1. [In!Next]_inVars
    BY ZenonT(60), StepOfIngestion DEF railVars
  <2> QED
    BY ZenonT(60), <2>1, PartAssumptions, InSame, InP!StoreStep DEF WholeInv
<1>3. OutP!OutboxInv'
  <2>1. [Out!Next]_outVars
    BY ZenonT(60), <1>1, StepOfOutbox DEF railVars
  <2> QED
    BY ZenonT(60), <2>1, PartAssumptions, OutSame, OutP!OutboxStep DEF WholeInv
<1>4. LossInv' /\ Ended'
  <2>1. [Next]_vars
    BY ZenonT(60), <1>1, StepOfDelivery DEF railVars
  <2> QED
    BY ZenonT(60), <1>1, <2>1, LossStep, EndedStep
<1>5. Ingested' /\ Queued'
  BY <1>2, <1>3, PartsImply, PTL
<1> QED
  BY ZenonT(60), <1>1, <1>2, <1>3, <1>4, <1>5, HandStep DEF WholeInv, PartInv

\* No accepted event is lost anywhere on its way from the ingestion
\* transaction through the outbox, the stream and the workers to its
\* delivery, for any number of events, requests, runners, workers, retries
\* and faults; and without a fault, a replay or a redrive it has one entry
\* for each retry number, but for the retries of two processes
\* (PersistEventWithOutbox, PublishNextOutboxEvent, processStreamMessage,
\* republishRetryMember, RedriveDLQ).
THEOREM AcceptedSurvives == RailSpec => []AcceptedNotLost
<1>1. WholeInv => AcceptedNotLost
  BY ZenonT(60), HandInvImplies DEF WholeInv
<1> QED
  BY <1>1, WholeInit, WholeStep, PTL DEF RailSpec

\* The life of an event, step by step: it is accepted once it is stored, only
\* a stored event is delivered, dead-lettered or skipped, and only a redrive
\* closes its record.  (That it is settled in the end is ImplementsLifecycle.)
THEOREM LifecycleImplemented == RailSpec => Lifecycle!Safety
<1>1. RailInit => Lifecycle!Init
  <2> SUFFICES ASSUME RailInit PROVE Lifecycle!Init
    BY Zenon
  <2>1. events = {} /\ Ids = {} /\ skipped = {} /\ \A e \in Events : dlq[e] = "none"
    BY SMTT(30) DEF RailInit, In!Init, Init, Ids
  <2>2. Stored = {} /\ \A e \in Events : ~Delivered(e) /\ dlq[e] # "OPEN" /\ ~Skipped(e)
    BY ZenonT(60), <2>1 DEF Stored, Delivered, Skipped
  <2> QED
    BY ZenonT(60), <2>2 DEF Lifecycle!Init
<1>2. WholeInv => RailInv
  BY ZenonT(60) DEF WholeInv, HandInv
<1>3. Lifecycle!Safety <=> Lifecycle!Init /\ [][Lifecycle!Next]_lifeVars
  BY Zenon DEF Lifecycle!Safety, Lifecycle!vars, lifeVars, DeliveredSet, OpenSet, SkippedSet
<1> QED
  BY <1>1, <1>2, <1>3, WholeInit, WholeStep, RailRefines, PTL DEF RailSpec
=============================================================================
