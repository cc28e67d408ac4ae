--------------------------- MODULE DeliveryProofs ---------------------------
(***************************************************************************)
(* Theorems about Delivery, for any number of events, workers and redrive  *)
(* requests and any bounds.  First type correctness: the stream only grows,*)
(* and the steps of the stream workers, the retry pumps, the environment   *)
(* and the redrives keep TypeInv, which is inductive (TypeCorrect).  Then  *)
(* what one step may do to an entry of the stream: how it leaves the       *)
(* group, how it stays scheduled, followed or done with, and what a worker *)
(* must have done to be where it is.  From these follow NoLoss,            *)
(* AcksAreRecorded and RecordsHaveCopies.                                  *)
(***************************************************************************)
EXTENDS Delivery, TLAPS

USE DeliveryAssumption

\* What appending an entry leaves as it was.
LEMMA AppendEntry ==
    ASSUME NEW s \in Seq(Message), NEW m \in Message
    PROVE  /\ Append(s, m) \in Seq(Message)
           /\ Len(Append(s, m)) = Len(s) + 1 /\ Len(s) \in Nat
           /\ \A i \in 1..Len(s) : Append(s, m)[i] = s[i] /\ s[i] \in Message
           /\ Append(s, m)[Len(s) + 1] = m
  OBVIOUS

\* The stream only ever grows.
Grows ==
    /\ stream' \in Seq(Message)
    /\ Len(stream) \in Nat /\ Len(stream') \in Nat /\ Len(stream) <= Len(stream')
    /\ \A i \in Ids : stream[i] \in Message /\ stream'[i] = stream[i]

LEMMA GrowsByAppend ==
    ASSUME RedisType, NEW m \in Message, stream' = Append(stream, m)
    PROVE  Grows /\ Len(stream') = Len(stream) + 1 /\ stream'[Len(stream) + 1] = m
  BY AppendEntry DEF Grows, RedisType, Ids

LEMMA GrowsUnchanged ==
    ASSUME RedisType, stream' = stream
    PROVE  Grows
  BY DEF Grows, RedisType, Ids

\* What the provers are told about numbers and positions.
LEMMA Order == /\ ~(0 > 0)
               /\ \A n \in Nat : n <= n /\ 0 <= n
               /\ \A n \in Nat, k \in Nat : n + 1 = k + 1 => n = k
  OBVIOUS

LEMMA Positions ==
    ASSUME RedisType
    PROVE  /\ Len(stream) \in Nat /\ lastDelivered \in Nat /\ lastDelivered <= Len(stream)
           /\ 0 \notin Ids /\ Ids \subseteq Nat /\ \A id \in Ids : stream[id] \in Message
  BY DEF RedisType, Ids

LEMMA CursorNext ==
    ASSUME RedisType'
    PROVE  lastDelivered' \in Nat
  BY DEF RedisType

LEMMA GrownEntries ==
    ASSUME Grows
    PROVE  \A id \in Ids : id \in Ids' /\ stream'[id] = stream[id] /\ stream[id] \in Message
  BY DEF Grows, Ids

LEMMA SameLength ==
    ASSUME RedisType, stream' = stream
    PROVE  Len(stream') <= Len(stream) + 1
  BY DEF RedisType

LEMMA AppendedEntry ==
    ASSUME Grows, Len(stream') = Len(stream) + 1
    PROVE  /\ \A j \in Ids' : j \in Ids \/ j = Len(stream) + 1
           /\ Len(stream) + 1 \in Ids' /\ Len(stream) + 1 \notin Ids
  BY DEF Grows, Ids

\* A worker that a step leaves alone keeps what it has in hand.
LEMMA HandKept ==
    ASSUME WorkerHands, Grows, NEW v \in Workers, pc'[v] = pc[v], cur'[v] = cur[v]
    PROVE  Hand(v)'
<1>1. Hand(v)
  BY Zenon DEF WorkerHands
<1>2. CASE pc[v] \in WorkingPc
  <2>1. cur[v] \in Ids /\ cur[v] \in Ids' /\ stream'[cur[v]] = stream[cur[v]]
    BY <1>1, <1>2 DEF Hand, Grows, Ids
  <2> QED
    BY Zenon, <1>1, <2>1 DEF Hand
<1>3. CASE pc[v] \notin WorkingPc
  BY Zenon, <1>3 DEF Hand, WorkingPc
<1> QED
  BY Zenon, <1>2, <1>3

\* Parts of the state that a step does not touch keep their invariants.
LEMMA Frame ==
    ASSUME TypeInv, Grows
    PROVE  /\ UNCHANGED <<lastDelivered, pel, idle, zset, due, dlqStream>> => RedisType'
           /\ UNCHANGED pgVars => PgType'
           /\ UNCHANGED workerVars => WorkerType' /\ WorkerHands'
           /\ UNCHANGED pumpVars => PumpType'
           /\ UNCHANGED <<zset, pumpVars>> => PumpHands'
           /\ UNCHANGED txVars => TxType' /\ TxHands'
           /\ UNCHANGED boundVars => BoundType'
<1> USE DEF TypeInv, TypeOK, Grows, Ids
<1>1. UNCHANGED <<lastDelivered, pel, idle, zset, due, dlqStream>> => RedisType'
  BY DEF RedisType
<1>2. UNCHANGED pgVars => PgType'
  BY DEF PgType, pgVars
<1>3. UNCHANGED workerVars => WorkerType' /\ WorkerHands'
  <2> SUFFICES ASSUME UNCHANGED workerVars
               PROVE  WorkerType' /\ WorkerHands'
    BY Zenon
  <2>1. WorkerType'
    BY DEF WorkerType, workerVars
  <2>2. WorkerHands'
    BY Zenon, HandKept DEF WorkerHands, workerVars
  <2> QED
    BY Zenon, <2>1, <2>2
<1>4. UNCHANGED pumpVars => PumpType'
  BY Zenon DEF PumpType, pumpVars
<1>5. UNCHANGED <<zset, pumpVars>> => PumpHands'
  BY DEF PumpHands, FromEntry, pumpVars
<1>6. UNCHANGED txVars => TxType' /\ TxHands'
  BY DEF TxType, TxHands, txVars
<1>7. UNCHANGED boundVars => BoundType'
  BY DEF BoundType, boundVars
<1> QED
  BY Zenon, <1>1, <1>2, <1>3, <1>4, <1>5, <1>6, <1>7

LEMMA TypeInit == Init => TypeInv
  BY DEF Init, TypeInv, TypeOK, RedisType, PgType, WorkerType, PumpType, TxType, BoundType,
         WorkerHands, Hand, PumpHands, TxHands, FromEntry, Ids, WorkingPc

\* The building blocks of the actions keep the types of what they change.
LEMMA DisturbType ==
    ASSUME TypeInv, Grows, Disturb
    PROVE  BoundType'
  BY SMTT(20) DEF TypeInv, TypeOK, Grows, Ids, BoundType, Disturb

LEMMA LeaveType ==
    ASSUME TypeInv, Grows, NEW w \in Workers, NEW id, Leave(w, id)
    PROVE  WorkerType' /\ WorkerHands'
<1> USE DEF TypeInv, TypeOK, WorkerType
<1>1. pc'[w] \in {"poll", "process"} /\ \A v \in Workers \ {w} : pc'[v] = pc[v] /\ cur'[v] = cur[v]
  BY Zenon DEF Leave
<1>2. WorkerType'
  <2>1. batch' \in [Workers -> SUBSET Ids']
    BY DEF Leave, Grows, Ids
  <2>2. pc' \in [Workers -> {"down", "poll", "process", "deliver", "schedule",
                             "retrying", "deadletter", "dead", "delivered", "ack"}]
    BY Zenon DEF Leave
  <2>3. cur' \in [Workers -> 0..Len(stream')]
    BY DEF Leave, Grows
  <2> QED
    BY Zenon, <2>1, <2>2, <2>3 DEF Leave
<1>3. Hand(w)'
  BY Zenon, <1>1 DEF Hand, WorkingPc
<1> QED
  BY <1>1, <1>2, <1>3, HandKept, Zenon DEF WorkerHands

LEMMA ReceiveType ==
    ASSUME TypeInv, Grows, NEW w \in Workers, NEW ids, ids \subseteq 1..Len(stream'),
           Receive(w, ids), phase' \in [Workers -> {"reclaim", "read"}]
    PROVE  WorkerType' /\ WorkerHands'
<1> USE DEF TypeInv, TypeOK, WorkerType
<1>1. pc'[w] \in {"poll", "process"} /\ \A v \in Workers \ {w} : pc'[v] = pc[v] /\ cur'[v] = cur[v]
  BY Zenon DEF Receive
<1>2. WorkerType'
  <2>1. batch' \in [Workers -> SUBSET Ids']
    BY DEF Receive, Grows, Ids
  <2>2. pc' \in [Workers -> {"down", "poll", "process", "deliver", "schedule",
                             "retrying", "deadletter", "dead", "delivered", "ack"}]
    BY Zenon DEF Receive
  <2>3. cur' \in [Workers -> 0..Len(stream')]
    BY DEF Receive, Grows
  <2> QED
    BY Zenon, <2>1, <2>2, <2>3
<1>3. Hand(w)'
  BY Zenon, <1>1 DEF Hand, WorkingPc
<1> QED
  BY <1>1, <1>2, <1>3, HandKept, Zenon DEF WorkerHands

LEMMA ReturnsType ==
    ASSUME TypeInv, Grows, NEW w \in Workers, pc[w] \in WorkingPc,
           NEW next \in {"retrying", "dead", "ack"}, Returns(w, next)
    PROVE  WorkerType' /\ WorkerHands' /\ BoundType'
<1>1. CASE Leave(w, cur[w]) /\ Disturb
  BY Zenon, <1>1, LeaveType, DisturbType
<1>2. CASE pc' = [pc EXCEPT ![w] = next] /\ UNCHANGED <<phase, batch, cur, boundVars>>
  <2>1. BoundType'
    BY Zenon, <1>2, Frame
  <2>2. WorkerType'
    BY <1>2 DEF TypeInv, TypeOK, Grows, Ids, WorkerType
  <2>3. \A v \in Workers \ {w} : Hand(v)'
    BY Zenon, <1>2, HandKept DEF TypeInv, TypeOK, WorkerType
  <2>4. pc'[w] = next /\ cur'[w] = cur[w] /\ cur[w] \in Ids
    BY Zenon, <1>2 DEF TypeInv, TypeOK, WorkerType, WorkerHands, Hand
  <2>5. Hand(w)'
    BY <2>4 DEF Hand, Grows, Ids
  <2> QED
    BY Zenon, <2>1, <2>2, <2>3, <2>5 DEF WorkerHands
<1> QED
  BY Zenon, <1>1, <1>2 DEF Returns


\* The commands with which a stream worker fetches its batches.
Poll(w) == Reclaim(w) \/ ReadGroup(w) \/ PollFails(w)

LEMMA PollingType ==
    ASSUME TypeInv, NEW w \in Workers, Poll(w)
    PROVE  TypeInv'
<1> USE DEF TypeInv, TypeOK
<1>1. Grows
  BY Zenon, GrowsUnchanged DEF Poll, Reclaim, ReadGroup, PollFails, redisVars
<1>2. PgType' /\ PumpType' /\ PumpHands' /\ TxType' /\ TxHands'
  BY Zenon, <1>1, Frame DEF Poll, Reclaim, ReadGroup, PollFails, redisVars
<1>3. phase' \in [Workers -> {"reclaim", "read"}]
  BY Zenon DEF Poll, Reclaim, ReadGroup, PollFails, WorkerType
<1>4. CASE Reclaim(w)
  <2>1. PICK ids \in FirstOf(idle) :
            /\ idle' = idle \ ids
            /\ \/ Receive(w, ids) /\ UNCHANGED boundVars
               \/ Receive(w, {}) /\ Disturb
    BY Zenon, <1>4 DEF Reclaim
  <2>2. ids \subseteq idle /\ ids \subseteq 1..Len(stream')
    BY Zenon, <1>1, <1>4 DEF FirstOf, RedisType, Reclaim, Ids
  <2>3. RedisType'
    BY <1>1, <1>4, <2>1, Zenon DEF Reclaim, RedisType, Grows, Ids
  <2>4. WorkerType' /\ WorkerHands' /\ BoundType'
    BY <1>1, <1>3, <2>1, <2>2, ReceiveType, DisturbType, Frame, Zenon
  <2> QED
    BY Zenon, <1>2, <2>3, <2>4
<1>5. CASE ReadGroup(w)
  <2> DEFINE last == IF lastDelivered + Count < Len(stream) THEN lastDelivered + Count
                                                            ELSE Len(stream)
             ids  == lastDelivered + 1 .. last
  <2>1. last \in 0..Len(stream) /\ ids \subseteq 1..Len(stream) /\ stream' = stream
    BY <1>1, <1>5 DEF RedisType, Grows, ReadGroup
  <2>2. /\ lastDelivered' = last /\ pel' = pel \cup ids /\ idle' = idle \ ids
        /\ UNCHANGED <<stream, zset, due, dlqStream>>
        /\ \/ Receive(w, ids) /\ UNCHANGED boundVars
           \/ Receive(w, {}) /\ Disturb
    BY Zenon, <1>5 DEF ReadGroup
  <2> HIDE DEF last, ids
  <2>3. RedisType'
    BY Zenon, <1>1, <2>1, <2>2 DEF RedisType, Grows, Ids
  <2>4. WorkerType' /\ WorkerHands' /\ BoundType'
    BY <1>1, <1>3, <2>1, <2>2, ReceiveType, DisturbType, Frame, Zenon
  <2> QED
    BY Zenon, <1>2, <2>3, <2>4
<1>6. CASE PollFails(w)
  <2>1. RedisType' /\ BoundType'
    BY Zenon, <1>1, <1>6, Frame, DisturbType DEF PollFails, redisVars
  <2>2. WorkerType'
    BY Zenon, <1>3, <1>6 DEF PollFails, WorkerType, redisVars, Ids
  <2>3. WorkerHands'
    BY Zenon, <1>1, <1>6, HandKept DEF PollFails, WorkerHands
  <2> QED
    BY Zenon, <1>2, <2>1, <2>2, <2>3
<1> QED
  BY Zenon, <1>4, <1>5, <1>6 DEF Poll

\* A row of the history names an entry of the stream.
LEMMA NewRow ==
    ASSUME PgType, Grows, NEW id \in Ids', NEW status \in RowStatus,
           history' = history \cup {Row(id, status)},
           dlq' \in [Events -> {"none", "OPEN", "REDRIVEN"}]
    PROVE  PgType'
<1>1. Row(id, status) \in [id : Ids', status : RowStatus]
  BY Zenon DEF Row
<1>2. [id : Ids, status : RowStatus] \subseteq [id : Ids', status : RowStatus]
  BY SMTT(20) DEF Grows, Ids
<1> QED
  BY Zenon, <1>1, <1>2 DEF PgType


\* Taking up a message and delivering it.
TakeUp(w) == RecordProcessing(w) \/ RecordProcessingFails(w) \/ Deliver(w)

LEMMA TakeUpType ==
    ASSUME TypeInv, NEW w \in Workers, TakeUp(w)
    PROVE  TypeInv'
<1> USE DEF TypeInv, TypeOK
<1>1. Grows
  BY Zenon, GrowsUnchanged DEF TakeUp, RecordProcessing, RecordProcessingFails, Deliver, redisVars
<1>2. RedisType' /\ PumpType' /\ PumpHands' /\ TxType' /\ TxHands' /\ stream' = stream
  BY Zenon, <1>1, Frame DEF TakeUp, RecordProcessing, RecordProcessingFails, Deliver, redisVars
<1>3. CASE RecordProcessing(w)
  <2>1. PICK id \in batch[w] :
            /\ history' = history \cup {Row(id, "PROCESSING")}
            /\ \/ /\ pc' = [pc EXCEPT ![w] = "deliver"]
                  /\ cur' = [cur EXCEPT ![w] = id]
                  /\ UNCHANGED <<phase, batch, boundVars>>
               \/ Leave(w, id) /\ Disturb
    BY Zenon, <1>3 DEF RecordProcessing
  <2>2. id \in Ids /\ id \in Ids'
    BY SMTT(20), <1>1 DEF WorkerType, Grows, Ids
  <2>3. PgType'
    BY Zenon, <1>1, <1>3, <2>1, <2>2, NewRow DEF RecordProcessing, RowStatus, PgType
  <2>4. CASE Leave(w, id) /\ Disturb
    BY Zenon, <1>1, <1>2, <2>3, <2>4, LeaveType, DisturbType
  <2>5. CASE /\ pc' = [pc EXCEPT ![w] = "deliver"]
             /\ cur' = [cur EXCEPT ![w] = id]
             /\ UNCHANGED <<phase, batch, boundVars>>
    <3>1. WorkerType'
      BY <1>2, <2>2, <2>5 DEF WorkerType, Ids
    <3>2. \A v \in Workers \ {w} : Hand(v)'
      BY Zenon, <1>1, <2>5, HandKept DEF WorkerType
    <3>3. pc'[w] = "deliver" /\ cur'[w] = id
      BY Zenon, <2>5 DEF WorkerType
    <3>4. Hand(w)'
      BY Zenon, <2>2, <3>3 DEF Hand
    <3>5. BoundType'
      BY Zenon, <1>1, <2>5, Frame
    <3> QED
      BY Zenon, <1>2, <2>3, <3>1, <3>2, <3>4, <3>5 DEF WorkerHands
  <2> QED
    BY Zenon, <2>1, <2>4, <2>5
<1>4. CASE RecordProcessingFails(w)
  <2>1. PgType' /\ BoundType'
    BY Zenon, <1>1, <1>4, Frame, DisturbType DEF RecordProcessingFails
  <2>2. WorkerType' /\ WorkerHands'
    BY Zenon, <1>1, <1>4, LeaveType DEF RecordProcessingFails
  <2> QED
    BY Zenon, <1>2, <2>1, <2>2
<1>5. CASE Deliver(w)
  <2>1. PgType' /\ BoundType'
    BY Zenon, <1>1, <1>5, Frame DEF Deliver
  <2>2. cur[w] \in Ids /\ stream[cur[w]] \in Message
    BY Zenon, <1>1, <1>5 DEF Deliver, WorkerHands, Hand, WorkingPc, Grows
  <2>3. PICK next :
            /\ pc' = [pc EXCEPT ![w] = next]
            /\ next \in {"delivered", "schedule", "deadletter"}
            /\ next = "schedule" => stream[cur[w]].retry < MaxRetries
    BY <1>5, ZenonT(60) DEF Deliver, DecideFailureAction
  <2>4. WorkerType'
    BY Zenon, <1>2, <1>5, <2>3 DEF WorkerType, Deliver, Ids
  <2>5. \A v \in Workers \ {w} : Hand(v)'
    BY Zenon, <1>1, <1>5, <2>3, HandKept DEF WorkerType, Deliver
  <2>6. pc'[w] = next /\ cur'[w] = cur[w]
    BY Zenon, <1>5, <2>3 DEF WorkerType, Deliver
  <2>7. Hand(w)'
    BY Zenon, <1>2, <2>2, <2>3, <2>6 DEF Hand, Ids
  <2> QED
    BY Zenon, <1>2, <2>1, <2>4, <2>5, <2>7 DEF WorkerHands
<1> QED
  BY Zenon, <1>3, <1>4, <1>5 DEF TakeUp

-----------------------------------------------------------------------------

\* The member that scheduleRetry stores is well formed: the retry number it
\* increments was below the budget.
LEMMA MemberType ==
    ASSUME TypeInv, NEW w \in Workers, pc[w] = "schedule"
    PROVE  /\ cur[w] \in Ids
           /\ RetryMember(cur[w]) \in Message
           /\ FromEntry(RetryMember(cur[w]))
<1>1. Hand(w) /\ stream \in Seq(Message)
  BY Zenon DEF TypeInv, WorkerHands, TypeOK, RedisType
<1>2. cur[w] \in Ids /\ stream[cur[w]].retry < MaxRetries
  BY Zenon, <1>1 DEF Hand, WorkingPc
<1>3. stream[cur[w]] \in Message /\ cur[w] \in Nat
  BY SMTT(20), <1>1, <1>2 DEF Ids
<1> QED
  BY <1>2, <1>3 DEF RetryMember, FromEntry, Message

\* The calls that settle a message.
Settle(w) ==
    \/ ScheduleRetry(w) \/ RecordRetrying(w) \/ RecordDelivered(w) \/ MoveToDLQ(w)
    \/ RecordDeadLettered(w) \/ Ack(w) \/ CallFails(w)

LEMMA SettleType ==
    ASSUME TypeInv, NEW w \in Workers, Settle(w)
    PROVE  TypeInv'
<1> USE DEF TypeInv, TypeOK
<1>1. Grows /\ stream' = stream
  BY Zenon, GrowsUnchanged DEF Settle, ScheduleRetry, RecordRetrying, RecordDelivered, MoveToDLQ,
                        RecordDeadLettered, RecordOutcome, Ack, CallFails, redisVars
<1>2. PumpType' /\ TxType' /\ TxHands'
  BY Zenon, <1>1, Frame DEF Settle, ScheduleRetry, RecordRetrying, RecordDelivered, MoveToDLQ,
                     RecordDeadLettered, RecordOutcome, Ack, CallFails
<1>3. pc[w] \in WorkingPc /\ cur[w] \in Ids /\ cur[w] \in Ids' /\ stream[cur[w]].event \in Events
  <2>1. pc[w] \in WorkingPc
    BY ZenonT(40) DEF Settle, ScheduleRetry, RecordRetrying, RecordDelivered, MoveToDLQ,
           RecordDeadLettered, Ack, CallFails, WorkingPc
  <2>2. cur[w] \in Ids
    BY Zenon, <2>1 DEF WorkerHands, Hand
  <2>3. stream[cur[w]] \in Message
    BY Zenon, <1>1, <2>2 DEF Grows
  <2> QED
    BY Zenon, <1>1, <2>1, <2>2, <2>3 DEF Ids, Message
<1>4. CASE ScheduleRetry(w)
  <2>1. PgType'
    BY Zenon, <1>1, <1>4, Frame DEF ScheduleRetry
  <2>2. RedisType'
    BY Zenon, <1>1, <1>4, MemberType DEF ScheduleRetry, RedisType, Ids
  <2>3. PumpHands'
    BY ZenonT(60), <1>1, <1>4, MemberType DEF ScheduleRetry, PumpHands, FromEntry, Ids, pumpVars
  <2>4. WorkerType' /\ WorkerHands' /\ BoundType'
    BY Zenon, <1>1, <1>3, <1>4, ReturnsType DEF ScheduleRetry
  <2> QED
    BY Zenon, <1>2, <2>1, <2>2, <2>3, <2>4
<1>5. ASSUME NEW status \in OutcomeStatus, RecordOutcome(w, status),
             dlq' \in [Events -> {"none", "OPEN", "REDRIVEN"}]
      PROVE  TypeInv'
  <2>1. RedisType' /\ PumpHands'
    BY Zenon, <1>1, <1>5, Frame DEF RecordOutcome, redisVars
  <2>2. PgType'
    BY Zenon, <1>1, <1>3, <1>5, NewRow DEF RecordOutcome, RowStatus
  <2>3. WorkerType' /\ WorkerHands' /\ BoundType'
    BY Zenon, <1>1, <1>3, <1>5, ReturnsType DEF RecordOutcome
  <2> QED
    BY Zenon, <1>2, <2>1, <2>2, <2>3
<1>6. CASE RecordRetrying(w) \/ RecordDelivered(w)
  BY Zenon, <1>5, <1>6 DEF RecordRetrying, RecordDelivered, OutcomeStatus, PgType
<1>7. CASE RecordDeadLettered(w)
  <2>1. dlq' \in [Events -> {"none", "OPEN", "REDRIVEN"}]
    BY Zenon, <1>3, <1>7 DEF RecordDeadLettered, PgType
  <2> QED
    BY Zenon, <1>5, <1>7, <2>1 DEF RecordDeadLettered, OutcomeStatus
<1>8. CASE MoveToDLQ(w)
  <2>1. PgType' /\ PumpHands'
    BY Zenon, <1>1, <1>8, Frame DEF MoveToDLQ
  <2>2. RedisType'
    BY <1>1, <1>3, <1>8, Zenon DEF MoveToDLQ, RedisType, Ids
  <2>3. WorkerType' /\ WorkerHands' /\ BoundType'
    BY Zenon, <1>1, <1>3, <1>8, ReturnsType DEF MoveToDLQ
  <2> QED
    BY Zenon, <1>2, <2>1, <2>2, <2>3
<1>9. CASE Ack(w)
  <2>1. PgType' /\ PumpHands' /\ BoundType'
    BY Zenon, <1>1, <1>9, Frame DEF Ack
  <2>2. RedisType'
    BY <1>1, <1>3, <1>9, Zenon DEF Ack, RedisType, Ids
  <2>3. WorkerType' /\ WorkerHands'
    BY Zenon, <1>1, <1>9, LeaveType DEF Ack
  <2> QED
    BY Zenon, <1>2, <2>1, <2>2, <2>3
<1>10. CASE CallFails(w)
  <2>1. RedisType' /\ PgType' /\ PumpHands' /\ BoundType'
    BY Zenon, <1>1, <1>10, Frame, DisturbType DEF CallFails, redisVars
  <2>2. WorkerType' /\ WorkerHands'
    BY Zenon, <1>1, <1>10, LeaveType DEF CallFails
  <2> QED
    BY Zenon, <1>2, <2>1, <2>2
<1> QED
  BY Zenon, <1>4, <1>6, <1>7, <1>8, <1>9, <1>10 DEF Settle

\* The retry pump.
LEMMA PumpStepType ==
    ASSUME TypeInv, NEW w \in Workers,
           PumpRead(w) \/ PumpPublish(w) \/ PumpRemove(w) \/ PumpFails(w)
    PROVE  TypeInv'
<1> USE DEF TypeInv, TypeOK
<1>1. CASE PumpPublish(w)
  <2>1. PICK m \in members[w] :
            /\ stream' = Append(stream, m)
            /\ \/ /\ members' = [members EXCEPT ![w] = @ \ {m}]
                  /\ moved' = [moved EXCEPT ![w] = {m}]
                  /\ UNCHANGED boundVars
               \/ /\ members' = [members EXCEPT ![w] = @ \ {m}]
                  /\ UNCHANGED moved
                  /\ Disturb
               \/ UNCHANGED pumpVars /\ Disturb
    BY Zenon, <1>1 DEF PumpPublish
  <2>2. m \in Message
    BY Zenon DEF PumpType
  <2>3. Grows
    BY Zenon, <2>1, <2>2, GrowsByAppend
  <2>4. RedisType' /\ PgType' /\ WorkerType' /\ WorkerHands' /\ TxType' /\ TxHands'
    BY Zenon, <1>1, <2>3, Frame DEF PumpPublish
  <2>5. BoundType'
    BY Zenon, <2>1, <2>3, Frame, DisturbType
  <2>6. PumpType'
    BY <2>1, <2>2 DEF PumpType, pumpVars
  <2>7. \A v \in Workers : members'[v] \cup moved'[v] \subseteq members[v] \cup moved[v]
    BY SMTT(20), <2>1 DEF PumpType, pumpVars
  <2>8. \A n : FromEntry(n) => FromEntry(n)'
    BY SMTT(20), <2>3 DEF FromEntry, Grows, Ids
  <2>9. PumpHands'
    BY Zenon, <1>1, <2>7, <2>8 DEF PumpHands, PumpPublish
  <2> QED
    BY Zenon, <2>4, <2>5, <2>6, <2>9
<1>2. ASSUME PumpRead(w) \/ PumpRemove(w) \/ PumpFails(w)
      PROVE  TypeInv'
  <2>1. Grows /\ stream' = stream
    BY Zenon, <1>2, GrowsUnchanged DEF PumpRead, PumpRemove, PumpFails, redisVars
  <2>2. PgType' /\ WorkerType' /\ WorkerHands' /\ TxType' /\ TxHands' /\ BoundType'
    BY Zenon, <1>2, <2>1, Frame, DisturbType DEF PumpRead, PumpRemove, PumpFails
  <2>3. RedisType'
    BY <1>2, <2>1, Zenon DEF PumpRead, PumpRemove, PumpFails, RedisType, redisVars, Ids
  <2>4. \A v \in Workers : members'[v] \cup moved'[v] \subseteq members[v] \cup moved[v] \cup zset
    BY SMTT(20), <1>2 DEF PumpRead, PumpRemove, PumpFails, RedisType, PumpType
  <2>5. PumpType'
    BY SMTT(20), <1>2 DEF PumpRead, PumpRemove, PumpFails, RedisType, PumpType
  <2>6. \A n : FromEntry(n) => FromEntry(n)'
    BY Zenon, <2>1 DEF FromEntry, Ids
  <2>7. zset' \subseteq zset
    BY Zenon, <1>2 DEF PumpRead, PumpRemove, PumpFails, redisVars
  <2>8. PumpHands'
    BY <2>4, <2>6, <2>7, Zenon DEF PumpHands
  <2> QED
    BY Zenon, <2>2, <2>3, <2>5, <2>8
<1> QED
  BY Zenon, <1>1, <1>2

\* Processes that stop and start.
LEMMA StopStartType ==
    ASSUME TypeInv, NEW w \in Workers, Stop(w) \/ Start(w)
    PROVE  TypeInv'
<1> USE DEF TypeInv, TypeOK
<1>1. Grows /\ stream' = stream
  BY Zenon, GrowsUnchanged DEF Stop, Start, redisVars
<1>2. RedisType' /\ PgType' /\ TxType' /\ TxHands' /\ BoundType'
  BY Zenon, <1>1, Frame, DisturbType DEF Stop, Start, redisVars
<1>3. /\ pc' \in [Workers -> {"down", "poll", "process", "deliver", "schedule",
                              "retrying", "deadletter", "dead", "delivered", "ack"}]
      /\ phase' \in [Workers -> {"reclaim", "read"}]
  BY Zenon DEF Stop, Start, WorkerType
<1>4. cur' \in [Workers -> 0..Len(stream')] /\ batch' \in [Workers -> SUBSET Ids']
  <2>1. cur' \in [Workers -> 0..Len(stream')]
    BY <1>1 DEF Stop, Start, WorkerType, Grows
  <2>2. batch' \in [Workers -> SUBSET Ids']
    <3>1. Ids' = Ids
      BY Zenon, <1>1 DEF Ids
    <3> QED
      BY <3>1, Zenon DEF Stop, Start, WorkerType
  <2> QED
    BY Zenon, <2>1, <2>2
<1>5. pc'[w] \in {"down", "poll"} /\ \A v \in Workers \ {w} : pc'[v] = pc[v] /\ cur'[v] = cur[v]
  BY Zenon DEF Stop, Start, WorkerType
<1>6. Hand(w)'
  BY Zenon, <1>5 DEF Hand, WorkingPc
<1>7. WorkerHands'
  BY Zenon, <1>1, <1>5, <1>6, HandKept DEF WorkerHands
<1>8. PumpType' /\ \A v \in Workers : members'[v] \cup moved'[v] \subseteq members[v] \cup moved[v]
  BY Zenon DEF Stop, Start, PumpType, pumpVars
<1>9. zset' = zset /\ \A n : FromEntry(n) => FromEntry(n)'
  BY Zenon, <1>1 DEF FromEntry, Ids, Stop, Start, redisVars
<1>10. PumpHands'
  BY Zenon, <1>8, <1>9 DEF PumpHands
<1> QED
  BY Zenon, <1>2, <1>3, <1>4, <1>7, <1>8, <1>10 DEF WorkerType

-----------------------------------------------------------------------------

\* Publication, time and the operator's cursor.
LEMMA EnvironmentType ==
    ASSUME TypeInv,
           \/ \E e \in Events : Publish(e)
           \/ \E id \in pel : BecomeIdle(id)
           \/ \E m \in zset : BecomeDue(m)
           \/ \E id \in 0..Len(stream) : SetGroupCursor(id)
    PROVE  TypeInv'
<1> USE DEF TypeInv, TypeOK
<1>1. ASSUME NEW e \in Events, Publish(e)
      PROVE  TypeInv'
  <2>1. Fresh(e) \in Message
    BY SMTT(20) DEF Fresh, Message
  <2>2. Grows
    BY Zenon, <1>1, <2>1, GrowsByAppend DEF Publish
  <2>3. /\ RedisType' /\ PgType' /\ WorkerType' /\ WorkerHands' /\ PumpType' /\ PumpHands'
        /\ TxType' /\ TxHands'
    BY ZenonT(60), <1>1, <2>2, Frame DEF Publish
  <2>4. BoundType'
    BY SMTT(20), <1>1, <2>2 DEF Publish, BoundType, Grows, Ids
  <2> QED
    BY Zenon, <2>3, <2>4
<1>2. ASSUME NEW id \in pel, BecomeIdle(id)
      PROVE  TypeInv'
  <2>1. Grows
    BY Zenon, <1>2, GrowsUnchanged DEF BecomeIdle
  <2>2. /\ PgType' /\ WorkerType' /\ WorkerHands' /\ PumpType' /\ PumpHands'
        /\ TxType' /\ TxHands' /\ BoundType'
    BY Zenon, <1>2, <2>1, Frame, DisturbType DEF BecomeIdle
  <2>3. RedisType'
    BY Zenon, <1>2, <2>1 DEF BecomeIdle, RedisType, Ids
  <2> QED
    BY Zenon, <2>2, <2>3
<1>3. ASSUME NEW m \in zset, BecomeDue(m)
      PROVE  TypeInv'
  <2>1. Grows
    BY Zenon, <1>3, GrowsUnchanged DEF BecomeDue
  <2>2. /\ PgType' /\ WorkerType' /\ WorkerHands' /\ PumpType' /\ PumpHands'
        /\ TxType' /\ TxHands' /\ BoundType'
    BY Zenon, <1>3, <2>1, Frame DEF BecomeDue
  <2>3. RedisType'
    BY Zenon, <1>3, <2>1 DEF BecomeDue, RedisType, Ids
  <2> QED
    BY Zenon, <2>2, <2>3
<1>4. ASSUME NEW id \in 0..Len(stream), SetGroupCursor(id)
      PROVE  TypeInv'
  <2>1. Grows
    BY Zenon, <1>4, GrowsUnchanged DEF SetGroupCursor
  <2>2. /\ PgType' /\ WorkerType' /\ WorkerHands' /\ PumpType' /\ PumpHands'
        /\ TxType' /\ TxHands'
    BY Zenon, <1>4, <2>1, Frame DEF SetGroupCursor
  <2>3. stream' = stream /\ Ids' = Ids /\ lastDelivered' = id
    BY Zenon, <1>4 DEF SetGroupCursor, Ids
  <2>4. RedisType'
    BY ZenonT(60), <1>4, <2>3 DEF SetGroupCursor, RedisType
  <2>5. lastDelivered + 1 .. id \subseteq Ids
    BY SMTT(20), <2>1 DEF RedisType, Grows, Ids
  <2>6. BoundType'
    BY SMTT(20), <1>4, <2>3, <2>5 DEF SetGroupCursor, BoundType
  <2> QED
    BY Zenon, <2>2, <2>4, <2>6
<1> QED
  BY Zenon, <1>1, <1>2, <1>3, <1>4

\* The redrive transaction.
LEMMA FreshType ==
    ASSUME NEW e \in Events
    PROVE  Fresh(e) \in Message /\ Fresh(e).event = e
  BY SMTT(20) DEF Fresh, Message

RedriveStep(r) ==
    \/ \E e \in Events : RedriveLock(r, e)
    \/ RedrivePublish(r) \/ RedriveCommit(r) \/ RedriveAbort(r)

LEMMA RedriveType ==
    ASSUME TypeInv, NEW r \in Redrives, RedriveStep(r)
    PROVE  TypeInv'
<1> USE DEF TypeInv, TypeOK
<1>1. CASE RedrivePublish(r)
  <2>0. rtx[r] \in Events
    BY Zenon, <1>1 DEF RedrivePublish, TxType
  <2>1. Fresh(rtx[r]) \in Message /\ Fresh(rtx[r]).event = rtx[r]
    BY Zenon, <2>0, FreshType
  <2>2. Grows /\ Len(stream') = Len(stream) + 1 /\ stream'[Len(stream) + 1] = Fresh(rtx[r])
    BY Zenon, <1>1, <2>1, GrowsByAppend DEF RedrivePublish
  <2>3. RedisType' /\ PgType' /\ WorkerType' /\ WorkerHands' /\ PumpType' /\ PumpHands'
    BY Zenon, <1>1, <2>2, Frame DEF RedrivePublish
  <2>4. BoundType'
    BY Zenon, <1>1, <2>2, Frame, DisturbType DEF RedrivePublish
  <2>5. TxType'
    <3>0. rtx' = rtx \/ rtx' = [rtx EXCEPT ![r] = NoEvent]
      BY Zenon, <1>1 DEF RedrivePublish, txVars
    <3>1. rtx' \in [Redrives -> Events \cup {NoEvent}]
      BY Zenon, <3>0 DEF TxType
    <3>2. 0..Len(stream) \subseteq 0..Len(stream') /\ Len(stream) + 1 \in 0..Len(stream')
      BY <2>2 DEF Grows
    <3>3. rpub' \in [Redrives -> 0..Len(stream')]
      BY Zenon, <1>1, <3>2 DEF RedrivePublish, TxType, txVars
    <3> QED
      BY Zenon, <3>1, <3>3 DEF TxType
  <2>6. stream'[Len(stream) + 1].event = rtx[r]
    BY Zenon, <2>1, <2>2
  <2>7. \A q \in Redrives : rpub[q] # 0 => rpub[q] \in Ids
    <3>1. Len(stream) \in Nat
      BY Zenon, <2>2 DEF Grows
    <3>2. \A q \in Redrives : rpub[q] \in 0..Len(stream)
      BY Zenon DEF TxType
    <3> QED
      BY <3>1, <3>2 DEF Ids
  <2>8. TxHands'
    <3> SUFFICES ASSUME NEW q \in Redrives, rpub'[q] # 0
                 PROVE  rtx'[q] # NoEvent /\ stream'[rpub'[q]].event = rtx'[q]
      BY Zenon DEF TxHands
    <3>1. CASE q # r
      <4>1. rpub'[q] = rpub[q] /\ rtx'[q] = rtx[q]
        BY Zenon, <1>1, <3>1 DEF RedrivePublish, TxType, txVars
      <4> QED
        BY Zenon, <2>2, <2>7, <4>1 DEF TxHands, Grows
    <3>2. CASE q = r
      <4>1. rpub'[r] = Len(stream) + 1 /\ rtx'[r] = rtx[r]
        BY Zenon, <1>1, <3>2 DEF RedrivePublish, TxType, txVars
      <4> QED
        BY Zenon, <1>1, <2>6, <3>2, <4>1 DEF RedrivePublish
    <3> QED
      BY Zenon, <3>1, <3>2
  <2> QED
    BY Zenon, <2>3, <2>4, <2>5, <2>8
<1>2. ASSUME NEW e \in Events, RedriveLock(r, e)
      PROVE  TypeInv'
  <2>1. Grows
    BY Zenon, <1>2, GrowsUnchanged DEF RedriveLock, redisVars
  <2>2. RedisType' /\ PgType' /\ WorkerType' /\ WorkerHands' /\ PumpType' /\ PumpHands'
    BY Zenon, <1>2, <2>1, Frame DEF RedriveLock, redisVars
  <2>3. BoundType'
    BY SMTT(20), <1>2 DEF RedriveLock, BoundType, redisVars, Ids
  <2>4. TxType'
    BY Zenon, <1>2 DEF RedriveLock, TxType, redisVars
  <2>5. TxHands'
    BY Zenon, <1>2 DEF RedriveLock, TxHands, TxType, redisVars
  <2> QED
    BY Zenon, <2>2, <2>3, <2>4, <2>5
<1>3. CASE RedriveCommit(r) \/ RedriveAbort(r)
  <2>1. Grows /\ stream' = stream
    BY Zenon, <1>3, GrowsUnchanged DEF RedriveCommit, RedriveAbort, redisVars
  <2>2. RedisType' /\ WorkerType' /\ WorkerHands' /\ PumpType' /\ PumpHands' /\ BoundType'
    BY Zenon, <1>3, <2>1, Frame, DisturbType DEF RedriveCommit, RedriveAbort, redisVars
  <2>3. TxType' /\ TxHands'
    <3>1. rtx' = [rtx EXCEPT ![r] = NoEvent] /\ rpub' = [rpub EXCEPT ![r] = 0]
      BY Zenon, <1>3 DEF RedriveCommit, RedriveAbort
    <3>2. 0 \in 0..Len(stream)
      BY <2>1 DEF Grows
    <3>3. TxType'
      BY Zenon, <2>1, <3>1, <3>2 DEF TxType
    <3>4. TxHands'
      BY Zenon, <2>1, <3>1 DEF TxHands, TxType
    <3> QED
      BY Zenon, <3>3, <3>4
  <2>5. PgType'
    <3>1. CASE RedriveAbort(r)
      BY Zenon, <2>1, <3>1, Frame DEF RedriveAbort
    <3>2. CASE RedriveCommit(r)
      <4>0. Len(stream) \in Nat /\ rpub[r] \in 0..Len(stream) /\ rpub[r] # 0
        BY Zenon, <2>1, <3>2 DEF RedriveCommit, TxType, Grows
      <4>1. rpub[r] \in Ids' /\ rtx[r] \in Events
        <5>1. rtx[r] \in Events
          BY Zenon, <4>0 DEF TxHands, TxType
        <5> QED
          BY SMTT(20), <2>1, <4>0, <5>1 DEF Ids
      <4>2. dlq' \in [Events -> {"none", "OPEN", "REDRIVEN"}]
        BY Zenon, <3>2, <4>1 DEF RedriveCommit, PgType
      <4> QED
        BY Zenon, <2>1, <3>2, <4>1, <4>2, NewRow DEF RedriveCommit, RowStatus
    <3> QED
      BY Zenon, <1>3, <3>1, <3>2
  <2> QED
    BY Zenon, <2>2, <2>3, <2>5
<1> QED
  BY Zenon, <1>1, <1>2, <1>3 DEF RedriveStep

\* TypeInv is inductive.
LEMMA TypeStep == TypeInv /\ [Next]_vars => TypeInv'
<1> SUFFICES ASSUME TypeInv, [Next]_vars PROVE TypeInv'
  BY Zenon
<1>1. CASE UNCHANGED vars
  <2>1. Grows
    BY Zenon, <1>1, GrowsUnchanged DEF vars, redisVars, TypeInv, TypeOK
  <2> QED
    BY Zenon, <1>1, <2>1, Frame DEF vars, redisVars, TypeInv, TypeOK
<1>2. CASE Next
  BY Zenon, <1>2, PollingType, TakeUpType, SettleType, PumpStepType, StopStartType, EnvironmentType,
     RedriveType
     DEF Next, StreamWorker, RetryPump, Redrive, Poll, TakeUp, Settle, RedriveStep
<1> QED
  BY Zenon, <1>1, <1>2

\* Every reachable state is well formed: among others, no message ever carries
\* a retry number above MAX_RETRIES, and every pending, dead-lettered or
\* recorded entry is an entry of the stream (Delivery as a whole).
THEOREM TypeCorrect == Spec => []TypeOK
<1>1. Spec => []TypeInv
  BY TypeInit, TypeStep, PTL DEF Spec
<1>2. TypeInv => TypeOK
  BY Zenon DEF TypeInv
<1> QED
  BY <1>1, <1>2, PTL

-----------------------------------------------------------------------------

\* Which actions write to the stream, the retry set, the group, the
\* dead-letter table, the redrive transactions and the hands of the pumps;
\* what only ever grows.
LEMMA Footprint ==
    ASSUME Next
    PROVE  /\ \/ stream' = stream
              \/ \E e \in Events : Publish(e)
              \/ \E w \in Workers : PumpPublish(w)
              \/ \E r \in Redrives : RedrivePublish(r)
           /\ \/ zset' = zset
              \/ \E w \in Workers : ScheduleRetry(w) \/ PumpRemove(w)
           /\ \/ UNCHANGED <<lastDelivered, pel>>
              \/ \E w \in Workers : ReadGroup(w) \/ Ack(w)
              \/ \E id \in 0..Len(stream) : SetGroupCursor(id)
           /\ \/ UNCHANGED <<dlq, txVars>>
              \/ \E w \in Workers : RecordDeadLettered(w)
              \/ \E r \in Redrives : \/ \E e \in Events : RedriveLock(r, e)
                                     \/ Redrive(r) \/ RedriveAbort(r)
           /\ \/ UNCHANGED pumpVars
              \/ \E w \in Workers : RetryPump(w) \/ PumpFails(w) \/ Stop(w)
           /\ history \subseteq history' /\ skipped \subseteq skipped'
           /\ dlqStream \subseteq dlqStream'
<1> USE DEF redisVars, pgVars, workerVars, pumpVars, txVars, boundVars, Disturb
<1> DEFINE G == /\ \/ stream' = stream
                   \/ \E w \in Workers : PumpPublish(w)
                /\ \/ zset' = zset
                   \/ \E w \in Workers : ScheduleRetry(w) \/ PumpRemove(w)
                /\ \/ UNCHANGED <<lastDelivered, pel>>
                   \/ \E w \in Workers : ReadGroup(w) \/ Ack(w)
                /\ \/ UNCHANGED <<dlq, txVars>>
                   \/ \E w \in Workers : RecordDeadLettered(w)
                /\ \/ UNCHANGED pumpVars
                   \/ \E w \in Workers : RetryPump(w) \/ PumpFails(w) \/ Stop(w)
                /\ history \subseteq history' /\ skipped \subseteq skipped'
                /\ dlqStream \subseteq dlqStream'
<1>1. ASSUME NEW w \in Workers, Reclaim(w) \/ ReadGroup(w) \/ PollFails(w) PROVE G
  BY Zenon, <1>1 DEF Reclaim, ReadGroup, PollFails
<1>2. ASSUME NEW w \in Workers, RecordProcessing(w) \/ RecordProcessingFails(w) \/ Deliver(w)
      PROVE  G
  BY Zenon, <1>2 DEF RecordProcessing, RecordProcessingFails, Deliver
<1>3. ASSUME NEW w \in Workers,
             ScheduleRetry(w) \/ RecordRetrying(w) \/ RecordDelivered(w) \/ MoveToDLQ(w)
      PROVE  G
  BY Zenon, <1>3 DEF ScheduleRetry, RecordRetrying, RecordDelivered, MoveToDLQ, RecordOutcome, Returns
<1>4. ASSUME NEW w \in Workers, RecordDeadLettered(w) \/ Ack(w) \/ CallFails(w)
      PROVE  G
  BY Zenon, <1>4 DEF RecordDeadLettered, RecordOutcome, Returns, Ack, CallFails
<1>5. ASSUME NEW w \in Workers,
             PumpRead(w) \/ PumpPublish(w) \/ PumpRemove(w) \/ PumpFails(w) \/ Stop(w) \/ Start(w)
      PROVE  G
  BY Zenon, <1>5 DEF RetryPump, PumpRead, PumpPublish, PumpRemove, PumpFails, Stop, Start
<1>6. ASSUME \E w \in Workers : \/ StreamWorker(w) \/ RetryPump(w) \/ Start(w)
                                \/ PollFails(w) \/ RecordProcessingFails(w)
                                \/ CallFails(w) \/ PumpFails(w) \/ Stop(w)
      PROVE  G
  <2> HIDE DEF G
  <2> QED
    BY Zenon, <1>1, <1>2, <1>3, <1>4, <1>5, <1>6 DEF StreamWorker, RetryPump
<1>7. CASE \/ \E e \in Events : Publish(e)
           \/ \E id \in pel : BecomeIdle(id)
           \/ \E m \in zset : BecomeDue(m)
           \/ \E id \in 0..Len(stream) : SetGroupCursor(id)
  BY Zenon, <1>7 DEF Publish, BecomeIdle, BecomeDue, SetGroupCursor
<1>8. CASE \E r \in Redrives : \/ \E e \in Events : RedriveLock(r, e)
                               \/ Redrive(r) \/ RedriveAbort(r)
  BY Zenon, <1>8 DEF Redrive, RedriveLock, RedrivePublish, RedriveCommit, RedriveAbort
<1> QED
  BY Zenon, <1>6, <1>7, <1>8 DEF Next


\* An entry that a step adds comes after what the group has read.
LEMMA StreamStep ==
    ASSUME TypeInv, Next
    PROVE  /\ Grows /\ Len(stream') <= Len(stream) + 1
           /\ \A id \in Ids' \ Ids : id > lastDelivered'
<1> USE DEF TypeInv, TypeOK
<1>1. CASE stream' = stream
  <2>1. Grows
    BY Zenon, <1>1, GrowsUnchanged
  <2> QED
    BY <1>1, <2>1 DEF Grows, Ids
<1>2. ASSUME NEW m \in Message, stream' = Append(stream, m), lastDelivered' = lastDelivered
      PROVE  /\ Grows /\ Len(stream') <= Len(stream) + 1
             /\ \A id \in Ids' \ Ids : id > lastDelivered'
  <2>1. Grows /\ Len(stream') = Len(stream) + 1
    BY Zenon, <1>2, GrowsByAppend
  <2> QED
    BY <1>2, <2>1 DEF Grows, RedisType, Ids
<1>3. ASSUME NEW e \in Events PROVE Fresh(e) \in Message
  BY DEF Fresh, Message
<1>4. CASE \E e \in Events : Publish(e)
  BY Zenon, <1>2, <1>3, <1>4 DEF Publish
<1>5. CASE \E w \in Workers : PumpPublish(w)
  BY ZenonT(60), <1>2, <1>5 DEF PumpPublish, PumpType
<1>6. CASE \E r \in Redrives : RedrivePublish(r)
  BY Zenon, <1>2, <1>3, <1>6 DEF RedrivePublish, TxType
<1> QED
  BY Zenon, <1>1, <1>4, <1>5, <1>6, Footprint

LEMMA LaterKept ==
    ASSUME Grows, NEW id \in Ids, Later(id)
    PROVE  Later(id)'
  BY SMTT(30) DEF Later, Grows, Ids

LEMMA DeliveredKept ==
    ASSUME Grows, history \subseteq history', NEW e \in Events, Delivered(e)
    PROVE  Delivered(e)'
  BY DEF Delivered, Grows, Ids, Row

\* ZREM takes a member away only after XADD gave its entry a successor.
LEMMA ScheduledStep ==
    ASSUME LossInv, Next, NEW id \in Ids, Scheduled(id) \/ Later(id)
    PROVE  Scheduled(id)' \/ Later(id)'
<1>1. Grows
  BY Zenon, StreamStep DEF LossInv
<1>2. CASE Later(id)
  BY Zenon, <1>1, <1>2, LaterKept
<1>3. CASE Scheduled(id)
  <2>1. PICK m \in zset : m.orig = id
    BY Zenon, <1>3 DEF Scheduled
  <2>2. CASE m \in zset'
    BY Zenon, <2>1, <2>2 DEF Scheduled
  <2>3. CASE m \notin zset'
    <3>1. PICK w \in Workers : PumpRemove(w)
      BY Zenon, <2>3, Footprint DEF ScheduleRetry
    <3>2. m \in moved[w]
      BY Zenon, <2>3, <3>1 DEF PumpRemove
    <3>3. Later(id)
      BY Zenon, <2>1, <3>2 DEF LossInv, NothingDropped
    <3> QED
      BY Zenon, <1>1, <3>3, LaterKept
  <2> QED
    BY Zenon, <2>2, <2>3
<1> QED
  BY Zenon, <1>2, <1>3

\* A record stays open for an entry until a redrive commits, and that redrive
\* has published a later entry of the event.
LEMMA OpenStep ==
    ASSUME LossInv, Next, NEW id \in Ids, OpenFor(id)
    PROVE  OpenFor(id)' \/ Later(id)
<1> USE DEF LossInv, TypeInv, TypeOK
<1>1. Grows /\ stream[id] \in Message /\ stream'[id] = stream[id] /\ stream[id].event \in Events
  <2>1. Grows
    BY Zenon, StreamStep
  <2> QED
    BY Zenon, <2>1 DEF Grows, Message
<1>2. CASE UNCHANGED <<dlq, txVars>>
  BY Zenon, <1>1, <1>2 DEF OpenFor, txVars
<1>3. ASSUME NEW w \in Workers, RecordDeadLettered(w)
      PROVE  OpenFor(id)'
  <2>1. dlq'[stream[id].event] = "OPEN" /\ UNCHANGED txVars
    BY Zenon, <1>1, <1>3 DEF RecordDeadLettered, RecordOutcome, OpenFor, PgType
  <2> QED
    BY Zenon, <1>1, <2>1 DEF OpenFor, txVars
<1>4. ASSUME NEW r \in Redrives, NEW e \in Events, RedriveLock(r, e)
      PROVE  OpenFor(id)'
  <2>1. rpub[r] = 0
    BY Zenon, <1>4 DEF RedriveLock, TxHands
  <2> QED
    BY Zenon, <1>1, <1>4, <2>1 DEF RedriveLock, OpenFor, TxType, pgVars
<1>5. ASSUME NEW r \in Redrives, RedrivePublish(r)
      PROVE  OpenFor(id)'
  <2>1. ~(Len(stream) + 1 <= id)
    BY <1>1 DEF Grows, Ids
  <2>2. dlq' = dlq
    BY Zenon, <1>5 DEF RedrivePublish, pgVars
  <2>3. ASSUME NEW q \in Redrives
        PROVE  ~(rtx'[q] = stream[id].event /\ rpub'[q] # 0 /\ rpub'[q] <= id)
    BY <1>5, <2>1, Zenon DEF RedrivePublish, OpenFor, TxType, txVars
  <2> QED
    BY Zenon, <1>1, <2>2, <2>3 DEF OpenFor
<1>6. ASSUME NEW r \in Redrives, RedriveAbort(r)
      PROVE  OpenFor(id)'
  <2>1. dlq' = dlq
    BY Zenon, <1>6 DEF RedriveAbort, pgVars
  <2>2. ASSUME NEW q \in Redrives
        PROVE  ~(rtx'[q] = stream[id].event /\ rpub'[q] # 0 /\ rpub'[q] <= id)
    BY Zenon, <1>6 DEF RedriveAbort, OpenFor, TxType
  <2> QED
    BY Zenon, <1>1, <2>1, <2>2 DEF OpenFor
<1>7. ASSUME NEW r \in Redrives, RedriveCommit(r)
      PROVE  OpenFor(id)' \/ Later(id)
  <2>1. CASE rtx[r] = stream[id].event
    <3>1. rpub[r] \in Ids /\ stream[rpub[r]].event = stream[id].event /\ rpub[r] > id
      BY SMTT(20), <1>1, <1>7, <2>1 DEF RedriveCommit, OpenFor, TxHands, TxType, Grows, Ids
    <3> QED
      BY Zenon, <3>1 DEF Later
  <2>2. CASE rtx[r] # stream[id].event
    <3>1. dlq'[stream[id].event] = dlq[stream[id].event]
      BY Zenon, <1>1, <1>7, <2>2 DEF RedriveCommit, PgType
    <3>2. ASSUME NEW q \in Redrives
          PROVE  ~(rtx'[q] = stream[id].event /\ rpub'[q] # 0 /\ rpub'[q] <= id)
      BY Zenon, <1>7 DEF RedriveCommit, OpenFor, TxType
    <3> QED
      BY Zenon, <1>1, <3>1, <3>2 DEF OpenFor
  <2> QED
    BY Zenon, <2>1, <2>2
<1> QED
  BY Zenon, <1>2, <1>3, <1>4, <1>5, <1>6, <1>7, Footprint DEF Redrive

\* An entry that is done with stays done with.
LEMMA DoneStep ==
    ASSUME LossInv, Next, NEW id \in Ids, Done(id)
    PROVE  Done(id)'
<1>1. Grows /\ history \subseteq history'
  BY Zenon, StreamStep, Footprint DEF LossInv
<1>2. stream'[id] = stream[id] /\ stream[id].event \in Events
  BY Zenon, <1>1 DEF Grows, Message
<1>3. CASE Delivered(stream[id].event)
  BY Zenon, <1>1, <1>2, <1>3, DeliveredKept DEF Done
<1>4. CASE Scheduled(id) \/ Later(id)
  BY Zenon, <1>4, ScheduledStep DEF Done
<1>5. CASE OpenFor(id)
  BY Zenon, <1>1, <1>5, OpenStep, LaterKept DEF Done
<1> QED
  BY Zenon, <1>3, <1>4, <1>5 DEF Done


\* How an entry can leave the group: Ack, or the operator's cursor.
LEMMA GroupStep ==
    ASSUME TypeInv, Next, NEW id \in Ids, WithGroup(id)
    PROVE  \/ WithGroup(id)' \/ id \in skipped'
           \/ \E w \in Workers : Ack(w) /\ id = cur[w]
<1> USE DEF TypeInv, TypeOK
<1>1. id \in Nat /\ lastDelivered \in Nat
  BY StreamStep DEF Ids, RedisType, Grows
<1>2. CASE UNCHANGED <<lastDelivered, pel>>
  BY Zenon, <1>2 DEF WithGroup
<1>3. ASSUME NEW w \in Workers, ReadGroup(w)
      PROVE  WithGroup(id)'
  <2>1. Len(stream) \in Nat /\ id <= Len(stream)
    BY SMTT(20) DEF Ids, RedisType
  <2> QED
    BY <1>1, <1>3, <2>1 DEF ReadGroup, WithGroup
<1>4. ASSUME NEW w \in Workers, Ack(w)
      PROVE  WithGroup(id)' \/ id = cur[w]
  BY Zenon, <1>4 DEF Ack, WithGroup
<1>5. ASSUME NEW c \in 0..Len(stream), SetGroupCursor(c)
      PROVE  WithGroup(id)' \/ id \in skipped'
  <2>1. c \in Nat
    BY DEF RedisType
  <2> QED
    BY <1>1, <1>5, <2>1 DEF SetGroupCursor, WithGroup
<1> QED
  BY ZenonT(60), <1>2, <1>3, <1>4, <1>5, Footprint

\* What a step can do to worker w: nothing, end its work on the message, or
\* make the next call for it.
Advance(w) ==
    \/ pc'[w] = pc[w] /\ cur'[w] = cur[w]
    \/ pc'[w] \in {"down", "poll", "process"}
    \/ pc'[w] = "deliver" /\ RecordProcessing(w) /\ Row(cur'[w], "PROCESSING") \in history'
    \/ /\ cur'[w] = cur[w]
       /\ \/ Deliver(w) /\ pc'[w] \in {"delivered", "schedule", "deadletter"}
          \/ ScheduleRetry(w) /\ pc'[w] = "retrying"
          \/ MoveToDLQ(w) /\ pc'[w] = "dead"
          \/ /\ RecordRetrying(w) \/ RecordDelivered(w) \/ RecordDeadLettered(w)
             /\ pc'[w] = "ack"

\* Every step is an Advance of every worker.
LEMMA AdvanceStep ==
    ASSUME TypeInv, Next, NEW w \in Workers
    PROVE  Advance(w)
<1>1. WorkerType
  BY Zenon DEF TypeInv, TypeOK
<1>2. ASSUME UNCHANGED <<pc, cur>> PROVE Advance(w)
  BY <1>2, Zenon DEF Advance
<1>3. ASSUME NEW v \in Workers, Reclaim(v) \/ ReadGroup(v)
      PROVE  Advance(w)
  BY Zenon, <1>1, <1>3 DEF Reclaim, ReadGroup, Receive, Advance, WorkerType
<1>4. ASSUME NEW v \in Workers, NEW id, Leave(v, id)
      PROVE  Advance(w)
  BY Zenon, <1>1, <1>4 DEF Leave, Advance, WorkerType
<1>5. ASSUME NEW v \in Workers, RecordProcessing(v)
      PROVE  Advance(w)
  <2>1. CASE \E id \in batch[v] : Leave(v, id)
    BY Zenon, <1>4, <2>1
  <2>2. ASSUME NEW id \in batch[v], history' = history \cup {Row(id, "PROCESSING")},
               pc' = [pc EXCEPT ![v] = "deliver"], cur' = [cur EXCEPT ![v] = id]
        PROVE  Advance(w)
    <3>1. CASE v = w
      <4>1. pc'[w] = "deliver" /\ cur'[w] = id
        BY Zenon, <1>1, <2>2, <3>1 DEF WorkerType
      <4>2. Row(id, "PROCESSING") \in history'
        BY Zenon, <2>2
      <4> QED
        BY Zenon, <1>5, <3>1, <4>1, <4>2 DEF Advance
    <3>2. CASE v # w
      BY Zenon, <1>1, <2>2, <3>2 DEF Advance, WorkerType
    <3> QED
      BY Zenon, <3>1, <3>2
  <2> QED
    BY Zenon, <1>5, <2>1, <2>2 DEF RecordProcessing
<1>6. ASSUME NEW v \in Workers, NEW next, pc' = [pc EXCEPT ![v] = next], UNCHANGED cur,
             \/ Deliver(v) /\ next \in {"delivered", "schedule", "deadletter"}
             \/ ScheduleRetry(v) /\ next = "retrying"
             \/ MoveToDLQ(v) /\ next = "dead"
             \/ /\ RecordRetrying(v) \/ RecordDelivered(v) \/ RecordDeadLettered(v)
                /\ next = "ack"
      PROVE  Advance(w)
  <2>1. CASE v = w
    <3>1. pc'[w] = next /\ cur'[w] = cur[w]
      BY Zenon, <1>1, <1>6, <2>1 DEF WorkerType
    <3> QED
      BY Zenon, <1>6, <2>1, <3>1 DEF Advance
  <2>2. CASE v # w
    BY Zenon, <1>1, <1>6, <2>2 DEF Advance, WorkerType
  <2> QED
    BY Zenon, <2>1, <2>2
<1>7. ASSUME NEW v \in Workers, Deliver(v)
      PROVE  Advance(w)
  <2>1. PICK p \in {"delivered", "schedule", "deadletter"} : pc' = [pc EXCEPT ![v] = p]
    BY <1>7, Zenon DEF Deliver, DecideFailureAction
  <2>2. UNCHANGED cur
    BY Zenon, <1>7 DEF Deliver
  <2> QED
    BY Zenon, <1>6, <1>7, <2>1, <2>2
<1>8. ASSUME NEW v \in Workers, NEW next, Returns(v, next),
             \/ ScheduleRetry(v) /\ next = "retrying"
             \/ MoveToDLQ(v) /\ next = "dead"
             \/ /\ RecordRetrying(v) \/ RecordDelivered(v) \/ RecordDeadLettered(v)
                /\ next = "ack"
      PROVE  Advance(w)
  BY Zenon, <1>4, <1>6, <1>8 DEF Returns
<1>9. ASSUME NEW v \in Workers, \/ ScheduleRetry(v) \/ MoveToDLQ(v) \/ RecordRetrying(v)
                                \/ RecordDelivered(v) \/ RecordDeadLettered(v)
      PROVE  Advance(w)
  <2>1. /\ ScheduleRetry(v) => Returns(v, "retrying")
        /\ MoveToDLQ(v) => Returns(v, "dead")
        /\ RecordRetrying(v) \/ RecordDelivered(v) \/ RecordDeadLettered(v) => Returns(v, "ack")
    BY Zenon DEF ScheduleRetry, MoveToDLQ, RecordRetrying, RecordDelivered, RecordDeadLettered, RecordOutcome
  <2> QED
    BY Zenon, <1>8, <1>9, <2>1
<1>10. ASSUME NEW v \in Workers, Ack(v) \/ CallFails(v) \/ RecordProcessingFails(v)
       PROVE  Advance(w)
  <2>1. \E id : Leave(v, id)
    BY Zenon, <1>10 DEF Ack, CallFails, RecordProcessingFails
  <2> QED
    BY Zenon, <1>4, <2>1
<1>11. ASSUME NEW v \in Workers, Stop(v) \/ Start(v)
       PROVE  Advance(w)
  BY Zenon, <1>1, <1>11 DEF Stop, Start, Advance, WorkerType
<1>12. ASSUME NEW v \in Workers, PollFails(v) \/ RetryPump(v) \/ PumpFails(v)
       PROVE  Advance(w)
  <2>1. UNCHANGED <<pc, cur>>
    BY Zenon, <1>12 DEF PollFails, RetryPump, PumpRead, PumpPublish, PumpRemove, PumpFails, workerVars
  <2> QED
    BY Zenon, <1>2, <2>1
<1>13. CASE \/ \E e \in Events : Publish(e)
            \/ \E id \in pel : BecomeIdle(id)
            \/ \E m \in zset : BecomeDue(m)
            \/ \E id \in 0..Len(stream) : SetGroupCursor(id)
            \/ \E r \in Redrives : \/ \E e \in Events : RedriveLock(r, e)
                                   \/ Redrive(r) \/ RedriveAbort(r)
  <2>1. UNCHANGED <<pc, cur>>
    BY Zenon, <1>13 DEF Publish, BecomeIdle, BecomeDue, SetGroupCursor, Redrive, RedriveLock,
                 RedrivePublish, RedriveCommit, RedriveAbort, workerVars
  <2> QED
    BY Zenon, <1>2, <2>1
<1>14. CASE \E v \in Workers : StreamWorker(v)
  BY Zenon, <1>3, <1>5, <1>7, <1>9, <1>10, <1>14 DEF StreamWorker
<1> QED
  BY Zenon, <1>10, <1>11, <1>12, <1>13, <1>14 DEF Next

\* What a worker has to have done to be where it is.
LEMMA PhaseStep ==
    ASSUME TypeInv, Next, NEW w \in Workers
    PROVE  /\ pc'[w] = "retrying" =>
                cur'[w] = cur[w] /\ (pc[w] = "retrying" \/ ScheduleRetry(w))
           /\ pc'[w] = "ack" =>
                /\ cur'[w] = cur[w]
                /\ pc[w] = "ack" \/ RecordRetrying(w) \/ RecordDelivered(w) \/ RecordDeadLettered(w)
<1>1. Advance(w)
  BY Zenon, AdvanceStep
<1> QED
  BY Zenon, <1>1 DEF Advance

\* What a pump holds for ZREM it has just published, or held already.
LEMMA MovedStep ==
    ASSUME TypeInv, Next, NEW w \in Workers, NEW m \in moved'[w], m \notin moved[w]
    PROVE  m \in members[w] /\ stream' = Append(stream, m)
<1>1. PumpType
  BY Zenon DEF TypeInv, TypeOK
<1>2. moved' # moved
  BY Zenon
<1>3. PICK v \in Workers : RetryPump(v) \/ PumpFails(v) \/ Stop(v)
  BY Zenon, <1>2, Footprint DEF pumpVars
<1>4. ASSUME moved' = [moved EXCEPT ![v] = {}] PROVE FALSE
  BY Zenon, <1>1, <1>4 DEF PumpType
<1>5. PumpPublish(v)
  <2>1. PumpRead(v) \/ PumpRemove(v) \/ PumpFails(v) \/ Stop(v) =>
            moved' = moved \/ moved' = [moved EXCEPT ![v] = {}]
    BY Zenon DEF PumpRead, PumpRemove, PumpFails, Stop
  <2> QED
    BY Zenon, <1>2, <1>3, <1>4, <2>1 DEF RetryPump
<1>6. PICK n \in members[v] : /\ stream' = Append(stream, n)
                              /\ moved' = [moved EXCEPT ![v] = {n}]
  BY Zenon, <1>2, <1>5 DEF PumpPublish, pumpVars
<1> QED
  BY Zenon, <1>1, <1>6 DEF PumpType

-----------------------------------------------------------------------------
(* No event is lost: LossInv is inductive.                                  *)

LEMMA LossInit == Init => LossInv
<1>1. Init => TypeInv
  BY Zenon, TypeInit
<1>2. Init => NothingDropped
  BY DEF Init, NothingDropped, Ids
<1> QED
  BY Zenon, <1>1, <1>2 DEF LossInv

\* A step keeps what NothingDropped says of an entry.
LEMMA EntryStep ==
    ASSUME LossInv, Next, NEW id \in Ids'
    PROVE  WithGroup(id)' \/ id \in skipped' \/ Done(id)'
<1>1. TypeInv /\ NothingDropped
  BY Zenon DEF LossInv
<1>2. CASE id \in Ids /\ WithGroup(id)
  <2>1. CASE \E w \in Workers : Ack(w) /\ id = cur[w]
    <3>1. Done(id)
      BY Zenon, <1>1, <2>1 DEF Ack, NothingDropped
    <3> QED
      BY Zenon, <1>2, <3>1, DoneStep
  <2> QED
    BY Zenon, <1>1, <1>2, <2>1, GroupStep
<1>3. CASE id \in Ids /\ id \in skipped
  BY Zenon, <1>3, Footprint
<1>4. CASE id \in Ids /\ Done(id)
  BY Zenon, <1>4, DoneStep
<1>5. CASE id \notin Ids
  BY Zenon, <1>1, <1>5, StreamStep DEF WithGroup
<1>6. id \in Ids => WithGroup(id) \/ id \in skipped \/ Done(id)
  BY Zenon, <1>1 DEF NothingDropped
<1> QED
  BY Zenon, <1>2, <1>3, <1>4, <1>5, <1>6

\* A worker about to record RETRYING has a retry scheduled, or a later entry.
LEMMA RetryingStep ==
    ASSUME LossInv, Next, NEW w \in Workers, pc'[w] = "retrying"
    PROVE  Scheduled(cur[w])' \/ Later(cur[w])'
<1>1. TypeInv /\ NothingDropped
  BY Zenon DEF LossInv
<1>2. cur'[w] = cur[w] /\ (pc[w] = "retrying" \/ ScheduleRetry(w))
  BY Zenon, <1>1, PhaseStep
<1>3. CASE pc[w] = "retrying"
  <2>1. cur[w] \in Ids
    BY Zenon, <1>1, <1>3 DEF TypeInv, WorkerHands, Hand, WorkingPc
  <2>2. Scheduled(cur[w]) \/ Later(cur[w])
    BY Zenon, <1>1, <1>3 DEF NothingDropped
  <2>3. ASSUME NEW id \in Ids, id = cur[w]
        PROVE  Scheduled(id)' \/ Later(id)'
    BY Zenon, <2>2, <2>3, ScheduledStep
  <2> QED
    BY Zenon, <1>2, <2>1, <2>3 DEF Scheduled, Later
<1>4. CASE ScheduleRetry(w)
  <2>1. RetryMember(cur[w]).orig = cur[w] /\ RetryMember(cur[w]) \in zset'
    BY Zenon, <1>4 DEF ScheduleRetry, RetryMember
  <2> QED
    BY Zenon, <1>2, <2>1 DEF Scheduled
<1> QED
  BY Zenon, <1>2, <1>3, <1>4

\* A worker about to call XACK is done with its message.
LEMMA AckStep ==
    ASSUME LossInv, Next, NEW w \in Workers, pc'[w] = "ack"
    PROVE  Done(cur[w])'
<1>1. TypeInv /\ NothingDropped
  BY Zenon DEF LossInv
<1>2. /\ cur'[w] = cur[w]
      /\ pc[w] = "ack" \/ RecordRetrying(w) \/ RecordDelivered(w) \/ RecordDeadLettered(w)
  BY Zenon, <1>1, PhaseStep
<1>3. pc[w] \in WorkingPc
  BY Zenon, <1>2 DEF WorkingPc, RecordRetrying, RecordDelivered, RecordDeadLettered
<1>4. Hand(w) /\ Grows
  BY Zenon, <1>1, <1>3, StreamStep DEF TypeInv, WorkerHands
<1>5. PICK id \in Ids : id = cur[w]
  BY Zenon, <1>3, <1>4 DEF Hand
<1>6. stream'[id] = stream[id] /\ stream[id] \in Message
  BY Zenon, <1>4, <1>5 DEF Grows
<1>7. CASE pc[w] = "ack"
  <2>1. Done(id)
    BY Zenon, <1>1, <1>5, <1>7 DEF NothingDropped
  <2> QED
    BY Zenon, <1>2, <1>5, <2>1, DoneStep
<1>8. CASE RecordRetrying(w)
  <2>1. Scheduled(id) \/ Later(id)
    BY Zenon, <1>1, <1>5, <1>8 DEF NothingDropped, RecordRetrying
  <2>2. Scheduled(id)' \/ Later(id)'
    BY Zenon, <2>1, ScheduledStep
  <2> QED
    BY Zenon, <1>2, <1>5, <2>2 DEF Done
<1>9. CASE RecordDelivered(w)
  <2>1. Row(id, "DELIVERED") \in history'
    BY Zenon, <1>5, <1>9 DEF RecordDelivered, RecordOutcome
  <2>2. id \in Ids'
    BY <1>4, <1>5 DEF Grows, Ids
  <2> QED
    BY Zenon, <1>2, <1>5, <2>1, <2>2 DEF Done, Delivered
<1>10. CASE RecordDeadLettered(w)
  <2>1. ~Locked(stream[id].event) /\ UNCHANGED <<rtx, rpub>>
    BY Zenon, <1>5, <1>10 DEF RecordDeadLettered, RecordOutcome, txVars
  <2>2. dlq'[stream[id].event] = "OPEN"
    BY Zenon, <1>1, <1>5, <1>6, <1>10 DEF RecordDeadLettered, TypeInv, TypeOK, PgType, Message
  <2>3. OpenFor(id)'
    BY Zenon, <1>6, <2>1, <2>2 DEF Locked, OpenFor
  <2> QED
    BY Zenon, <1>2, <1>5, <2>3 DEF Done
<1> QED
  BY Zenon, <1>2, <1>7, <1>8, <1>9, <1>10

\* What a pump is about to remove from the retry set it has published.
LEMMA RemovalStep ==
    ASSUME LossInv, Next, NEW w \in Workers, NEW m \in moved'[w]
    PROVE  Later(m.orig)'
<1>1. TypeInv /\ NothingDropped /\ Grows
  BY Zenon, StreamStep DEF LossInv
<1>2. CASE m \in moved[w]
  <2>1. FromEntry(m) /\ Later(m.orig)
    BY Zenon, <1>1, <1>2 DEF TypeInv, PumpHands, NothingDropped
  <2> QED
    BY Zenon, <1>1, <2>1, LaterKept DEF FromEntry
<1>3. CASE m \notin moved[w]
  <2>1. m \in members[w] /\ stream' = Append(stream, m)
    BY Zenon, <1>1, <1>3, MovedStep
  <2>2. m \in Message /\ FromEntry(m)
    BY Zenon, <1>1, <2>1 DEF TypeInv, TypeOK, PumpType, PumpHands
  <2>3. Len(stream') = Len(stream) + 1 /\ stream'[Len(stream) + 1] = m
    BY Zenon, <1>1, <2>1, <2>2, GrowsByAppend DEF TypeInv, TypeOK
  <2> QED
    BY <1>1, <2>2, <2>3 DEF Later, FromEntry, Grows, Ids
<1> QED
  BY Zenon, <1>2, <1>3

LEMMA LossStep == LossInv /\ [Next]_vars => LossInv'
<1> SUFFICES ASSUME LossInv, [Next]_vars PROVE NothingDropped'
  BY ZenonT(60), TypeStep DEF LossInv
<1>1. CASE UNCHANGED vars
  BY SMTT(20), <1>1 DEF LossInv, NothingDropped, WithGroup, Done, Delivered, Scheduled, Later, OpenFor,
              Ids, Row, vars, redisVars, pgVars, workerVars, pumpVars, txVars, boundVars
<1>2. CASE Next
  <2>1. \A id \in Ids' : (WithGroup(id) \/ id \in skipped \/ Done(id))'
    BY Zenon, <1>2, EntryStep
  <2>2. \A w \in Workers : pc'[w] = "retrying" => Scheduled(cur[w])' \/ Later(cur[w])'
    BY Zenon, <1>2, RetryingStep
  <2>3. \A w \in Workers : pc'[w] = "ack" => Done(cur[w])'
    BY Zenon, <1>2, AckStep
  <2>4. \A w \in Workers : \A m \in moved'[w] : Later(m.orig)'
    BY Zenon, <1>2, RemovalStep
  <2> QED
    BY Zenon, <2>1, <2>2, <2>3, <2>4 DEF NothingDropped
<1> QED
  BY Zenon, <1>1, <1>2

\* An event that was published has a last entry in the stream.
Ended ==
    \A e \in Events : Published(e) => \E id \in Ids : stream[id].event = e /\ ~Later(id)

LEMMA EndedStep == TypeInv /\ Ended /\ [Next]_vars => Ended'
<1> SUFFICES ASSUME TypeInv, Ended, [Next]_vars PROVE Ended'
  BY Zenon
<1>1. Grows /\ Len(stream') <= Len(stream) + 1
  <2>1. UNCHANGED vars => stream' = stream /\ RedisType
    BY Zenon DEF vars, redisVars, TypeInv, TypeOK
  <2>2. CASE Next
    BY Zenon, <2>2, StreamStep
  <2>3. CASE UNCHANGED vars
    BY <2>1, <2>3, GrowsUnchanged DEF Grows
  <2> QED
    BY Zenon, <2>2, <2>3
<1>2. ASSUME NEW e \in Events, NEW j \in Ids', stream'[j].event = e
      PROVE  \E id \in Ids' : /\ stream'[id].event = e
                              /\ \A k \in Ids' : k > id => stream'[k].event # e
  <2>1. CASE stream'[Len(stream')].event = e
    BY <1>1, <1>2, <2>1 DEF Grows, Ids
  <2>2. CASE stream'[Len(stream')].event # e
    <3>1. \A k \in Ids' : k \in Ids \/ k = Len(stream')
      BY <1>1 DEF Grows, Ids
    <3>2. Published(e)
      BY Zenon, <1>1, <1>2, <2>2, <3>1 DEF Published, Grows
    <3>3. PICK id \in Ids : stream[id].event = e /\ ~Later(id)
      BY Zenon, <3>2 DEF Ended
    <3>4. id \in Ids' /\ stream'[id].event = e
      BY <1>1, <3>3 DEF Grows, Ids
    <3>5. \A k \in Ids' : k > id => stream'[k].event # e
      BY Zenon, <1>1, <2>2, <3>1, <3>3 DEF Later, Grows
    <3> QED
      BY Zenon, <3>4, <3>5
  <2> QED
    BY Zenon, <2>1, <2>2
<1> QED
  BY <1>2 DEF Ended, Published, Later

\* What LossInv says of that entry is what NoEventLost says of the event.
LEMMA LossInvImplies == LossInv /\ Ended => NoEventLost
<1> SUFFICES ASSUME LossInv, Ended, NEW e \in Events, Published(e)
             PROVE  InFlight(e) \/ Delivered(e) \/ dlq[e] = "OPEN" \/ Skipped(e)
  BY Zenon DEF NoEventLost
<1>1. PICK id \in Ids : stream[id].event = e /\ ~Later(id)
  BY Zenon DEF Ended
<1>2. WithGroup(id) \/ id \in skipped \/ Done(id)
  BY Zenon DEF LossInv, NothingDropped
<1>3. Scheduled(id) => InFlight(e)
  BY ZenonT(60), <1>1 DEF Scheduled, InFlight, LossInv, TypeInv, PumpHands, FromEntry
<1> QED
  BY Zenon, <1>1, <1>2, <1>3 DEF Done, InFlight, Skipped, OpenFor

\* At-least-once delivery, whatever fails, crashes, is reprocessed or
\* redriven: a published event is in flight, delivered, open in the
\* dead-letter table, or was skipped by an operator (handleDeliveryFailure,
\* republishRetryMember, RedriveDLQ).
THEOREM NoLoss == Spec => []NoEventLost
<1>1. Init => Ended
  BY DEF Init, Ended, Published, Ids
<1>2. LossInv => TypeInv
  BY Zenon DEF LossInv
<1> QED
  BY <1>1, <1>2, LossInit, LossStep, EndedStep, LossInvImplies, PTL DEF Spec

-----------------------------------------------------------------------------

RecordInv == TypeInv /\ Recorded

\* How a worker comes to work on a message, and to acknowledge it: through
\* RecordProcessing, and through the record of an outcome.
LEMMA RecordStep ==
    ASSUME TypeInv, Next, NEW w \in Workers
    PROVE  /\ pc'[w] \in WorkingPc =>
                \/ cur'[w] = cur[w] /\ pc[w] \in WorkingPc
                \/ Row(cur'[w], "PROCESSING") \in history'
           /\ pc'[w] = "ack" =>
                /\ cur'[w] = cur[w]
                /\ pc[w] = "ack" \/ \E status \in OutcomeStatus : Row(cur[w], status) \in history'
<1>1. Advance(w)
  BY Zenon, AdvanceStep
<1>2. \/ Deliver(w) \/ ScheduleRetry(w) \/ MoveToDLQ(w)
      \/ RecordRetrying(w) \/ RecordDelivered(w) \/ RecordDeadLettered(w)
      => pc[w] \in WorkingPc
  BY Zenon DEF Deliver, ScheduleRetry, MoveToDLQ, RecordRetrying, RecordDelivered, RecordDeadLettered,
               WorkingPc
<1>3. pc'[w] \in WorkingPc => \/ cur'[w] = cur[w] /\ pc[w] \in WorkingPc
                              \/ Row(cur'[w], "PROCESSING") \in history'
  <2>1. {"down", "poll", "process"} \cap WorkingPc = {}
    BY Zenon DEF WorkingPc
  <2> QED
    BY Zenon, <1>1, <1>2, <2>1 DEF Advance
<1>4. ASSUME pc'[w] = "ack"
      PROVE  /\ cur'[w] = cur[w]
             /\ pc[w] = "ack" \/ \E status \in OutcomeStatus : Row(cur[w], status) \in history'
  BY Zenon, <1>4, PhaseStep DEF RecordRetrying, RecordDelivered, RecordDeadLettered, RecordOutcome,
                           OutcomeStatus
<1> QED
  BY Zenon, <1>3, <1>4

LEMMA RecordInvStep == RecordInv /\ [Next]_vars => RecordInv'
<1> SUFFICES ASSUME RecordInv, [Next]_vars PROVE RecordInv'
  BY Zenon
<1>1. TypeInv'
  BY Zenon, TypeStep DEF RecordInv
<1>2. CASE UNCHANGED vars
  BY Zenon, <1>1, <1>2 DEF RecordInv, Recorded, AckedIsRecorded, WithGroup, Row, Ids,
                    vars, redisVars, pgVars, workerVars, boundVars
<1>3. CASE Next
  <2>1. Grows /\ TypeInv /\ Recorded /\ history \subseteq history' /\ skipped \subseteq skipped'
    BY Zenon, <1>3, StreamStep, Footprint DEF RecordInv
  <2>2. ASSUME NEW w \in Workers, pc'[w] \in WorkingPc
        PROVE  Row(cur'[w], "PROCESSING") \in history'
    BY Zenon, <1>3, <2>1, <2>2, RecordStep DEF Recorded
  <2>3. ASSUME NEW w \in Workers, pc'[w] = "ack"
        PROVE  \E status \in OutcomeStatus : Row(cur'[w], status) \in history'
    BY Zenon, <1>3, <2>1, <2>3, RecordStep DEF Recorded
  <2>4. ASSUME NEW id \in Ids' \ skipped', ~WithGroup(id)'
        PROVE  /\ Row(id, "PROCESSING") \in history'
               /\ \E status \in OutcomeStatus : Row(id, status) \in history'
    <3>1. id \in Ids \ skipped
      BY Zenon, <1>3, <2>1, <2>4, StreamStep DEF WithGroup
    <3>2. CASE WithGroup(id)
      <4>1. PICK w \in Workers : Ack(w) /\ id = cur[w]
        BY Zenon, <1>3, <2>1, <2>4, <3>1, <3>2, GroupStep
      <4> QED
        BY Zenon, <2>1, <4>1 DEF Ack, Recorded, WorkingPc
    <3>3. CASE ~WithGroup(id)
      BY Zenon, <2>1, <3>1, <3>3 DEF Recorded, AckedIsRecorded
    <3> QED
      BY Zenon, <3>2, <3>3
  <2>5. AckedIsRecorded'
    BY <2>4, Zenon DEF AckedIsRecorded, Row
  <2> QED
    BY <1>1, <2>2, <2>3, <2>5, Zenon DEF RecordInv, Recorded, Row
<1> QED
  BY Zenon, <1>2, <1>3

\* No entry leaves the pending list before PostgreSQL holds that it was taken
\* up and how it ended: processStreamMessage records PROCESSING first, and
\* acknowledges only after the outcome's transaction has committed.
THEOREM AcksAreRecorded == Spec => []AckedIsRecorded
<1>1. Init => RecordInv
  BY SMTT(20), TypeInit DEF Init, RecordInv, Recorded, AckedIsRecorded, Ids, WorkingPc
<1>2. RecordInv => AckedIsRecorded
  BY Zenon DEF RecordInv, Recorded
<1> QED
  BY <1>1, <1>2, RecordInvStep, PTL DEF Spec

-----------------------------------------------------------------------------
(* The dead-letter table and the copies of its messages.                   *)

\* RecordHasCopy; a worker about to write the record has copied its message,
\* and a redrive has locked a record that exists.
CopyInv ==
    /\ RecordHasCopy
    /\ \A w \in Workers : pc[w] = "dead" => cur[w] \in dlqStream
    /\ \A r \in Redrives : rtx[r] # NoEvent => dlq[rtx[r]] # "none"

\* How a worker comes to write a record.
LEMMA CopyStep ==
    ASSUME TypeInv, Next, NEW w \in Workers, pc'[w] = "dead"
    PROVE  cur'[w] = cur[w] /\ (pc[w] = "dead" \/ cur[w] \in dlqStream')
<1>1. Advance(w)
  BY Zenon, AdvanceStep
<1>2. MoveToDLQ(w) => cur[w] \in dlqStream'
  BY Zenon DEF MoveToDLQ
<1> QED
  BY Zenon, <1>1, <1>2 DEF Advance

\* How a record comes to exist; none is ever removed.
LEMMA TableStep ==
    ASSUME TypeInv, CopyInv, Next
    PROVE  /\ \A e \in Events : dlq[e] # "none" => dlq'[e] # "none"
           /\ \A e \in Events : dlq[e] = "none" /\ dlq'[e] # "none" =>
                \E w \in Workers : pc[w] = "dead" /\ stream[cur[w]].event = e
           /\ \A r \in Redrives : rtx'[r] # NoEvent => dlq[rtx'[r]] # "none"
<1> DEFINE G == /\ \A e \in Events : dlq[e] # "none" => dlq'[e] # "none"
                /\ \A e \in Events : dlq[e] = "none" /\ dlq'[e] # "none" =>
                     \E w \in Workers : pc[w] = "dead" /\ stream[cur[w]].event = e
                /\ \A r \in Redrives : rtx'[r] # NoEvent => dlq[rtx'[r]] # "none"
<1>1. /\ dlq \in [Events -> {"none", "OPEN", "REDRIVEN"}]
      /\ rtx \in [Redrives -> Events \cup {NoEvent}]
      /\ \A r \in Redrives : rpub[r] # 0 => rtx[r] # NoEvent
  BY Zenon DEF TypeInv, TypeOK, PgType, TxType, TxHands
<1>2. \A r \in Redrives : rtx[r] # NoEvent => dlq[rtx[r]] # "none"
  BY Zenon DEF CopyInv
<1>3. ASSUME UNCHANGED <<dlq, rtx>> PROVE G
  BY Zenon, <1>2, <1>3
<1>4. ASSUME NEW w \in Workers, RecordDeadLettered(w) PROVE G
  BY Zenon, <1>1, <1>2, <1>4 DEF RecordDeadLettered, RecordOutcome, txVars
<1>5. ASSUME NEW r \in Redrives, NEW e \in Events, RedriveLock(r, e) PROVE G
  BY Zenon, <1>1, <1>2, <1>5 DEF RedriveLock, pgVars
<1>6. ASSUME NEW r \in Redrives, RedrivePublish(r) \/ RedriveAbort(r) PROVE G
  BY Zenon, <1>1, <1>2, <1>6 DEF RedrivePublish, RedriveAbort, pgVars, txVars
<1>7. ASSUME NEW r \in Redrives, RedriveCommit(r) PROVE G
  BY Zenon, <1>1, <1>2, <1>7 DEF RedriveCommit
<1>8. G
  <2> HIDE DEF G
  <2> QED
    BY Zenon, <1>3, <1>4, <1>5, <1>6, <1>7, Footprint DEF Redrive, txVars
<1> QED
  BY Zenon, <1>8

LEMMA CopyInvStep == TypeInv /\ CopyInv /\ [Next]_vars => CopyInv'
<1> SUFFICES ASSUME TypeInv, CopyInv, [Next]_vars PROVE CopyInv'
  BY Zenon
<1>1. CASE UNCHANGED vars
  BY Zenon, <1>1 DEF CopyInv, RecordHasCopy, vars, redisVars, pgVars, workerVars, txVars
<1>2. CASE Next
  <2>1. \A w \in Workers : pc'[w] = "dead" => cur'[w] \in dlqStream'
    BY Zenon, <1>2, CopyStep, Footprint DEF CopyInv
  <2>2. /\ dlqStream \subseteq dlqStream' /\ dlqStream \subseteq Ids
        /\ \A id \in Ids : stream'[id] = stream[id]
    BY Zenon, <1>2, Footprint, StreamStep DEF Grows, TypeInv, TypeOK, RedisType, Ids
  <2>3. ASSUME NEW e \in Events, dlq'[e] # "none"
        PROVE  \E id \in dlqStream' : stream'[id].event = e
    <3>1. \E id \in dlqStream : stream[id].event = e
      BY Zenon, <1>2, <2>3, TableStep DEF CopyInv, RecordHasCopy
    <3> QED
      BY Zenon, <2>2, <3>1
  <2>4. \A r \in Redrives : rtx'[r] # NoEvent => dlq'[rtx'[r]] # "none"
    <3>1. rtx' \in [Redrives -> Events \cup {NoEvent}]
      BY Zenon, TypeStep DEF TypeInv, TypeOK, TxType
    <3> QED
      BY ZenonT(60), <1>2, <3>1, TableStep
  <2> QED
    BY Zenon, <2>1, <2>3, <2>4 DEF CopyInv, RecordHasCopy
<1> QED
  BY Zenon, <1>1, <1>2

\* A dead-letter record never exists without the copy of its message in the
\* dead-letter stream: handleDeliveryFailure calls moveToDLQ first, and leaves
\* the message pending when it fails.
THEOREM RecordsHaveCopies == Spec => []RecordHasCopy
<1>1. Init => TypeInv /\ CopyInv
  BY SMTT(20), TypeInit DEF Init, CopyInv, RecordHasCopy
<1>2. CopyInv => RecordHasCopy
  BY Zenon DEF CopyInv
<1> QED
  BY <1>1, <1>2, TypeStep, CopyInvStep, PTL DEF Spec

-----------------------------------------------------------------------------
(* The steps by what they do to the records and the counters.              *)

LEMMA FreshIsMessage ==
    ASSUME NEW e \in Events
    PROVE  Fresh(e) \in Message /\ Fresh(e).event = e /\ Fresh(e).retry = 0 /\ Fresh(e).orig = 0
  BY DEF Fresh, Message

\* The actions that record a delivery, open or close a record, or skip.
LEMMA WhoSettles ==
    ASSUME Next
    PROVE  \/ /\ \A id : Row(id, "DELIVERED") \in history' => Row(id, "DELIVERED") \in history
              /\ history \subseteq history' /\ UNCHANGED <<dlq, skipped>>
           \/ \E w \in Workers : RecordDelivered(w) \/ RecordDeadLettered(w)
           \/ \E r \in Redrives : RedriveCommit(r)
           \/ \E id \in 0..Len(stream) : SetGroupCursor(id)
<1> DEFINE G == /\ \A id : Row(id, "DELIVERED") \in history' => Row(id, "DELIVERED") \in history
                /\ history \subseteq history' /\ UNCHANGED <<dlq, skipped>>
<1> USE DEF redisVars, pgVars, workerVars, pumpVars, txVars, boundVars, Disturb
<1>1. ASSUME UNCHANGED <<history, dlq, skipped>> PROVE G
  BY Zenon, <1>1
<1>2. ASSUME NEW id, NEW status, status # "DELIVERED", history' = history \cup {Row(id, status)},
             UNCHANGED <<dlq, skipped>>
      PROVE  G
  <2>1. \A j : Row(j, "DELIVERED") # Row(id, status)
    BY <1>2 DEF Row
  <2> QED
    BY Zenon, <1>2, <2>1
<1> HIDE DEF G
<1>3. ASSUME NEW w \in Workers, Reclaim(w) \/ ReadGroup(w) \/ Deliver(w) \/ ScheduleRetry(w)
      PROVE  G
  BY Zenon, <1>1, <1>3 DEF Reclaim, ReadGroup, Deliver, ScheduleRetry, Returns
<1>4. ASSUME NEW w \in Workers, MoveToDLQ(w) \/ Ack(w) \/ PollFails(w) \/ RecordProcessingFails(w)
                                \/ CallFails(w)
      PROVE  G
  BY Zenon, <1>1, <1>4 DEF MoveToDLQ, Returns, Ack, PollFails, RecordProcessingFails, CallFails
<1>5. ASSUME NEW w \in Workers, RetryPump(w) \/ PumpFails(w) \/ Stop(w) \/ Start(w)
      PROVE  G
  BY Zenon, <1>1, <1>5 DEF RetryPump, PumpRead, PumpPublish, PumpRemove, PumpFails, Stop, Start
<1>6. ASSUME NEW w \in Workers, RecordProcessing(w) PROVE G
  <2>1. PICK id \in batch[w] : history' = history \cup {Row(id, "PROCESSING")} /\ UNCHANGED <<dlq, skipped>>
    BY Zenon, <1>6 DEF RecordProcessing
  <2> QED
    BY Zenon, <1>2, <2>1
<1>7. ASSUME NEW w \in Workers, RecordRetrying(w) PROVE G
  <2>1. history' = history \cup {Row(cur[w], "RETRYING")} /\ UNCHANGED <<dlq, skipped>>
    BY Zenon, <1>7 DEF RecordRetrying, RecordOutcome, Returns
  <2> QED
    BY Zenon, <1>2, <2>1
<1>8. ASSUME \/ \E e \in Events : Publish(e)
             \/ \E id \in pel : BecomeIdle(id)
             \/ \E m \in zset : BecomeDue(m)
             \/ \E r \in Redrives : \/ \E e \in Events : RedriveLock(r, e)
                                    \/ RedrivePublish(r) \/ RedriveAbort(r)
      PROVE  G
  BY Zenon, <1>1, <1>8 DEF Publish, BecomeIdle, BecomeDue, RedriveLock, RedrivePublish, RedriveAbort
<1>9. G \/ (\E w \in Workers : RecordDelivered(w) \/ RecordDeadLettered(w))
        \/ (\E r \in Redrives : RedriveCommit(r)) \/ (\E id \in 0..Len(stream) : SetGroupCursor(id))
  BY ZenonT(60), <1>3, <1>4, <1>5, <1>6, <1>7, <1>8 DEF Next, StreamWorker, Redrive
<1> QED
  BY Zenon, <1>9 DEF G

\* The counters of the faults and of the redrives count up.
LEMMA Counters ==
    ASSUME Next
    PROVE  /\ disturbances' = disturbances \/ disturbances' = disturbances + 1
           /\ redrives' = redrives \/ redrives' = redrives + 1
<1> DEFINE G == /\ disturbances' = disturbances \/ disturbances' = disturbances + 1
                /\ redrives' = redrives \/ redrives' = redrives + 1
<1>1. UNCHANGED boundVars \/ Disturb \/ UNCHANGED <<redrives, disturbances>> => G
  BY Zenon DEF boundVars, Disturb
<1>2. ASSUME NEW r \in Redrives, NEW e \in Events, RedriveLock(r, e) PROVE G
  BY Zenon, <1>2 DEF RedriveLock
<1>3. ASSUME NEW c \in 0..Len(stream), SetGroupCursor(c) PROVE G
  BY Zenon, <1>3 DEF SetGroupCursor
<1> HIDE DEF G
<1>4. ASSUME NEW w \in Workers, Reclaim(w) \/ ReadGroup(w) \/ RecordProcessing(w) \/ Deliver(w)
      PROVE  G
  BY Zenon, <1>1, <1>4 DEF Reclaim, ReadGroup, RecordProcessing, Deliver
<1>5. ASSUME NEW w \in Workers, ScheduleRetry(w) \/ RecordRetrying(w) \/ MoveToDLQ(w)
                                \/ RecordDeadLettered(w) \/ RecordDelivered(w) \/ Ack(w)
      PROVE  G
  BY Zenon, <1>1, <1>5 DEF ScheduleRetry, RecordRetrying, MoveToDLQ, RecordDeadLettered,
       RecordDelivered, RecordOutcome, Returns, Ack
<1>6. ASSUME NEW w \in Workers, RetryPump(w) \/ PumpFails(w) \/ Stop(w) \/ Start(w)
                                \/ PollFails(w) \/ RecordProcessingFails(w) \/ CallFails(w)
      PROVE  G
  BY Zenon, <1>1, <1>6 DEF RetryPump, PumpRead, PumpPublish, PumpRemove, PumpFails, Stop, Start,
       PollFails, RecordProcessingFails, CallFails
<1>7. ASSUME \/ \E e \in Events : Publish(e)
             \/ \E id \in pel : BecomeIdle(id)
             \/ \E m \in zset : BecomeDue(m)
             \/ \E r \in Redrives : Redrive(r) \/ RedriveAbort(r)
      PROVE  G
  BY Zenon, <1>1, <1>7 DEF Publish, BecomeIdle, BecomeDue, Redrive, RedrivePublish, RedriveCommit,
       RedriveAbort
<1>8. G
  BY ZenonT(60), <1>2, <1>3, <1>4, <1>5, <1>6, <1>7 DEF Next, StreamWorker
<1> QED
  BY Zenon, <1>8 DEF G

-----------------------------------------------------------------------------
(* A retry is made from an entry.                                          *)

LEMMA MadeKept ==
    ASSUME Grows, NEW m, Made(m)
    PROVE  Made(m)'
<1>1. m.orig \in Ids' /\ stream'[m.orig] = stream[m.orig]
  BY Zenon, GrownEntries DEF Made
<1> QED
  BY Zenon, <1>1 DEF Made, RetryMember

\* A retry has a number of its own, and comes from an entry with the one
\* before it.
LEMMA MadeIs ==
    ASSUME TypeInv, NEW m, Made(m)
    PROVE  /\ m.orig \in Ids /\ m.retry = stream[m.orig].retry + 1 /\ m.retry > 0
           /\ m.event = stream[m.orig].event /\ stream[m.orig].retry \in Nat
<1>1. m.orig \in Ids /\ RedisType
  BY Zenon DEF Made, TypeInv, TypeOK
<1>2. stream[m.orig] \in Message
  BY Zenon, <1>1, Positions
<1>3. stream[m.orig].retry \in 0..MaxRetries
  BY Zenon, <1>2 DEF Message
<1>4. m.retry = stream[m.orig].retry + 1 /\ m.event = stream[m.orig].event
  BY DEF Made, RetryMember
<1> QED
  BY <1>1, <1>3, <1>4

\* Which members a step may add to the retry set and to a pump's hands.
LEMMA WhoSchedules ==
    ASSUME TypeInv, Next
    PROVE  /\ \A m \in zset' : \/ m \in zset
                               \/ \E w \in Workers : cur[w] \in Ids /\ m = RetryMember(cur[w])
           /\ \A w \in Workers : \A m \in members'[w] \cup moved'[w] :
                m \in zset \cup members[w] \cup moved[w]
<1>1. due \subseteq zset /\ PumpType
  BY Zenon DEF TypeInv, TypeOK, RedisType
<1>2. \A m \in zset' : \/ m \in zset
                       \/ \E w \in Workers : cur[w] \in Ids /\ m = RetryMember(cur[w])
  <2>1. ASSUME NEW w \in Workers, ScheduleRetry(w) PROVE cur[w] \in Ids
    BY Zenon, <2>1 DEF ScheduleRetry, TypeInv, WorkerHands, Hand, WorkingPc
  <2> QED
    BY Zenon, <2>1, Footprint DEF ScheduleRetry, PumpRemove
<1>3. ASSUME NEW v \in Workers, RetryPump(v) \/ PumpFails(v) \/ Stop(v),
             NEW w \in Workers, NEW m \in members'[w] \cup moved'[w]
      PROVE  m \in zset \cup members[w] \cup moved[w]
  <2>1. CASE w # v
    <3>1. members'[w] = members[w] /\ moved'[w] = moved[w]
      BY Zenon, <1>1, <1>3, <2>1 DEF RetryPump, PumpRead, PumpPublish, PumpRemove, PumpFails, Stop,
           PumpType, pumpVars
    <3> QED
      BY Zenon, <3>1, <1>3
  <2>2. CASE w = v
    <3>1. CASE PumpRead(v)
      BY Zenon, <1>1, <1>3, <2>2, <3>1 DEF PumpRead, PumpType
    <3>2. CASE PumpPublish(v)
      <4>1. PICK n \in members[v] :
              /\ members' = [members EXCEPT ![v] = @ \ {n}] \/ members' = members
              /\ moved' = [moved EXCEPT ![v] = {n}] \/ moved' = moved
        BY Zenon, <3>2 DEF PumpPublish, pumpVars
      <4>2. members'[v] \subseteq members[v] /\ moved'[v] \subseteq moved[v] \cup members[v]
        BY <1>1, <4>1 DEF PumpType
      <4> QED
        BY Zenon, <1>3, <2>2, <4>2
    <3>3. CASE PumpRemove(v) \/ PumpFails(v) \/ Stop(v)
      <4>1. members'[v] \subseteq members[v] /\ moved'[v] \subseteq moved[v]
        <5>1. ASSUME PumpRemove(v) PROVE members'[v] \subseteq members[v] /\ moved'[v] \subseteq moved[v]
          BY Zenon, <1>1, <5>1 DEF PumpRemove, PumpType
        <5>2. ASSUME PumpFails(v) PROVE members'[v] \subseteq members[v] /\ moved'[v] \subseteq moved[v]
          BY ZenonT(60), <1>1, <5>2 DEF PumpFails, PumpType
        <5>3. ASSUME Stop(v) PROVE members'[v] \subseteq members[v] /\ moved'[v] \subseteq moved[v]
          BY Zenon, <1>1, <5>3 DEF Stop, PumpType
        <5> QED
          BY Zenon, <3>3, <5>1, <5>2, <5>3
      <4> QED
        BY Zenon, <1>3, <2>2, <4>1
    <3> QED
      BY Zenon, <1>3, <3>1, <3>2, <3>3 DEF RetryPump
  <2> QED
    BY Zenon, <2>1, <2>2
<1>4. \A w \in Workers : \A m \in members'[w] \cup moved'[w] : m \in zset \cup members[w] \cup moved[w]
  BY Zenon, <1>3, Footprint DEF pumpVars
<1> QED
  BY Zenon, <1>2, <1>4

\* What a step adds to the stream is fresh or a pump's.
LEMMA AddedRetry ==
    ASSUME TypeInv, Next, NEW id \in Ids', id \notin Ids
    PROVE  /\ id = Len(stream) + 1
           /\ \/ stream'[id].retry = 0
              \/ \E w \in Workers : stream'[id] \in members[w] /\ PumpPublish(w)
<1>1. RedisType
  BY Zenon DEF TypeInv, TypeOK
<1>2. ASSUME NEW m \in Message, stream' = Append(stream, m)
      PROVE  id = Len(stream) + 1 /\ stream'[id] = m
  BY Zenon, <1>1, <1>2, GrowsByAppend, AppendedEntry
<1>3. ASSUME NEW e \in Events, stream' = Append(stream, Fresh(e))
      PROVE  id = Len(stream) + 1 /\ stream'[id].retry = 0
  BY Zenon, <1>2, <1>3, FreshIsMessage
<1>4. ASSUME NEW w \in Workers, PumpPublish(w)
      PROVE  id = Len(stream) + 1 /\ stream'[id] \in members[w]
  BY Zenon, <1>2, <1>4 DEF PumpPublish, TypeInv, TypeOK, PumpType
<1>5. ASSUME NEW r \in Redrives, RedrivePublish(r)
      PROVE  id = Len(stream) + 1 /\ stream'[id].retry = 0
  BY Zenon, <1>3, <1>5 DEF RedrivePublish, TypeInv, TypeOK, TxType
<1>6. stream' # stream
  BY Zenon DEF Ids
<1> QED
  BY Zenon, <1>3, <1>4, <1>5, <1>6, Footprint DEF Publish

LEMMA ChainedStep == TypeInv /\ Chained /\ [Next]_vars => Chained'
<1> SUFFICES ASSUME TypeInv, Chained, [Next]_vars PROVE Chained'
  BY Zenon
<1>1. CASE UNCHANGED vars
  BY ZenonT(60), <1>1 DEF Chained, Made, RetryMember, Ids, vars, redisVars, pumpVars
<1>2. CASE Next
  <2>1. Grows
    BY Zenon, <1>2, StreamStep
  <2>2. ASSUME NEW id \in Ids', stream'[id].retry > 0 PROVE Made(stream[id])'
    <3>1. CASE id \in Ids
      <4>1. stream'[id] = stream[id] /\ Made(stream[id])
        BY Zenon, <2>1, <2>2, <3>1 DEF Grows, Chained
      <4> QED
        BY Zenon, <2>1, <4>1, MadeKept
    <3>2. CASE id \notin Ids
      <4>1. stream'[id].retry # 0
        BY Zenon, <2>2, Order
      <4>2. PICK w \in Workers : stream'[id] \in members[w]
        BY Zenon, <1>2, <3>2, <4>1, AddedRetry
      <4>3. PICK m \in members[w] : m = stream'[id]
        BY Zenon, <4>2
      <4>4. Made(m)'
        BY Zenon, <2>1, <4>3, MadeKept DEF Chained
      <4> QED
        BY Zenon, <4>3, <4>4 DEF Made, RetryMember
    <3> QED
      BY Zenon, <3>1, <3>2
  <2>3. ASSUME NEW id \in Ids PROVE Made(RetryMember(id))
    BY <2>3 DEF Made, RetryMember
  <2>4. ASSUME NEW m \in zset' PROVE Made(m)'
    <3>1. Made(m)
      BY ZenonT(60), <1>2, <2>3, <2>4, WhoSchedules DEF Chained
    <3> QED
      BY Zenon, <2>1, <3>1, MadeKept
  <2>5. ASSUME NEW w \in Workers, NEW m \in members'[w] \cup moved'[w] PROVE Made(m)'
    <3>1. Made(m)
      BY Zenon, <1>2, <2>5, WhoSchedules DEF Chained
    <3> QED
      BY Zenon, <2>1, <3>1, MadeKept
  <2> QED
    BY Zenon, <2>2, <2>4, <2>5 DEF Chained
<1> QED
  BY Zenon, <1>1, <1>2

-----------------------------------------------------------------------------
(* One process on its own adds no entry for nothing.                       *)

\* What is pending stays in the hands of the one process.
LEMMA ReaderStep ==
    ASSUME TypeInv, OneReader, OneProcess, ~Disturb,
           \/ \E e \in Events : Publish(e)
           \/ \E m \in zset : BecomeDue(m)
           \/ \E w \in Workers : StreamWorker(w) \/ RetryPump(w)
    PROVE  OneReader' /\ lastDelivered <= lastDelivered'
<1> DEFINE G == OneReader' /\ lastDelivered <= lastDelivered'
<1>1. WorkerType /\ RedisType /\ lastDelivered \in Nat /\ Len(stream) \in Nat
      /\ lastDelivered <= Len(stream)
  <2>1. WorkerType /\ RedisType
    BY Zenon DEF TypeInv, TypeOK
  <2> QED
    BY Zenon, <2>1, Positions
<1>2. ASSUME UNCHANGED <<idle, pel, batch, cur, lastDelivered>>,
             \A v \in Workers : pc'[v] = pc[v] \/ pc'[v] \notin {"down", "poll", "process"}
      PROVE  G
  <2>1. OneReader'
    BY Zenon, <1>2 DEF OneReader, InHand
  <2> QED
    BY Zenon, <1>1, <1>2, <2>1, Order
<1>3. ASSUME UNCHANGED <<idle, pel, workerVars, lastDelivered>> PROVE G
  BY Zenon, <1>2, <1>3 DEF workerVars
<1>4. ASSUME NEW w \in Workers, Reclaim(w) PROVE G
  <2>1. batch[w] = {} /\ cur[w] = 0 /\ pel = {} /\ idle = {}
    BY Zenon, <1>4 DEF Reclaim, Polling, OneReader, InHand, OneProcess
  <2>2. /\ idle' = {} /\ batch' = [batch EXCEPT ![w] = {}] /\ pc' = [pc EXCEPT ![w] = "poll"]
        /\ cur' = cur /\ pel' = pel /\ lastDelivered' = lastDelivered
    <3>1. PICK ids \in FirstOf(idle) : idle' = idle \ ids /\ Receive(w, ids)
      BY Zenon, <1>4 DEF Reclaim
    <3>2. ids = {}
      BY Zenon, <2>1, <3>1 DEF FirstOf
    <3> QED
      BY Zenon, <1>4, <2>1, <3>1, <3>2 DEF Reclaim, Receive
  <2>3. OneReader'
    BY Zenon, <1>1, <2>1, <2>2 DEF OneReader, InHand, WorkerType, OneProcess
  <2> QED
    BY Zenon, <1>1, <2>2, <2>3, Order
<1>5. ASSUME NEW w \in Workers, ReadGroup(w) PROVE G
  <2>1. batch[w] = {} /\ cur[w] = 0 /\ pel = {} /\ idle = {}
    BY Zenon, <1>5 DEF ReadGroup, Polling, OneReader, InHand, OneProcess
  <2>2. lastDelivered' \in Nat /\ lastDelivered <= lastDelivered'
    BY <1>1, <1>5 DEF ReadGroup
  <2> DEFINE ids == lastDelivered + 1 .. lastDelivered'
  <2>3. /\ pel' = pel \cup ids /\ idle' = idle \ ids
        /\ batch' = [batch EXCEPT ![w] = ids] /\ cur' = cur
        /\ pc' = [pc EXCEPT ![w] = IF ids = {} THEN "poll" ELSE "process"]
    BY Zenon, <1>5 DEF ReadGroup, Receive
  <2>4. \A id \in ids : id <= lastDelivered'
    BY <2>2
  <2>5. 0 <= lastDelivered'
    BY Zenon, <2>2, Order
  <2> HIDE DEF ids
  <2>6. /\ batch'[w] = ids /\ cur'[w] = 0 /\ pel' = ids /\ idle' = {}
        /\ pc'[w] = "poll" \/ pc'[w] = "process"
        /\ pc'[w] = "poll" => ids = {}
    BY Zenon, <1>1, <2>1, <2>3 DEF WorkerType
  <2>7. OneReader'
    BY Zenon, <2>4, <2>5, <2>6 DEF OneReader, InHand, OneProcess
  <2> QED
    BY Zenon, <2>2, <2>7
<1>6. ASSUME NEW w \in Workers, RecordProcessing(w) PROVE G
  <2>1. PICK id \in batch[w] : pc' = [pc EXCEPT ![w] = "deliver"] /\ cur' = [cur EXCEPT ![w] = id]
                               /\ UNCHANGED batch
    BY Zenon, <1>6 DEF RecordProcessing
  <2>2. UNCHANGED <<idle, pel, lastDelivered>>
    BY Zenon, <1>6 DEF RecordProcessing, redisVars
  <2>3. OneReader'
    <3>1. \A v \in Workers : v = w
      BY Zenon DEF OneProcess
    <3>2. pc'[w] = "deliver" /\ cur'[w] = id /\ batch' = batch
      BY Zenon, <1>1, <2>1 DEF WorkerType
    <3>3. \A n \in batch[w] : n <= lastDelivered
      BY Zenon DEF OneReader
    <3>4. idle' = {} /\ \A n \in pel' : InHand(n)'
      BY Zenon, <2>2, <3>2 DEF OneReader, InHand
    <3>5. /\ pc'[w] \notin {"down", "poll", "process"} /\ cur'[w] <= lastDelivered'
          /\ \A n \in batch'[w] : n <= lastDelivered'
      BY Zenon, <2>1, <2>2, <3>2, <3>3
    <3> QED
      BY Zenon, <3>1, <3>4, <3>5 DEF OneReader
  <2> QED
    BY Zenon, <1>1, <2>2, <2>3, Order
<1>7. ASSUME NEW w \in Workers, NEW next, pc' = [pc EXCEPT ![w] = next],
             next \notin {"down", "poll", "process"},
             UNCHANGED <<idle, pel, batch, cur, lastDelivered>>
      PROVE  G
  BY Zenon, <1>1, <1>2, <1>7 DEF WorkerType
<1>8. ASSUME NEW w \in Workers, Deliver(w) PROVE G
  <2>1. PICK next \in {"delivered", "schedule", "deadletter"} : pc' = [pc EXCEPT ![w] = next]
    BY <1>8, Zenon DEF Deliver, DecideFailureAction
  <2>2. UNCHANGED <<idle, pel, batch, cur, lastDelivered>>
    BY Zenon, <1>8 DEF Deliver, redisVars
  <2> QED
    BY Zenon, <1>7, <2>1, <2>2
<1>9. ASSUME NEW w \in Workers, \/ ScheduleRetry(w) \/ RecordRetrying(w) \/ MoveToDLQ(w)
                                \/ RecordDeadLettered(w) \/ RecordDelivered(w)
      PROVE  G
  <2>1. \E next \in {"retrying", "dead", "ack"} : pc' = [pc EXCEPT ![w] = next] /\ UNCHANGED <<batch, cur>>
    BY Zenon, <1>9 DEF ScheduleRetry, RecordRetrying, MoveToDLQ, RecordDeadLettered, RecordDelivered,
         RecordOutcome, Returns
  <2>2. UNCHANGED <<idle, pel, lastDelivered>>
    BY Zenon, <1>9 DEF ScheduleRetry, RecordRetrying, MoveToDLQ, RecordDeadLettered, RecordDelivered,
         RecordOutcome, redisVars
  <2> QED
    BY Zenon, <1>7, <2>1, <2>2
<1>10. ASSUME NEW w \in Workers, Ack(w) PROVE G
  <2>1. /\ pel' = pel \ {cur[w]} /\ idle' = idle \ {cur[w]} /\ lastDelivered' = lastDelivered
        /\ batch' = [batch EXCEPT ![w] = @ \ {cur[w]}] /\ cur' = [cur EXCEPT ![w] = 0]
        /\ pc' = [pc EXCEPT ![w] = IF batch[w] \subseteq {cur[w]} THEN "poll" ELSE "process"]
    BY Zenon, <1>10 DEF Ack, Leave
  <2>2. /\ batch'[w] = batch[w] \ {cur[w]} /\ cur'[w] = 0
        /\ pc'[w] = "poll" \/ pc'[w] = "process"
        /\ pc'[w] = "poll" => batch'[w] = {}
    BY Zenon, <1>1, <2>1 DEF WorkerType
  <2>3. 0 <= lastDelivered'
    BY Zenon, <1>1, <2>1, Order
  <2>4. \A v \in Workers : v = w
    BY Zenon DEF OneProcess
  <2>5. idle' = {} /\ \A id \in pel' : id \in batch'[w]
    <3>1. idle = {} /\ \A id \in pel : InHand(id)
      BY Zenon DEF OneReader
    <3>2. \A id \in pel : id \in batch[w]
      BY Zenon, <2>4, <3>1 DEF InHand
    <3>3. idle' = {}
      BY Zenon, <2>1, <3>1
    <3>4. ASSUME NEW id \in pel' PROVE id \in batch'[w]
      <4>1. id \in pel /\ id # cur[w]
        BY Zenon, <2>1, <3>4
      <4> QED
        BY Zenon, <2>2, <3>2, <4>1
    <3> QED
      BY Zenon, <3>3, <3>4
  <2>6. OneReader'
    <3>1. \A id \in pel' : InHand(id)'
      BY Zenon, <2>5 DEF InHand
    <3>2. \A id \in batch[w] : id <= lastDelivered
      BY Zenon DEF OneReader
    <3>3. /\ pc'[w] # "down" /\ (pc'[w] = "poll" => batch'[w] = {})
          /\ cur'[w] = 0 /\ cur'[w] <= lastDelivered'
      BY Zenon, <2>2, <2>3
    <3>4. \A id \in batch'[w] : id <= lastDelivered'
      BY Zenon, <2>1, <2>2, <3>2
    <3> QED
      BY Zenon, <2>4, <2>5, <3>1, <3>3, <3>4 DEF OneReader
  <2> QED
    BY Zenon, <1>1, <2>1, <2>6, Order
<1> HIDE DEF G
<1>11. ASSUME NEW w \in Workers, RetryPump(w) PROVE G
  BY Zenon, <1>3, <1>11 DEF RetryPump, PumpRead, PumpPublish, PumpRemove, redisVars
<1>12. ASSUME (\E e \in Events : Publish(e)) \/ (\E m \in zset : BecomeDue(m)) PROVE G
  BY Zenon, <1>3, <1>12 DEF Publish, BecomeDue
<1>13. G
  BY Zenon, <1>4, <1>5, <1>6, <1>8, <1>9, <1>10, <1>11, <1>12 DEF StreamWorker
<1> QED
  BY Zenon, <1>13 DEF G

\* A step makes no second retry of an entry, except one that schedules it.
LEMMA UntouchedStep ==
    ASSUME TypeInv, OnePump, Next, NEW id, Untouched(id),
           \A w \in Workers : ScheduleRetry(w) => cur[w] # id
    PROVE  Untouched(id)'
<1>1. Grows
  BY Zenon, StreamStep
<1>2. ASSUME NEW j \in Ids', stream'[j].retry > 0 PROVE stream'[j].orig # id
  <2>1. CASE j \in Ids
    BY Zenon, <1>1, <1>2, <2>1 DEF Grows, Untouched, Unrepeated
  <2>2. CASE j \notin Ids
    <3>1. stream'[j].retry # 0
      BY Zenon, <1>2, Order
    <3> QED
      BY Zenon, <2>2, <3>1, AddedRetry DEF OnePump, Untouched
  <2> QED
    BY Zenon, <2>1, <2>2
<1>3. ASSUME NEW m \in zset' PROVE m.orig # id
  <2>1. ASSUME NEW w \in Workers PROVE RetryMember(cur[w]).orig = cur[w]
    BY Zenon DEF RetryMember
  <2> QED
    BY Zenon, <1>3, <2>1, Footprint DEF Untouched, ScheduleRetry, PumpRemove
<1> QED
  BY Zenon, <1>2, <1>3 DEF Untouched, Unrepeated

\* A new entry has no retry yet.
LEMMA NewUntouched ==
    ASSUME TypeInv, Chained, Next, NEW id \in Ids', id \notin Ids
    PROVE  Untouched(id)'
<1>1. Grows
  BY Zenon, StreamStep
<1>2. ASSUME NEW j \in Ids', stream'[j].retry > 0 PROVE stream'[j].orig # id
  <2>1. CASE j \in Ids
    <3>1. stream'[j] = stream[j]
      BY Zenon, <1>1, <2>1 DEF Grows
    <3> QED
      BY Zenon, <1>2, <2>1, <3>1 DEF Chained, Made
  <2>2. CASE j \notin Ids
    <3>1. stream'[j].retry # 0
      BY Zenon, <1>2, Order
    <3>2. PICK w \in Workers : stream'[j] \in members[w]
      BY Zenon, <2>2, <3>1, AddedRetry
    <3>3. \A m \in members[w] : m.orig \in Ids
      BY Zenon DEF Chained, Made
    <3> QED
      BY Zenon, <3>2, <3>3
  <2> QED
    BY Zenon, <2>1, <2>2
<1>3. ASSUME NEW m \in zset' PROVE m.orig # id
  <2>1. ASSUME NEW w \in Workers PROVE RetryMember(cur[w]).orig = cur[w]
    BY Zenon DEF RetryMember
  <2>2. m \in zset => m.orig \in Ids
    BY Zenon DEF Chained, Made
  <2>3. m \in zset \/ \E w \in Workers : cur[w] \in Ids /\ m = RetryMember(cur[w])
    BY Zenon, <1>3, WhoSchedules
  <2>4. m.orig \in Ids
    BY Zenon, <2>1, <2>2, <2>3
  <2> QED
    BY Zenon, <2>4
<1> QED
  BY Zenon, <1>2, <1>3 DEF Untouched, Unrepeated

\* The messages in the hands of the one process are untouched, but for the
\* one that it has scheduled.
LEMMA RetryStep ==
    ASSUME TypeInv, Chained, OneReader, OneRetry, OnePump, OneProcess, ~Disturb, Next,
           \/ \E e \in Events : Publish(e)
           \/ \E m \in zset : BecomeDue(m)
           \/ \E w \in Workers : StreamWorker(w) \/ RetryPump(w)
    PROVE  OneRetry'
<1>1. WorkerType /\ RedisType
  BY Zenon DEF TypeInv, TypeOK
<1>2. lastDelivered \in Nat /\ lastDelivered' \in Nat /\ lastDelivered <= lastDelivered'
  <2>1. RedisType'
    BY Zenon, TypeStep DEF TypeInv, TypeOK
  <2> QED
    BY Zenon, <1>1, <2>1, ReaderStep, Positions, CursorNext
<1>3. \A w \in Workers : cur[w] \in Nat /\ cur[w] <= lastDelivered
  BY <1>1 DEF WorkerType, RedisType, OneReader
<1>4. ASSUME NEW id \in Ids', id > lastDelivered' PROVE Untouched(id)'
  <2>1. CASE id \in Ids
    <3>1. id > lastDelivered /\ \A w \in Workers : cur[w] # id
      BY <1>2, <1>3, <1>4, <2>1 DEF Ids
    <3> QED
      BY Zenon, <2>1, <3>1, UntouchedStep DEF OneRetry
  <2>2. CASE id \notin Ids
    BY Zenon, <2>2, NewUntouched
  <2> QED
    BY Zenon, <2>1, <2>2
<1>5. ASSUME NEW w \in Workers, NEW id \in batch'[w], id # cur'[w] PROVE Untouched(id)'
  <2>1. ASSUME id \in batch[w], id # cur[w] PROVE Untouched(id)'
    BY Zenon, <2>1, UntouchedStep DEF OneRetry, OneProcess
  <2>2. ASSUME UNCHANGED <<batch, cur>> PROVE Untouched(id)'
    BY Zenon, <1>5, <2>1, <2>2
  <2>3. CASE \E v \in Workers : Reclaim(v) \/ ReadGroup(v)
    <3>1. Reclaim(w) \/ ReadGroup(w)
      BY Zenon, <2>3 DEF OneProcess
    <3>2. CASE Reclaim(w)
      <4>1. PICK ids \in FirstOf(idle) : Receive(w, ids)
        BY Zenon, <3>2 DEF Reclaim
      <4>2. id \in ids
        BY Zenon, <1>1, <1>5, <4>1 DEF Receive, WorkerType
      <4> QED
        BY Zenon, <4>1, <4>2 DEF FirstOf, OneReader
    <3>3. CASE ReadGroup(w)
      <4>1. Receive(w, lastDelivered + 1 .. lastDelivered')
        BY Zenon, <3>3 DEF ReadGroup
      <4>2. id \in lastDelivered + 1 .. lastDelivered'
        BY ZenonT(60), <1>1, <1>5, <4>1 DEF Receive, WorkerType
      <4>3. lastDelivered' <= Len(stream)
        BY SMTT(30), <1>1, <3>3 DEF ReadGroup, RedisType
      <4>4. id \in Ids /\ id > lastDelivered /\ \A v \in Workers : cur[v] # id
        BY SMTT(30), <1>1, <1>2, <1>3, <4>2, <4>3 DEF Ids, RedisType
      <4> QED
        BY Zenon, <4>4, UntouchedStep DEF OneRetry
    <3> QED
      BY Zenon, <3>1, <3>2, <3>3
  <2>4. CASE \E v \in Workers : RecordProcessing(v)
    <3>1. RecordProcessing(w)
      BY Zenon, <2>4 DEF OneProcess
    <3>2. batch' = batch /\ cur[w] = 0
      BY Zenon, <3>1 DEF RecordProcessing, OneReader
    <3>3. id \in batch[w] /\ batch[w] \subseteq Ids
      BY Zenon, <1>1, <1>5, <3>2 DEF WorkerType
    <3>4. id # 0
      BY Zenon, <1>1, <3>3, Positions
    <3> QED
      BY Zenon, <2>1, <3>2, <3>3, <3>4
  <2>5. CASE \E v \in Workers : Ack(v)
    <3>1. Ack(w)
      BY Zenon, <2>5 DEF OneProcess
    <3>2. id \in batch[w] \ {cur[w]}
      BY Zenon, <1>1, <1>5, <3>1 DEF Ack, Leave, WorkerType
    <3> QED
      BY Zenon, <2>1, <3>2
  <2>6. CASE \E v \in Workers : \/ Deliver(v) \/ ScheduleRetry(v) \/ RecordRetrying(v) \/ MoveToDLQ(v)
                                \/ RecordDeadLettered(v) \/ RecordDelivered(v)
    <3>1. UNCHANGED <<batch, cur>>
      BY Zenon, <2>6 DEF Deliver, ScheduleRetry, RecordRetrying, MoveToDLQ, RecordDeadLettered,
           RecordDelivered, RecordOutcome, Returns
    <3> QED
      BY Zenon, <2>2, <3>1
  <2>7. CASE \/ \E e \in Events : Publish(e)
             \/ \E m \in zset : BecomeDue(m)
             \/ \E v \in Workers : RetryPump(v)
    <3>1. UNCHANGED <<batch, cur>>
      BY Zenon, <2>7 DEF Publish, BecomeDue, RetryPump, PumpRead, PumpPublish, PumpRemove, workerVars
    <3> QED
      BY Zenon, <2>2, <3>1
  <2> QED
    BY Zenon, <2>3, <2>4, <2>5, <2>6, <2>7 DEF StreamWorker
<1>6. ASSUME NEW w \in Workers, pc'[w] \in {"deliver", "schedule"} PROVE Untouched(cur[w])'
  <2>1. PICK id : id = cur'[w]
    BY Zenon
  <2>2. ASSUME Untouched(id), \A v \in Workers : ~ScheduleRetry(v) PROVE Untouched(cur[w])'
    <3>1. Untouched(id)'
      BY Zenon, <2>2, UntouchedStep
    <3> QED
      BY Zenon, <2>1, <3>1 DEF Untouched, Unrepeated
  <2>3. \A v \in Workers : ~ScheduleRetry(v)
    <3>1. ScheduleRetry(w) => pc'[w] = "retrying"
      BY Zenon, <1>1 DEF ScheduleRetry, Returns, WorkerType
    <3> QED
      BY Zenon, <1>6, <3>1 DEF OneProcess
  <2>4. \/ pc'[w] = pc[w] /\ cur'[w] = cur[w]
        \/ RecordProcessing(w)
        \/ Deliver(w) /\ cur'[w] = cur[w]
    BY Zenon, <1>6, AdvanceStep DEF Advance
  <2>5. CASE RecordProcessing(w)
    <3>1. id \in batch[w] /\ cur[w] = 0 /\ batch[w] \subseteq Ids
      BY Zenon, <1>1, <2>1, <2>5 DEF RecordProcessing, OneReader, WorkerType
    <3>2. id # 0
      BY Zenon, <1>1, <3>1, Positions
    <3> QED
      BY Zenon, <2>2, <2>3, <3>1, <3>2 DEF OneRetry
  <2>6. CASE pc'[w] = pc[w] /\ cur'[w] = cur[w]
    BY Zenon, <1>6, <2>1, <2>2, <2>3, <2>6 DEF OneRetry
  <2>7. CASE Deliver(w) /\ cur'[w] = cur[w]
    BY Zenon, <2>1, <2>2, <2>3, <2>7 DEF OneRetry, Deliver
  <2> QED
    BY Zenon, <2>4, <2>5, <2>6, <2>7
<1> QED
  BY Zenon, <1>4, <1>5, <1>6 DEF OneRetry

\* A retry that the one process adds stands for itself only.
LEMMA RepeatedOnce ==
    ASSUME TypeInv, NEW m \in zset, NEW n \in zset, Chained, m.orig = n.orig
    PROVE  m = n
<1>1. m = RetryMember(m.orig) /\ n = RetryMember(n.orig)
  BY Zenon DEF Chained, Made
<1>2. RetryMember(m.orig) = RetryMember(n.orig)
  BY Zenon
<1> QED
  BY Zenon, <1>1, <1>2

LEMMA PumpStep ==
    ASSUME TypeInv, Chained, OneRetry, OnePump, OneProcess, ~Disturb, Next,
           \/ \E e \in Events : Publish(e)
           \/ \E m \in zset : BecomeDue(m)
           \/ \E w \in Workers : StreamWorker(w) \/ RetryPump(w)
    PROVE  OnePump'
<1>1. PumpType /\ RedisType
  BY Zenon DEF TypeInv, TypeOK
<1>2. ASSUME UNCHANGED <<stream, zset, pumpVars>> PROVE OnePump'
  BY Zenon, <1>2 DEF OnePump, Unrepeated, Ids, pumpVars
<1>3. ASSUME NEW e \in Events, Publish(e) PROVE OnePump'
  <2>1. Grows /\ Len(stream') = Len(stream) + 1 /\ stream'[Len(stream) + 1] = Fresh(e)
    BY Zenon, <1>1, <1>3, GrowsByAppend, FreshIsMessage DEF Publish
  <2>2. \A j \in Ids' : (j \in Ids /\ stream'[j] = stream[j]) \/ stream'[j].retry = 0
    <3>1. \A j \in Ids' : j \in Ids \/ j = Len(stream) + 1
      BY Zenon, <2>1, AppendedEntry
    <3>2. stream'[Len(stream) + 1].retry = 0
      BY Zenon, <2>1, FreshIsMessage
    <3>3. \A j \in Ids : stream'[j] = stream[j]
      BY Zenon, <2>1, GrownEntries
    <3> QED
      BY Zenon, <3>1, <3>2, <3>3
  <2>3. \A j \in Ids' : stream'[j].retry > 0 => j \in Ids /\ stream'[j] = stream[j]
    BY Zenon, <2>2, Order
  <2>4. UNCHANGED <<zset, members, moved>>
    BY Zenon, <1>3 DEF Publish, pumpVars
  <2>5. \A id : Unrepeated(id) => Unrepeated(id)'
    BY Zenon, <2>3 DEF Unrepeated
  <2> QED
    BY Zenon, <2>4, <2>5 DEF OnePump
<1>4. ASSUME NEW w \in Workers, ScheduleRetry(w) PROVE OnePump'
  <2>1. zset' = zset \cup {RetryMember(cur[w])} /\ UNCHANGED <<stream, members, moved>>
    BY Zenon, <1>4 DEF ScheduleRetry, pumpVars
  <2>2. RetryMember(cur[w]).orig = cur[w] /\ Unrepeated(cur[w])
    BY Zenon, <1>4 DEF RetryMember, OneRetry, Untouched, ScheduleRetry
  <2>3. \A v \in Workers : \A m \in zset' : m \in moved'[v] \/ Unrepeated(m.orig)
    BY Zenon, <2>1, <2>2 DEF OnePump
  <2>4. \A v \in Workers : \A m \in zset' : m \in moved'[v] \/ Unrepeated(m.orig)'
    BY Zenon, <2>1, <2>3 DEF Unrepeated, Ids
  <2>5. \A v \in Workers : members'[v] \subseteq zset' /\ members'[v] \cap moved'[v] = {}
    BY Zenon, <2>1 DEF OnePump
  <2> QED
    BY Zenon, <2>4, <2>5 DEF OnePump
<1>5. ASSUME NEW w \in Workers, PumpRead(w) PROVE OnePump'
  <2>1. PICK S \in SUBSET due : members' = [members EXCEPT ![w] = S]
    BY Zenon, <1>5 DEF PumpRead
  <2>2. moved[w] = {} /\ UNCHANGED <<stream, zset, moved>> /\ due \subseteq zset
    BY Zenon, <1>1, <1>5 DEF PumpRead, redisVars, RedisType
  <2>3. members'[w] \subseteq zset' /\ members'[w] \cap moved'[w] = {}
    BY Zenon, <1>1, <2>1, <2>2 DEF PumpType
  <2>4. \A m \in zset' : m \in moved'[w] \/ Unrepeated(m.orig)'
    BY Zenon, <2>2 DEF OnePump, Unrepeated, Ids
  <2> QED
    BY Zenon, <2>3, <2>4 DEF OnePump, OneProcess
<1>6. ASSUME NEW w \in Workers, PumpPublish(w) PROVE OnePump'
  <2>1. PICK m \in members[w] : /\ stream' = Append(stream, m)
                                /\ members' = [members EXCEPT ![w] = @ \ {m}]
                                /\ moved' = [moved EXCEPT ![w] = {m}]
    BY Zenon, <1>6 DEF PumpPublish
  <2>2. moved[w] = {} /\ UNCHANGED zset
    BY Zenon, <1>6 DEF PumpPublish
  <2>3. m \in Message /\ m \in zset
    BY Zenon, <1>1, <2>1 DEF PumpType, OnePump
  <2>4. Grows /\ Len(stream') = Len(stream) + 1 /\ stream'[Len(stream) + 1] = m
    BY Zenon, <1>1, <2>1, <2>3, GrowsByAppend
  <2>5. \A j \in Ids' : (j \in Ids /\ stream'[j] = stream[j]) \/ stream'[j] = m
    <3>1. \A j \in Ids' : j \in Ids \/ j = Len(stream) + 1
      BY Zenon, <2>4, AppendedEntry
    <3> QED
      BY Zenon, <2>4, <3>1 DEF Grows
  <2>6. members'[w] = members[w] \ {m} /\ moved'[w] = {m}
    BY Zenon, <1>1, <2>1 DEF PumpType
  <2>7. ASSUME NEW n \in zset, n # m PROVE Unrepeated(n.orig)'
    <3>1. Unrepeated(n.orig) /\ m.orig # n.orig
      BY Zenon, <2>2, <2>3, <2>7, RepeatedOnce DEF OnePump
    <3> QED
      BY Zenon, <2>5, <3>1 DEF Unrepeated
  <2>8. members'[w] \subseteq zset' /\ members'[w] \cap moved'[w] = {}
    BY Zenon, <2>2, <2>6 DEF OnePump
  <2>9. \A n \in zset' : n \in moved'[w] \/ Unrepeated(n.orig)'
    BY Zenon, <2>2, <2>6, <2>7
  <2> QED
    BY Zenon, <2>8, <2>9 DEF OnePump, OneProcess
<1>7. ASSUME NEW w \in Workers, PumpRemove(w) PROVE OnePump'
  <2>1. /\ zset' = zset \ moved[w] /\ UNCHANGED <<stream, members>>
        /\ moved' = [moved EXCEPT ![w] = {}]
    BY Zenon, <1>7 DEF PumpRemove
  <2>2. moved'[w] = {} /\ members'[w] = members[w]
    BY Zenon, <1>1, <2>1 DEF PumpType
  <2>3. \A m \in zset' : Unrepeated(m.orig)'
    BY Zenon, <2>1 DEF OnePump, Unrepeated, Ids
  <2>4. members'[w] \subseteq zset' /\ members'[w] \cap moved'[w] = {}
    BY Zenon, <2>1, <2>2 DEF OnePump
  <2> QED
    BY Zenon, <2>3, <2>4 DEF OnePump, OneProcess
<1>8. ASSUME NEW w \in Workers, \/ Reclaim(w) \/ ReadGroup(w) \/ RecordProcessing(w) \/ Deliver(w)
                                \/ RecordRetrying(w) \/ MoveToDLQ(w) \/ RecordDeadLettered(w)
                                \/ RecordDelivered(w) \/ Ack(w)
      PROVE  OnePump'
  <2>1. UNCHANGED <<stream, zset, pumpVars>>
    BY Zenon, <1>8 DEF Reclaim, ReadGroup, RecordProcessing, Deliver, RecordRetrying, MoveToDLQ,
         RecordDeadLettered, RecordDelivered, RecordOutcome, Ack, redisVars
  <2> QED
    BY Zenon, <1>2, <2>1
<1>9. ASSUME NEW m \in zset, BecomeDue(m) PROVE OnePump'
  BY Zenon, <1>2, <1>9 DEF BecomeDue
<1> QED
  BY Zenon, <1>3, <1>4, <1>5, <1>6, <1>7, <1>8, <1>9 DEF StreamWorker, RetryPump

\* Two entries for one turn of an event would have come from one member.
LEMMA TurnStep ==
    ASSUME TypeInv, Chained, OneTurn, OnePump, Next,
           NEW i \in Ids', NEW j \in Ids', stream'[i].event = stream'[j].event,
           stream'[i].retry = stream'[j].retry, stream'[i].retry # 0
    PROVE  i = j
<1>1. Grows
  BY Zenon, StreamStep
<1>2. \A id \in Ids : stream'[id] = stream[id]
  BY Zenon, <1>1 DEF Grows
<1>4. ASSUME NEW k \in Ids, NEW n \in Ids', n \notin Ids, stream'[n].retry # 0,
             stream'[k].event = stream'[n].event, stream'[k].retry = stream'[n].retry
      PROVE  FALSE
  <2>1. PICK w \in Workers : stream'[n] \in members[w] /\ PumpPublish(w)
    BY Zenon, <1>4, AddedRetry
  <2>2. PICK m \in members[w] : m = stream'[n]
    BY Zenon, <2>1
  <2>3. m \in zset /\ moved[w] = {} /\ Unrepeated(m.orig) /\ Made(m)
    BY Zenon, <2>1, <2>2 DEF OnePump, PumpPublish, Chained
  <2>4. /\ m.orig \in Ids /\ m.retry = stream[m.orig].retry + 1 /\ m.retry > 0
        /\ m.event = stream[m.orig].event /\ stream[m.orig].retry \in Nat
    BY Zenon, <2>3, MadeIs
  <2>5. stream[k] = stream'[k] /\ stream[k].retry > 0
    BY Zenon, <1>2, <1>4, <2>2, <2>4
  <2>6. PICK o : o = stream[k].orig
    BY Zenon
  <2>7. Made(stream[k])
    BY Zenon, <2>5 DEF Chained
  <2>8. /\ o \in Ids /\ stream[k].retry = stream[o].retry + 1
        /\ stream[k].event = stream[o].event /\ stream[o].retry \in Nat
    BY Zenon, <2>6, <2>7, MadeIs
  <2>9. stream[o].retry = stream[m.orig].retry /\ stream[o].event = stream[m.orig].event
    <3>1. stream[k].retry = m.retry /\ stream[k].event = m.event
      BY Zenon, <1>4, <2>2, <2>5
    <3>2. stream[o].retry + 1 = stream[m.orig].retry + 1
      BY Zenon, <2>4, <2>8, <3>1
    <3>3. stream[o].retry = stream[m.orig].retry
      BY Zenon, <2>4, <2>8, <3>2, Order
    <3> QED
      BY Zenon, <2>4, <2>8, <3>1, <3>3
  <2>10. o = m.orig
    BY Zenon, <2>4, <2>8, <2>9 DEF OneTurn, SameTurn
  <2> QED
    BY Zenon, <2>3, <2>5, <2>6, <2>10 DEF Unrepeated
<1>5. CASE i \in Ids /\ j \in Ids
  BY Zenon, <1>2, <1>5 DEF OneTurn, SameTurn
<1>6. CASE i \notin Ids /\ j \notin Ids
  BY Zenon, <1>6, AddedRetry
<1> QED
  BY Zenon, <1>4, <1>5, <1>6

=============================================================================
