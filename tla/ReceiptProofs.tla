---------------------------- MODULE ReceiptProofs ----------------------------
(***************************************************************************)
(* What the delivery worker and the Receipt Service promise together, for  *)
(* every number of events, workers, retries and lost messages: an event is *)
(* given up only after its whole retry budget (RetryBudgetSpent), a        *)
(* delivered event has its receipt (DeliveredHasReceipt), and a run of the *)
(* service makes at most one for it (OneReceiptPerEvent).                  *)
(*                                                                         *)
(* The invariants are Budgeted, Receipted and Counted of ReceiptDelivery,  *)
(* on top of those of Delivery (DeliveryProofs): every step of the system  *)
(* is a step of Delivery or leaves it alone.                               *)
(***************************************************************************)
EXTENDS ReceiptDelivery, DeliveryProofs

USE DeliveryAssumption

-----------------------------------------------------------------------------
(* The worker and the Receipt Service: what a step of the system is to     *)
(* Delivery, and what an attempt leads to.                                 *)

\* Every step of the system is a step of Delivery, or leaves it alone.
LEMMA StepOfDelivery == [SystemNext]_systemVars => [Next]_vars
<1>1. \A w \in Workers : Attempt(w) => Next
  BY Zenon DEF Attempt, Answered, AnswerLost, RequestLost, AttemptComesTo, Next, StreamWorker
<1>2. (\E id \in late : ArrivesLate(id)) \/ ControlMode \/ RestartService => UNCHANGED vars
  BY Zenon DEF ArrivesLate, ControlMode, RestartService
<1>3. UNCHANGED systemVars => UNCHANGED vars
  BY Zenon DEF systemVars
<1> QED
  BY Zenon, <1>1, <1>2, <1>3 DEF SystemNext, Elsewhere

\* What an entry of the stream is.
LEMMA EntryIs ==
    ASSUME TypeInv, NEW id \in Ids
    PROVE  stream[id] \in Message /\ stream[id].event \in Events /\ stream[id].retry \in 0..MaxRetries
<1>1. stream \in Seq(Message)
  BY Zenon DEF TypeInv, TypeOK, RedisType
<1>2. stream[id] \in Message
  BY <1>1 DEF Ids
<1> QED
  BY Zenon, <1>2 DEF Message

\* A step of the system leaves Delivery alone, is an attempt of a worker, or
\* is another step of Delivery.
LEMMA StepKinds ==
    ASSUME [SystemNext]_systemVars
    PROVE  \/ UNCHANGED vars
           \/ \E v \in Workers : Attempt(v)
           \/ Next /\ ~ \E w \in Workers : Deliver(w)
BY Zenon DEF SystemNext, systemVars, ArrivesLate, ControlMode, RestartService, Elsewhere

LEMMA EntriesKept ==
    ASSUME TypeInv, [SystemNext]_systemVars, NEW id \in Ids
    PROVE  /\ id \in Ids' /\ stream'[id] = stream[id] /\ stream[id] \in Message
           /\ stream[id].event \in Events
<1>1. Grows \/ stream' = stream
  BY Zenon, StepOfDelivery, StreamStep DEF vars, redisVars
<1>2. id \in Ids' /\ stream'[id] = stream[id]
  BY <1>1 DEF Grows, Ids, TypeInv, TypeOK, RedisType
<1> QED
  BY Zenon, <1>2, EntryIs

\* How a worker comes to record a delivery, or to dead-letter a message.
LEMMA OutcomeStep ==
    ASSUME TypeInv, Next, NEW w \in Workers, pc'[w] \in {"delivered", "deadletter", "dead"}
    PROVE  /\ cur'[w] = cur[w]
           /\ \/ pc'[w] = pc[w] \/ Deliver(w)
              \/ pc[w] = "deadletter" /\ pc'[w] = "dead"
<1>1. Advance(w)
  BY Zenon, AdvanceStep
<1> QED
  BY Zenon, <1>1 DEF Advance, MoveToDLQ

\* What a worker takes from its attempt: a delivery from an answer 200, a dead
\* letter from a permanent failure or at the end of the budget.
LEMMA AttemptStep ==
    ASSUME TypeInv, NEW v \in Workers, Attempt(v)
    PROVE  /\ cur' = cur /\ cur[v] \in Ids /\ \A w \in Workers \ {v} : pc'[w] = pc[w]
           /\ pc'[v] = "delivered" => /\ Request(stream[cur[v]].event)
                                      /\ OutcomeOf(stream[cur[v]].event) = "ok"
           /\ pc'[v] = "deadletter" => \/ stream[cur[v]].event \in rejected'
                                       \/ stream[cur[v]].retry = MaxRetries
           /\ pc'[v] # "dead"
<1> DEFINE e == stream[cur[v]].event
           n == stream[cur[v]].retry
<1>1. Deliver(v)
  BY Zenon DEF Attempt, Answered, AnswerLost, RequestLost, AttemptComesTo
<1>2. cur[v] \in Ids /\ WorkerType
  BY Zenon, <1>1 DEF Deliver, TypeInv, TypeOK, WorkerHands, Hand, WorkingPc
<1>3. cur' = cur /\ \A w \in Workers \ {v} : pc'[w] = pc[w]
  BY Zenon, <1>1, <1>2 DEF Deliver, WorkerType
<1>4. n \in 0..MaxRetries
  BY Zenon, <1>2, EntryIs
<1>5. CASE Answered(v)
  <2>1. pc'[v] = AfterAttempt(OutcomeOf(e), n) /\ Request(e)
    BY Zenon, <1>5 DEF Answered, AttemptComesTo
  <2>3. OutcomeOf(e) = "permanent" => e \in rejected'
    BY Zenon, <1>5 DEF Answered
  <2>4. /\ pc'[v] = "delivered" => OutcomeOf(e) = "ok"
        /\ pc'[v] = "deadletter" => OutcomeOf(e) = "permanent" \/ n = MaxRetries
        /\ pc'[v] # "dead"
    BY <1>4, <2>1 DEF AfterAttempt, DecideFailureAction
  <2> QED
    BY Zenon, <1>2, <1>3, <2>1, <2>3, <2>4
<1>6. CASE AnswerLost(v) \/ RequestLost(v)
  <2>1. pc'[v] = AfterAttempt("retryable", n)
    BY Zenon, <1>6 DEF AnswerLost, RequestLost, AttemptComesTo
  <2>2. /\ pc'[v] # "delivered" /\ pc'[v] # "dead"
        /\ pc'[v] = "deadletter" => n = MaxRetries
    BY <1>4, <2>1 DEF AfterAttempt, DecideFailureAction
  <2> QED
    BY Zenon, <1>2, <1>3, <2>2
<1> QED
  BY Zenon, <1>5, <1>6 DEF Attempt

-----------------------------------------------------------------------------
(* The retry budget is spent before an event is given up.                  *)

\* A message that a step adds to the stream is fresh or comes from a pump.
LEMMA NewEntry ==
    ASSUME TypeInv, Next, NEW id \in Ids', id \notin Ids
    PROVE  \/ stream'[id].retry = 0
           \/ \E w \in Workers : stream'[id] \in members[w]
<1>1. stream \in Seq(Message)
  BY Zenon DEF TypeInv, TypeOK, RedisType
<1>2. ASSUME NEW m \in Message, stream' = Append(stream, m) PROVE stream'[id] = m
  BY <1>1, <1>2 DEF Ids
<1>3. ASSUME NEW e \in Events, stream' = Append(stream, Fresh(e)) PROVE stream'[id].retry = 0
  <2>1. Fresh(e) \in Message /\ Fresh(e).retry = 0
    BY DEF Fresh, Message
  <2> QED
    BY Zenon, <1>2, <1>3, <2>1
<1>4. CASE \E e \in Events : Publish(e)
  BY Zenon, <1>3, <1>4 DEF Publish
<1>5. CASE \E w \in Workers : PumpPublish(w)
  BY Zenon, <1>2, <1>5 DEF PumpPublish, TypeInv, TypeOK, PumpType
<1>6. CASE \E r \in Redrives : RedrivePublish(r)
  BY Zenon, <1>3, <1>6 DEF RedrivePublish, TypeInv, TypeOK, TxType
<1>7. CASE stream' = stream
  BY Zenon, <1>7 DEF Ids
<1> QED
  BY Zenon, <1>4, <1>5, <1>6, <1>7, Footprint

\* A member of the retry set was there, or a worker has just scheduled it.
LEMMA NewMember ==
    ASSUME Next, NEW m \in zset', m \notin zset
    PROVE  \E w \in Workers : pc[w] = "schedule" /\ m = RetryMember(cur[w])
<1>1. PICK w \in Workers : ScheduleRetry(w) \/ PumpRemove(w)
  BY Zenon, Footprint
<1> QED
  BY Zenon, <1>1 DEF ScheduleRetry, PumpRemove

\* A pump holds what it held, or what it has just read from the retry set.
LEMMA NewHeld ==
    ASSUME TypeInv, Next, NEW w \in Workers, NEW m \in members'[w], m \notin members[w]
    PROVE  m \in zset
<1>1. due \subseteq zset /\ members \in [Workers -> SUBSET Message]
  BY Zenon DEF TypeInv, TypeOK, RedisType, PumpType
<1>2. PICK v \in Workers : RetryPump(v) \/ PumpFails(v) \/ Stop(v)
  BY Zenon, Footprint DEF pumpVars
<1>3. CASE PumpRead(v)
  BY Zenon, <1>1, <1>3 DEF PumpRead
<1>4. CASE PumpPublish(v) \/ PumpRemove(v) \/ PumpFails(v) \/ Stop(v)
  <2>1. ASSUME NEW k, members' = [members EXCEPT ![v] = @ \ {k}] PROVE FALSE
    BY Zenon, <1>1, <2>1
  <2>2. ASSUME members' = [members EXCEPT ![v] = {}] PROVE FALSE
    BY Zenon, <1>1, <2>2
  <2> QED
    BY Zenon, <1>4, <2>1, <2>2 DEF PumpPublish, PumpRemove, PumpFails, Stop, pumpVars
<1> QED
  BY Zenon, <1>2, <1>3, <1>4 DEF RetryPump

\* What was tried stays tried, and what was climbed to.
LEMMA TriedStep ==
    ASSUME TypeInv, [SystemNext]_systemVars
    PROVE  /\ \A e, n : Tried(e, n) => Tried(e, n)'
           /\ \A m : Climbed(m) => \A n \in 0..MaxRetries : n < m.retry => Tried(m.event, n)'
<1>1. history \subseteq history'
  BY Zenon, StepOfDelivery, Footprint DEF vars, pgVars
<1>2. \A e, n : Tried(e, n) => Tried(e, n)'
  BY Zenon, <1>1, EntriesKept DEF Tried, Row
<1> QED
  BY Zenon, <1>2 DEF Climbed

\* What the worker's own entry adds to the numbers before it.
LEMMA TriedHere ==
    ASSUME TypeInv, Recorded, Budgeted, NEW w \in Workers, pc[w] \in WorkingPc,
           NEW n \in 0..MaxRetries, n <= stream[cur[w]].retry
    PROVE  Tried(stream[cur[w]].event, n)
<1>1. cur[w] \in Ids /\ Row(cur[w], "PROCESSING") \in history
  BY Zenon DEF TypeInv, WorkerHands, Hand, Recorded
<1>2. stream[cur[w]].retry \in 0..MaxRetries
  BY Zenon, <1>1, EntryIs
<1>3. CASE n = stream[cur[w]].retry
  BY Zenon, <1>1, <1>3 DEF Tried
<1>4. CASE n < stream[cur[w]].retry
  BY Zenon, <1>1, <1>4 DEF Budgeted, Climbed
<1> QED
  BY <1>2, <1>3, <1>4

BudgetInv == TypeInv /\ Recorded /\ CopyInv /\ Budgeted

\* Retry numbers are climbed to one by one.
LEMMA ClimbStep ==
    ASSUME BudgetInv, [SystemNext]_systemVars
    PROVE (/\ \A id \in Ids : Climbed(stream[id])
           /\ \A m \in zset : Climbed(m)
           /\ \A w \in Workers : \A m \in members[w] : Climbed(m))'
<1> DEFINE C(m) == \A n \in 0..MaxRetries : n < m.retry => Tried(m.event, n)'
<1>1. TypeInv /\ Recorded /\ Budgeted /\ [Next]_vars
  BY Zenon, StepOfDelivery DEF BudgetInv
<1>2. \A m : Climbed(m) => C(m)
  BY Zenon, <1>1, TriedStep
<1>3. ASSUME NEW m, \/ m \in zset
                    \/ \E w \in Workers : m \in members[w]
                    \/ \E id \in Ids : m = stream[id]
      PROVE  C(m)
  BY Zenon, <1>1, <1>2, <1>3 DEF Budgeted
<1>4. ASSUME NEW id \in Ids', NEW m, m = stream'[id] PROVE C(m)
  <2>1. CASE id \in Ids
    BY Zenon, <1>1, <1>3, <1>4, <2>1, EntriesKept
  <2>2. CASE id \notin Ids
    <3>1. Next
      BY Zenon, <1>1, <1>4, <2>2 DEF vars, redisVars, Ids
    <3>2. CASE stream'[id].retry = 0
      BY <1>4, <3>2
    <3>3. CASE \E w \in Workers : stream'[id] \in members[w]
      BY Zenon, <1>3, <1>4, <3>3
    <3> QED
      BY Zenon, <1>1, <1>4, <2>2, <3>1, <3>2, <3>3, NewEntry
  <2> QED
    BY Zenon, <2>1, <2>2
<1>5. ASSUME NEW m \in zset' PROVE C(m)
  <2>1. CASE m \in zset
    BY Zenon, <1>3, <2>1
  <2>2. CASE m \notin zset
    <3>1. Next
      BY Zenon, <1>1, <1>5, <2>2 DEF vars, redisVars
    <3>2. PICK w \in Workers : pc[w] = "schedule" /\ m = RetryMember(cur[w])
      BY Zenon, <1>5, <2>2, <3>1, NewMember
    <3>3. m.event = stream[cur[w]].event /\ m.retry = stream[cur[w]].retry + 1
      BY Zenon, <3>2 DEF RetryMember
    <3>4. stream[cur[w]].retry \in 0..MaxRetries
      BY Zenon, <1>1, <3>2, EntryIs DEF TypeInv, WorkerHands, Hand, WorkingPc
    <3>5. ASSUME NEW n \in 0..MaxRetries, n < m.retry PROVE Tried(m.event, n)'
      <4>1. n <= stream[cur[w]].retry
        BY <3>3, <3>4, <3>5
      <4>2. Tried(m.event, n)
        BY Zenon, <1>1, <3>2, <3>3, <4>1, TriedHere DEF WorkingPc
      <4> QED
        BY Zenon, <1>1, <4>2, TriedStep
    <3> QED
      BY Zenon, <3>5
  <2> QED
    BY Zenon, <2>1, <2>2
<1>6. ASSUME NEW w \in Workers, NEW m \in members'[w] PROVE C(m)
  <2>1. UNCHANGED vars => members' = members
    BY Zenon DEF vars, pumpVars
  <2>2. m \in members[w] \/ m \in zset
    BY Zenon, <1>1, <1>6, <2>1, NewHeld
  <2> QED
    BY Zenon, <1>3, <2>2
<1> QED
  BY <1>4, <1>5, <1>6 DEF Climbed, Tried

\* A worker dead-letters for a permanent failure, or at the last retry number.
LEMMA GivenUpStep ==
    ASSUME BudgetInv, [SystemNext]_systemVars, NEW w \in Workers, pc'[w] \in {"deadletter", "dead"}
    PROVE  \/ stream'[cur'[w]].event \in rejected'
           \/ stream'[cur'[w]].retry = MaxRetries
<1> DEFINE G == \/ stream'[cur'[w]].event \in rejected'
                \/ stream'[cur'[w]].retry = MaxRetries
<1>1. /\ TypeInv /\ Budgeted
      /\ \A v \in Workers : pc[v] \in WorkingPc => cur[v] \in Ids
  BY Zenon DEF BudgetInv, TypeInv, WorkerHands, Hand
<1>2. rejected \subseteq rejected'
  BY Zenon DEF SystemNext, systemVars, netVars, Attempt, Answered, AnswerLost, RequestLost,
               ArrivesLate, ControlMode, RestartService, Elsewhere
<1>3. CASE pc[w] \in {"deadletter", "dead"} /\ cur'[w] = cur[w]
  <2>1. /\ cur[w] \in Ids
        /\ stream[cur[w]].event \in rejected \/ stream[cur[w]].retry = MaxRetries
    BY Zenon, <1>1, <1>3 DEF Budgeted, WorkingPc
  <2>2. stream'[cur[w]] = stream[cur[w]]
    BY Zenon, <1>1, <2>1, EntriesKept
  <2> QED
    BY Zenon, <1>2, <1>3, <2>1, <2>2
<1>4. CASE UNCHANGED vars
  BY Zenon, <1>3, <1>4 DEF vars, workerVars
<1>5. ASSUME NEW v \in Workers, Attempt(v) PROVE G
  <2>1. CASE v = w
    <3>1. /\ cur'[w] = cur[w] /\ cur[w] \in Ids /\ pc'[w] # "dead"
          /\ pc'[w] = "deadletter" => \/ stream[cur[w]].event \in rejected'
                                      \/ stream[cur[w]].retry = MaxRetries
      BY Zenon, <1>1, <1>5, <2>1, AttemptStep
    <3>2. stream'[cur[w]] = stream[cur[w]]
      BY Zenon, <1>1, <3>1, EntriesKept
    <3> QED
      BY Zenon, <3>1, <3>2
  <2>2. CASE v # w
    BY Zenon, <1>1, <1>3, <1>5, <2>2, AttemptStep
  <2> QED
    BY Zenon, <2>1, <2>2
<1>6. CASE Next /\ ~ \E v \in Workers : Deliver(v)
  BY Zenon, <1>1, <1>3, <1>6, OutcomeStep
<1> QED
  BY Zenon, <1>4, <1>5, <1>6, StepKinds

LEMMA BudgetedStep ==
    ASSUME BudgetInv, [SystemNext]_systemVars
    PROVE  Budgeted'
<1>1. TypeInv /\ Recorded /\ CopyInv /\ Budgeted /\ [Next]_vars
  BY Zenon, StepOfDelivery DEF BudgetInv
<1>2. rejected \subseteq rejected'
  BY Zenon DEF SystemNext, systemVars, netVars, Attempt, Answered, AnswerLost, RequestLost,
               ArrivesLate, ControlMode, RestartService, Elsewhere
<1>3. ASSUME NEW e \in Events \ rejected', dlq'[e] # "none", NEW n \in 0..MaxRetries
      PROVE  Tried(e, n)'
  <2>1. CASE dlq[e] # "none"
    <3>1. RetryBudgetSpent /\ e \in Events \ rejected
      BY Zenon, <1>1, <1>2, <1>3 DEF Budgeted
    <3>2. Tried(e, n)
      BY SMTT(20), <1>3, <2>1, <3>1 DEF RetryBudgetSpent, Tried
    <3> QED
      BY Zenon, <1>1, <3>2, TriedStep
  <2>2. CASE dlq[e] = "none"
    <3>1. Next
      BY Zenon, <1>1, <1>3, <2>2 DEF vars, pgVars
    <3>2. PICK w \in Workers : pc[w] = "dead" /\ stream[cur[w]].event = e
      BY Zenon, <1>1, <1>3, <2>2, <3>1, TableStep
    <3>3. stream[cur[w]].retry = MaxRetries
      BY Zenon, <1>1, <1>2, <1>3, <3>2 DEF Budgeted
    <3>4. n <= stream[cur[w]].retry
      BY <3>3
    <3>5. Tried(e, n)
      BY Zenon, <1>1, <3>2, <3>4, TriedHere DEF WorkingPc
    <3> QED
      BY Zenon, <1>1, <3>5, TriedStep
  <2> QED
    BY Zenon, <2>1, <2>2
<1>4. RetryBudgetSpent'
  BY Zenon, <1>3 DEF RetryBudgetSpent, Tried
<1>5. \A w \in Workers : pc'[w] \in {"deadletter", "dead"} =>
         stream'[cur'[w]].event \in rejected' \/ stream'[cur'[w]].retry = MaxRetries
  BY Zenon, GivenUpStep
<1> QED
  BY Zenon, <1>4, <1>5, ClimbStep DEF Budgeted

\* An event none of whose attempts failed for good is dead-lettered after the
\* whole retry budget, never before: an entry of it with every retry number
\* from 0 to MaxRetries was taken up (DecideFailureAction, scheduleRetry).
THEOREM BudgetIsSpent == SystemSpec => []RetryBudgetSpent
<1>1. SystemInit => BudgetInv
  <2> SUFFICES ASSUME SystemInit PROVE BudgetInv
    BY Zenon
  <2>1. Recorded /\ CopyInv
    BY DEF SystemInit, Init, Recorded, AckedIsRecorded, Ids, WorkingPc, CopyInv, RecordHasCopy
  <2>2. Budgeted
    BY DEF SystemInit, Init, Budgeted, RetryBudgetSpent, Ids
  <2> QED
    BY Zenon, <2>1, <2>2, TypeInit DEF BudgetInv, SystemInit
<1>2. BudgetInv /\ [SystemNext]_systemVars => BudgetInv'
  <2> SUFFICES ASSUME BudgetInv, [SystemNext]_systemVars PROVE BudgetInv'
    BY Zenon
  <2>1. Recorded' /\ CopyInv'
    BY Zenon, StepOfDelivery, RecordInvStep, CopyInvStep DEF BudgetInv, RecordInv
  <2> QED
    BY Zenon, <2>1, BudgetedStep, StepOfDelivery, TypeStep DEF BudgetInv
<1>3. BudgetInv => RetryBudgetSpent
  BY Zenon DEF BudgetInv, Budgeted
<1> QED
  BY <1>1, <1>2, <1>3, PTL DEF SystemSpec

-----------------------------------------------------------------------------
(* The Receipt Service, and the deliveries it has a receipt for.           *)

NetType ==
    /\ Server!ServerType
    /\ late \subseteq Ids
    /\ losses \in 0..MaxFailures /\ restarts \in 0..MaxFailures
    /\ changes \in 0..MaxChanges /\ rejected \subseteq Events

\* A request keeps the server's type, and the receipts of the keys it knows.
LEMMA RequestStep ==
    ASSUME Server!ServerType, \A e \in seenKeys : receipts[e] > 0,
           NEW key \in Events, Request(key)
    PROVE  /\ Server!ServerType'
           /\ \A e \in Events : receipts[e] <= receipts'[e]
           /\ \A e \in seenKeys' : receipts'[e] > 0
<1> USE DEF Server!ServerType
<1>1. CASE Server!ReceiptFails /\ total' = total + 1
  BY SMTT(30), <1>1, ReceiptAssumption DEF Server!ReceiptFails
<1>2. CASE Server!ReceiptRepeats(key) /\ total' = total + 1
  BY <1>2 DEF Server!ReceiptRepeats
<1>3. CASE Server!RecordFailure
  BY <1>3 DEF Server!RecordFailure
<1>4. CASE Server!ReceiptCreated(key) /\ total' = total + 1
  BY <1>4 DEF Server!ReceiptCreated
<1> QED
  BY ZenonT(60), <1>1, <1>2, <1>3, <1>4
     DEF Request, Server!HandleReceipts, Server!ApplyReceipt

ServerInv == TypeInv /\ NetType /\ \A e \in seenKeys : receipts[e] > 0

\* What a step does to the service: it handles a request for an event, or is
\* restarted, or its mode changes, or nothing happens to it.
LEMMA ServerStep ==
    ASSUME ServerInv, [SystemNext]_systemVars
    PROVE  /\ NetType'
           /\ \A e \in Events : receipts[e] <= receipts'[e]
           /\ \A e \in seenKeys' : receipts'[e] > 0
<1> DEFINE G == /\ Server!ServerType'
                /\ \A e \in Events : receipts[e] <= receipts'[e]
                /\ \A e \in seenKeys' : receipts'[e] > 0
           N == /\ losses' \in 0..MaxFailures /\ restarts' \in 0..MaxFailures
                /\ changes' \in 0..MaxChanges /\ rejected' \subseteq Events
<1>1. /\ TypeInv /\ NetType /\ \A e \in seenKeys : receipts[e] > 0
      /\ Server!ServerType
  BY Zenon DEF ServerInv, NetType
<1>2. Grows \/ stream' = stream
  BY Zenon, <1>1, StepOfDelivery, StreamStep DEF vars, redisVars
<1>3. \A id \in Ids : stream[id].event \in Events
  BY Zenon, <1>1, EntryIs
<1>4. ASSUME UNCHANGED serverVars PROVE G
  BY <1>1, <1>4 DEF serverVars, Server!ServerType
<1>5. ASSUME NEW id \in Ids, Request(stream[id].event) PROVE G
  BY ZenonT(60), <1>1, <1>3, <1>5, RequestStep
<1>6. ASSUME NEW w \in Workers, Attempt(w) PROVE cur[w] \in Ids
  BY Zenon, <1>1, <1>6 DEF Attempt, TypeInv, WorkerHands, Hand, WorkingPc
<1>7. ASSUME NEW w \in Workers, Attempt(w) PROVE G
  <2>1. CASE Answered(w) \/ AnswerLost(w)
    BY ZenonT(60), <1>5, <1>6, <1>7, <2>1 DEF Answered, AnswerLost
  <2>2. CASE RequestLost(w)
    BY ZenonT(60), <1>4, <2>2 DEF RequestLost
  <2> QED
    BY Zenon, <1>7, <2>1, <2>2 DEF Attempt
<1>8. ASSUME NEW w \in Workers, Attempt(w) PROVE N
  BY SMTT(30), <1>1, <1>3, <1>6, <1>8, ReceiptAssumption
     DEF Attempt, Answered, AnswerLost, RequestLost, Lose, CanFail, NetType
<1>9. ASSUME NEW id \in late, ArrivesLate(id) PROVE G /\ N
  BY Zenon, <1>1, <1>5, <1>9 DEF ArrivesLate, NetType
<1>10. ASSUME ControlMode PROVE G /\ N
  <2>1. G
    BY SMTT(30), <1>1, <1>10 DEF ControlMode, Server!HandleControlMode, Server!stats, Server!ServerType
  <2>2. N
    BY SMTT(30), <1>1, <1>10, ReceiptAssumption DEF ControlMode, NetType
  <2> QED
    BY Zenon, <2>1, <2>2
<1>11. ASSUME RestartService PROVE G /\ N
  <2>1. G
    BY SMTT(30), <1>1, <1>11, ReceiptAssumption
       DEF RestartService, Server!Restart, Server!ServerType, Server!Modes
  <2>2. N
    BY SMTT(30), <1>1, <1>11, ReceiptAssumption DEF RestartService, CanFail, NetType
  <2> QED
    BY Zenon, <2>1, <2>2
<1>12. ASSUME Elsewhere \/ UNCHANGED systemVars PROVE G /\ N
  <2> HIDE DEF G
  <2> QED
    BY Zenon, <1>1, <1>4, <1>12 DEF Elsewhere, systemVars, netVars, NetType
<1>13. G /\ N
  <2> HIDE DEF G, N
  <2> QED
    BY ZenonT(60), <1>7, <1>8, <1>9, <1>10, <1>11, <1>12 DEF SystemNext
<1>14. late' \subseteq Ids'
  <2>1. Ids \subseteq Ids'
    BY <1>2 DEF Grows, Ids, TypeInv, TypeOK, RedisType
  <2>2. \/ late' \subseteq late
        \/ \E w \in Workers : Attempt(w) /\ late' \subseteq late \cup {cur[w]}
    BY Zenon DEF SystemNext, systemVars, netVars, Attempt, Answered, AnswerLost, RequestLost,
                 ArrivesLate, ControlMode, RestartService, Elsewhere
  <2> QED
    BY ZenonT(60), <1>1, <1>6, <2>1, <2>2 DEF NetType
<1> QED
  BY Zenon, <1>13, <1>14 DEF NetType

\* The system's steps keep the invariants of Delivery.
LEMMA ServerInvStep == ServerInv /\ [SystemNext]_systemVars => ServerInv'
<1> SUFFICES ASSUME ServerInv, [SystemNext]_systemVars PROVE ServerInv'
  BY Zenon
<1> QED
  BY Zenon, ServerStep, StepOfDelivery, TypeStep DEF ServerInv

LEMMA ServerInit == SystemInit => ServerInv
<1> SUFFICES ASSUME SystemInit PROVE ServerInv
  BY Zenon
<1>1. TypeInv
  BY Zenon, TypeInit DEF SystemInit
<1> QED
  BY <1>1, ReceiptAssumption
     DEF SystemInit, Server!Init, ServerInv, NetType, Server!ServerType, Server!Modes

\* A row DELIVERED is written by a worker that was answered 200.
LEMMA DeliveredStep ==
    ASSUME Next, NEW id, Row(id, "DELIVERED") \in history'
    PROVE  \/ Row(id, "DELIVERED") \in history
           \/ \E w \in Workers : pc[w] = "delivered" /\ id = cur[w]
<1> DEFINE G == \/ Row(id, "DELIVERED") \in history
                \/ \E w \in Workers : pc[w] = "delivered" /\ id = cur[w]
<1> USE DEF pgVars
<1>1. ASSUME history' = history PROVE G
  BY Zenon, <1>1
<1>2. ASSUME NEW v \in Workers, StreamWorker(v) PROVE G
  <2>1. CASE Reclaim(v) \/ ReadGroup(v) \/ Deliver(v) \/ ScheduleRetry(v) \/ MoveToDLQ(v) \/ Ack(v)
    BY ZenonT(60), <1>1, <2>1 DEF Reclaim, ReadGroup, Deliver, ScheduleRetry, MoveToDLQ, Ack
  <2>2. CASE RecordProcessing(v)
    <3>1. PICK j : history' = history \cup {Row(j, "PROCESSING")}
      BY Zenon, <2>2 DEF RecordProcessing
    <3> QED
      BY Zenon, <3>1 DEF Row
  <2>3. CASE RecordRetrying(v) \/ RecordDelivered(v) \/ RecordDeadLettered(v)
    <3>1. PICK s : history' = history \cup {Row(cur[v], s)} /\ (s = "DELIVERED" => pc[v] = "delivered")
      BY SMTT(20), <2>3 DEF RecordRetrying, RecordDelivered, RecordDeadLettered, RecordOutcome
    <3> QED
      BY ZenonT(60), <3>1 DEF Row
  <2> QED
    BY ZenonT(60), <1>2, <2>1, <2>2, <2>3 DEF StreamWorker
<1>3. ASSUME NEW v \in Workers, RetryPump(v) \/ Start(v) \/ PollFails(v) \/ RecordProcessingFails(v)
                                \/ CallFails(v) \/ PumpFails(v) \/ Stop(v)
      PROVE  G
  BY ZenonT(60), <1>1, <1>3 DEF RetryPump, PumpRead, PumpPublish, PumpRemove, Start, PollFails,
       RecordProcessingFails, CallFails, PumpFails, Stop
<1>4. ASSUME \/ \E e \in Events : Publish(e)
             \/ \E j \in pel : BecomeIdle(j)
             \/ \E m \in zset : BecomeDue(m)
             \/ \E j \in 0..Len(stream) : SetGroupCursor(j)
      PROVE  G
  BY Zenon, <1>1, <1>4 DEF Publish, BecomeIdle, BecomeDue, SetGroupCursor
<1>5. ASSUME NEW r \in Redrives, (\E e \in Events : RedriveLock(r, e)) \/ RedrivePublish(r) \/ RedriveAbort(r)
      PROVE  G
  BY Zenon, <1>1, <1>5 DEF RedriveLock, RedrivePublish, RedriveAbort
<1>6. ASSUME NEW r \in Redrives, RedriveCommit(r) PROVE G
  <2>1. history' = history \cup {Row(rpub[r], "REDRIVEN")}
    BY Zenon, <1>6 DEF RedriveCommit
  <2> QED
    BY Zenon, <2>1 DEF Row
<1>7. G
  <2> HIDE DEF G
  <2> QED
    BY ZenonT(60), <1>2, <1>3, <1>4, <1>5, <1>6 DEF Next, Redrive
<1> QED
  BY Zenon, <1>7

\* A request that is answered 200 leaves its key with the service.
LEMMA AnsweredOk ==
    ASSUME NEW e, Server!ServerType, Request(e), OutcomeOf(e) = "ok"
    PROVE  e \in seenKeys'
<1>1. Server!ReceiptStatus \in {200, 400, 500}
  BY DEF Server!ReceiptStatus
<1>2. e \in ValidBody /\ Server!ReceiptStatus = 200
  BY <1>1 DEF OutcomeOf
<1>3. ~Server!Failing
  BY <1>2 DEF Server!ReceiptStatus, Server!Failing, Server!ServerType, Server!Modes
<1> QED
  BY Zenon, <1>2, <1>3 DEF Request, Server!HandleReceipts, Server!ApplyReceipt, Server!ReceiptFails,
       Server!ReceiptRepeats, Server!ReceiptCreated

LEMMA ReceiptedStep ==
    ASSUME ServerInv, Receipted, [SystemNext]_systemVars
    PROVE  Receipted'
<1>1. /\ TypeInv /\ Server!ServerType /\ [Next]_vars
      /\ \A w \in Workers : pc[w] \in WorkingPc => cur[w] \in Ids
  BY Zenon, StepOfDelivery DEF ServerInv, NetType, TypeInv, WorkerHands, Hand
<1>2. \A e \in seenKeys' : receipts'[e] > 0
  BY Zenon, ServerStep
<1>3. ASSUME NEW e \in Events, receipts[e] > 0 PROVE receipts'[e] > 0
  <2>1. receipts \in [Events -> Nat] /\ receipts' \in [Events -> Nat] /\ receipts[e] <= receipts'[e]
    BY Zenon, ServerStep, ServerInvStep DEF ServerInv, NetType, Server!ServerType
  <2> QED
    BY <1>3, <2>1
<1>4. ASSUME NEW w \in Workers, pc[w] = "delivered"
      PROVE  cur[w] \in Ids /\ receipts'[stream[cur[w]].event] > 0
  BY Zenon, <1>1, <1>3, <1>4, EntriesKept DEF Receipted, WorkingPc
<1>5. ASSUME NEW w \in Workers, pc'[w] = "delivered"
      PROVE  receipts'[stream'[cur'[w]].event] > 0
  <2>1. CASE pc[w] = "delivered" /\ cur'[w] = cur[w]
    BY Zenon, <1>1, <1>4, <2>1, EntriesKept
  <2>2. CASE UNCHANGED vars
    BY Zenon, <1>5, <2>1, <2>2 DEF vars, workerVars
  <2>3. ASSUME NEW v \in Workers, Attempt(v) PROVE receipts'[stream'[cur'[w]].event] > 0
    <3>1. CASE v = w
      <4>1. cur'[w] \in Ids /\ stream[cur'[w]].event \in seenKeys'
        BY ZenonT(60), <1>1, <1>5, <2>3, <3>1, AttemptStep, AnsweredOk
      <4> QED
        BY Zenon, <1>1, <1>2, <4>1, EntriesKept
    <3>2. CASE v # w
      BY ZenonT(60), <1>1, <1>5, <2>1, <2>3, <3>2, AttemptStep
    <3> QED
      BY Zenon, <3>1, <3>2
  <2>4. CASE Next /\ ~ \E v \in Workers : Deliver(v)
    BY ZenonT(60), <1>1, <1>5, <2>1, <2>4, OutcomeStep
  <2> QED
    BY ZenonT(60), <2>2, <2>3, <2>4, StepKinds
<1>6. ASSUME NEW e \in Events, NEW id \in Ids', stream'[id].event = e, Row(id, "DELIVERED") \in history'
      PROVE  receipts'[e] > 0
  <2>1. CASE Row(id, "DELIVERED") \in history
    <3>1. id \in Ids
      BY Zenon, <1>1, <2>1 DEF Row, TypeInv, TypeOK, PgType
    <3> QED
      BY ZenonT(60), <1>1, <1>3, <1>6, <2>1, <3>1, EntriesKept DEF Receipted, DeliveredHasReceipt, Delivered
  <2>2. CASE \E w \in Workers : pc[w] = "delivered" /\ id = cur[w]
    BY ZenonT(60), <1>1, <1>4, <1>6, <2>2, EntriesKept
  <2>3. UNCHANGED vars => history' = history
    BY Zenon DEF vars, pgVars
  <2> QED
    BY ZenonT(60), <1>1, <1>6, <2>1, <2>2, <2>3, DeliveredStep
<1>7. DeliveredHasReceipt'
  BY Zenon, <1>6 DEF DeliveredHasReceipt, Delivered, Row
<1> QED
  BY Zenon, <1>2, <1>5, <1>7 DEF Receipted

\* A DELIVERED row is never written for an event that the Receipt Service has
\* not made a receipt for, whatever became of requests and answers.
THEOREM DeliveriesHaveReceipts == SystemSpec => []DeliveredHasReceipt
<1>1. SystemInit => Receipted
  BY Zenon DEF SystemInit, Server!Init, Init, Receipted, DeliveredHasReceipt, Delivered
<1>2. Receipted => DeliveredHasReceipt
  BY Zenon DEF Receipted
<1>3. ServerInv /\ Receipted /\ [SystemNext]_systemVars => Receipted'
  BY Zenon, ReceiptedStep
<1> QED
  BY <1>1, <1>2, <1>3, ServerInit, ServerInvStep, PTL DEF SystemSpec

-----------------------------------------------------------------------------
(* At most one receipt for an event, and counters that add up.             *)

\* What the service's set of keys counts, empty and with a key more.
Sizes ==
    /\ IsFiniteSet({}) /\ Cardinality({}) = 0
    /\ IsFiniteSet(seenKeys) => \A key \in Events \ seenKeys :
         /\ IsFiniteSet(seenKeys \cup {key})
         /\ Cardinality(seenKeys \cup {key}) = Cardinality(seenKeys) + 1

LEMMA CountInit ==
    ASSUME Sizes, SystemInit
    PROVE  Counted
BY DEF Sizes, SystemInit, Server!Init, Counted

LEMMA CountStep ==
    ASSUME Sizes, ServerInv, Counted, [SystemNext]_systemVars
    PROVE  Counted'
<1>1. /\ TypeInv /\ NetType /\ Server!ServerType
      /\ \A w \in Workers : pc[w] \in WorkingPc => cur[w] \in Ids
  BY Zenon DEF ServerInv, NetType, TypeInv, WorkerHands, Hand
<1>2. restarts \in Nat
  BY <1>1, ReceiptAssumption DEF NetType
<1>3. ASSUME UNCHANGED <<serverVars, restarts>> PROVE Counted'
  BY Zenon, <1>3 DEF serverVars, Counted
<1>4. ASSUME NEW id \in Ids, Request(stream[id].event), restarts' = restarts PROVE Counted'
  <2> DEFINE key == stream[id].event
  <2>1. key \in Events
    BY Zenon, <1>1, EntriesKept
  <2>2. /\ total + 1 = (successful + 1) + duplicates + failed
        /\ total + 1 = successful + (duplicates + 1) + failed
        /\ total + 1 = successful + duplicates + (failed + 1)
    <3>1. /\ total \in Nat /\ successful \in Nat /\ duplicates \in Nat /\ failed \in Nat
          /\ total = successful + duplicates + failed
      BY Zenon, <1>1 DEF Counted, Server!ServerType
    <3> QED
      BY <3>1
  <2>3. ASSUME UNCHANGED <<seenKeys, successful, receipts>>, total' = total + 1,
               \/ duplicates' = duplicates + 1 /\ failed' = failed
               \/ duplicates' = duplicates /\ failed' = failed + 1
        PROVE  Counted'
    BY Zenon, <1>4, <2>2, <2>3 DEF Counted
  <2>4. CASE (Server!ReceiptFails \/ Server!ReceiptRepeats(key)) /\ total' = total + 1
    BY Zenon, <2>3, <2>4 DEF Server!ReceiptFails, Server!ReceiptRepeats
  <2>5. CASE Server!RecordFailure
    BY Zenon, <2>3, <2>5 DEF Server!RecordFailure
  <2>6. CASE Server!ReceiptCreated(key) /\ total' = total + 1
    <3>1. /\ seenKeys' = seenKeys \cup {key} /\ key \notin seenKeys
          /\ successful' = successful + 1 /\ duplicates' = duplicates /\ failed' = failed
          /\ receipts' = [receipts EXCEPT ![key] = @ + 1]
      BY Zenon, <2>6 DEF Server!ReceiptCreated
    <3>2. /\ IsFiniteSet(seenKeys')
          /\ Cardinality(seenKeys') = Cardinality(seenKeys) + 1
      BY Zenon, <2>1, <3>1 DEF Counted, Sizes
    <3>3. receipts \in [Events -> Nat] /\ receipts[key] <= 0 + restarts
      BY Zenon, <1>1, <2>1, <3>1 DEF Server!ServerType, Counted
    <3>4. receipts'[key] = receipts[key] + 1 /\ receipts[key] \in Nat
      BY ZenonT(60), <2>1, <3>1, <3>3
    <3>5. receipts'[key] <= 1 + restarts
      BY SMTT(30), <1>2, <3>3, <3>4
    <3>6. ASSUME NEW e \in Events
          PROVE  receipts'[e] <= (IF e \in seenKeys' THEN 1 ELSE 0) + restarts'
      <4>1. CASE e = key
        BY ZenonT(60), <1>4, <3>1, <3>5, <4>1
      <4>2. CASE e # key
        <5>1. receipts'[e] = receipts[e] /\ (e \in seenKeys' <=> e \in seenKeys)
          BY Zenon, <3>1, <3>3, <4>2
        <5> QED
          BY Zenon, <1>4, <5>1 DEF Counted
      <4> QED
        BY Zenon, <4>1, <4>2
    <3> QED
      BY ZenonT(60), <2>2, <2>6, <3>1, <3>2, <3>6 DEF Counted
  <2> QED
    BY Zenon, <1>4, <2>4, <2>5, <2>6 DEF Request, Server!HandleReceipts, Server!ApplyReceipt
<1>5. ASSUME NEW w \in Workers, Attempt(w) PROVE Counted'
  BY Zenon, <1>1, <1>3, <1>4, <1>5 DEF Attempt, Answered, AnswerLost, RequestLost, WorkingPc
<1>6. ASSUME NEW id \in late, ArrivesLate(id) PROVE Counted'
  BY Zenon, <1>1, <1>4, <1>6 DEF ArrivesLate, NetType
<1>7. CASE ControlMode
  BY Zenon, <1>7 DEF ControlMode, Server!HandleControlMode, Server!stats, Counted
<1>8. CASE RestartService
  <2>1. IsFiniteSet({}) /\ Cardinality({}) = 0
    BY Zenon DEF Sizes
  <2>2. /\ seenKeys' = {} /\ receipts' = receipts /\ restarts' = restarts + 1
        /\ total' = 0 /\ successful' = 0 /\ duplicates' = 0 /\ failed' = 0
    BY Zenon, <1>8 DEF RestartService, Server!Restart
  <2>3. 0 = 0 + 0 + 0
    OBVIOUS
  <2>4. ASSUME NEW e \in Events PROVE receipts[e] <= 0 + (restarts + 1)
    <3>1. receipts[e] \in Nat /\ receipts[e] <= (IF e \in seenKeys THEN 1 ELSE 0) + restarts
      BY Zenon, <1>1, <2>4 DEF Counted, Server!ServerType
    <3> QED
      BY <1>2, <3>1
  <2> QED
    BY ZenonT(60), <2>1, <2>2, <2>3, <2>4 DEF Counted
<1>9. CASE Elsewhere \/ UNCHANGED systemVars
  BY ZenonT(60), <1>3, <1>9 DEF Elsewhere, systemVars, netVars
<1> QED
  BY ZenonT(60), <1>5, <1>6, <1>7, <1>8, <1>9 DEF SystemNext

LEMMA CountedIsEnough == ServerInv /\ Counted => OneReceiptPerEvent
BY ReceiptAssumption DEF ServerInv, TypeInv, NetType, Counted, OneReceiptPerEvent, SystemTypeOK,
     Server!ServerType

INSTANCE FiniteSetTheorems

\* However often an event is attempted (retries, reclaims after a crash,
\* redrives, late arrivals of requests given up), a run of the Receipt
\* Service makes at most one receipt for it, and its counters add up.
THEOREM ReceiptsAreUnique == SystemSpec => []OneReceiptPerEvent
<1>1. Sizes
  BY ZenonT(60), FS_EmptySet, FS_AddElement DEF Sizes
<1>2. SystemInit => Counted
  BY ZenonT(60), <1>1, CountInit
<1>3. ServerInv /\ Counted /\ [SystemNext]_systemVars => Counted'
  BY ZenonT(60), <1>1, CountStep
<1> QED
  BY <1>2, <1>3, ServerInit, ServerInvStep, CountedIsEnough, PTL DEF SystemSpec
=============================================================================
