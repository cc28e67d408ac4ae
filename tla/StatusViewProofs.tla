-------------------------- MODULE StatusViewProofs --------------------------
(***************************************************************************)
(* Proofs about StatusView, for any number of workers, redrives and        *)
(* entries: what a reader shows explains itself (OutcomesShowAttempts), no *)
(* snapshot is refused (SnapshotAccepted), and when all is quiet the       *)
(* newest row is an outcome (SettledShowsOutcome).                         *)
(*                                                                         *)
(* Times says that no two transactions share a created_at, so that the     *)
(* newest row exists and is one; Recorded and Reading, what the committed  *)
(* rows and those already read say of the statements still to come;        *)
(* Followed, that a row which is not an outcome is followed by one, or by  *)
(* work that will add it.                                                  *)
(***************************************************************************)
EXTENDS StatusView, FiniteSetTheorems, WellFoundedInduction, TLAPS

USE StatusViewAssumption

WorkerPcs == {"idle", "processing", "attempt", "scheduled", "ack"} \cup Outcomes
PublisherPcs == {"idle", "lock", "send", "commit", "done"}
Records == {"none", "OPEN", "REDRIVEN"}

\* The types of what the writers share.
StoreType ==
    /\ clock \in Nat
    /\ history \subseteq Rows
    /\ attempts \subseteq Nat
    /\ record \in Records
    /\ added \in 0..MaxEntries
    /\ todo \subseteq 1..added
    /\ pc \in [Actors -> WorkerPcs \cup PublisherPcs]
    /\ \A w \in Workers : pc[w] \in WorkerPcs
    /\ \A p \in Publishers : pc[p] \in PublisherPcs
    /\ began \in [Actors -> Nat]
    /\ cur \in [Workers -> 0..added]
    /\ faults \in 0..MaxFaults

\* The rows of the ingestion transaction.
FirstRows == { [at |-> 0, n |-> 1, status |-> "STORED"],
               [at |-> 0, n |-> 2, status |-> "PENDING_PUBLICATION"] }

InTransaction == {"processing", "lock", "send", "commit"} \cup Outcomes

\* Every transaction has a time of its own, and one row at most.
Times ==
    /\ FirstRows \subseteq history
    /\ \A a \in history : a.at <= clock
    /\ \A a, b \in history : a.at = b.at /\ a.n = b.n => a = b
    /\ \A x \in Actors : began[x] <= clock
    /\ \A x, y \in Actors : began[x] > 0 /\ began[x] = began[y] => x = y
    /\ \A x \in Actors : \A a \in history : began[x] > 0 => a.at # began[x]
    /\ \A x \in Actors : pc[x] \in InTransaction => began[x] > 0

Entered(rows) == \E a \in rows : a.status \in {"DEAD_LETTERED", "REDRIVEN"}

\* rows tell how the record came to its state.
Explained(state, rows) ==
    /\ state = "OPEN" => \E a \in rows : a.status = "DEAD_LETTERED"
    /\ state = "REDRIVEN" => \E a \in rows : a.status = "REDRIVEN"

\* What is committed together.
Recorded ==
    /\ \A a \in history : a.status \in Outcomes => a.at \in attempts
    /\ Explained(record, history)
    /\ Entered(history) => record # "none"

StoreInv == StoreType /\ Times /\ Recorded

\* What the reader has, and what is still true of it.
Reading ==
    /\ rpc \in {"idle", "attempts", "status", "explain", "detailHistory", "detailAttempts", "detail"}
    /\ view \in [history : SUBSET history, attempts : SUBSET attempts, record : Records]
    /\ rpc \notin {"idle", "detailHistory"} => FirstRows \subseteq view.history
    /\ rpc \in {"status", "explain", "detail"} =>
        \A a \in view.history : a.status \in Outcomes => a.at \in view.attempts
    /\ rpc \in {"detailHistory", "detailAttempts", "detail"} => view.record # "none"
    /\ rpc = "detailHistory" => Explained(view.record, history)
    /\ rpc \in {"detailAttempts", "detail"} => Explained(view.record, view.history)
    /\ rpc = "explain" /\ Entered(view.history) => view.record # "none"

ViewInv == StoreInv /\ Reading

-----------------------------------------------------------------------------
\* What a crash of w leaves to others: its entry, unless there is no crash.
Safe(w) ==
    \/ faults = MaxFaults
    \/ cur[w] \in todo /\ \A v \in Workers \ {w} : cur[v] # cur[w]

\* w will add an outcome that is newer than t.
Busy(w, t) ==
    \/ pc[w] \in {"processing", "attempt", "scheduled"}
    \/ pc[w] \in Outcomes /\ began[w] > t

\* There is an outcome newer than t, or there will be one.
Covered(t) ==
    \/ \E a \in history : a.status \in Outcomes /\ a.at > t
    \/ \E n \in todo : ~ Held(n)
    \/ \E w \in Workers : Busy(w, t)

\* t is, or may become, the time of a row that an outcome is to follow.
Awaited(t) ==
    \/ \E a \in history : a.at > 0 /\ a.status \notin Outcomes /\ a.at = t
    \/ \E p \in Publishers : pc[p] = "commit" /\ began[p] = t

Followed ==
    /\ \A w \in Workers : pc[w] = "idle" => cur[w] = 0
    /\ \A w \in Workers : pc[w] # "idle" => Safe(w)
    /\ \A t \in Nat : Awaited(t) => Covered(t)
    /\ pc[Outbox] = "done" => \E a \in history : a.at > 0

-----------------------------------------------------------------------------
(* The pieces actions are made of.                                         *)

\* Goto moves one actor.
LEMMA Moved ==
    ASSUME StoreType, NEW x \in Actors, NEW s, Goto(x, s),
           x \in Workers => s \in WorkerPcs, x \in Publishers => s \in PublisherPcs
    PROVE  /\ pc' \in [Actors -> WorkerPcs \cup PublisherPcs]
           /\ \A w \in Workers : pc'[w] \in WorkerPcs
           /\ \A p \in Publishers : pc'[p] \in PublisherPcs
           /\ pc'[x] = s
           /\ \A y \in Actors \ {x} : pc'[y] = pc[y]
<1>1. s \in WorkerPcs \cup PublisherPcs
  BY Zenon DEF Actors
<1>2. pc' = [pc EXCEPT ![x] = s] /\ pc \in [Actors -> WorkerPcs \cup PublisherPcs]
  BY Zenon DEF StoreType, Goto
<1>3. pc' \in [Actors -> WorkerPcs \cup PublisherPcs]
  BY Zenon, <1>1, <1>2
<1>4. pc'[x] = s /\ \A y \in Actors \ {x} : pc'[y] = pc[y]
  BY Zenon, <1>2
<1>5. \A w \in Workers : pc'[w] \in WorkerPcs
  BY Zenon, <1>4 DEF StoreType, Actors
<1>6. \A p \in Publishers : pc'[p] \in PublisherPcs
  BY Zenon, <1>4 DEF StoreType, Actors
<1> QED
  BY Zenon, <1>3, <1>4, <1>5, <1>6

\* Begin takes the next time.
LEMMA Begun ==
    ASSUME StoreType, NEW x \in Actors, Begin(x)
    PROVE  /\ clock' = clock + 1 /\ clock' \in Nat
           /\ began' \in [Actors -> Nat]
           /\ began'[x] = clock + 1
           /\ \A y \in Actors \ {x} : began'[y] = began[y]
<1>1. clock' = clock + 1 /\ clock + 1 \in Nat
  BY DEF StoreType, Begin
<1>2. began' = [began EXCEPT ![x] = clock + 1] /\ began \in [Actors -> Nat]
  BY Zenon DEF StoreType, Begin
<1> QED
  BY Zenon, <1>1, <1>2

LEMMA Ended ==
    ASSUME StoreType, NEW x \in Actors, End(x)
    PROVE  /\ began' \in [Actors -> Nat]
           /\ began'[x] = 0
           /\ \A y \in Actors \ {x} : began'[y] = began[y]
<1>1. began' = [began EXCEPT ![x] = 0] /\ began \in [Actors -> Nat]
  BY Zenon DEF StoreType, End
<1> QED
  BY Zenon, <1>1

LEMMA Added ==
    ASSUME StoreType, AddEntry
    PROVE  /\ added' \in 0..MaxEntries
           /\ todo' \subseteq 1..added'
           /\ cur \in [Workers -> 0..added']
           /\ \A w \in Workers : cur[w] # added + 1
           /\ added + 1 \in todo'
           /\ todo \subseteq todo'
<1>1. added \in 0..MaxEntries /\ added < MaxEntries /\ added' = added + 1
  BY Zenon DEF StoreType, AddEntry
<1>2. added' \in 0..MaxEntries
  BY <1>1
<1>3. todo \subseteq 1..added /\ todo' = todo \cup {added + 1}
  BY Zenon DEF StoreType, AddEntry
<1>4. todo' \subseteq 1..added'
  BY <1>1, <1>3
<1>5. cur \in [Workers -> 0..added]
  BY Zenon DEF StoreType
<1>6. 0..added \subseteq 0..added' /\ added + 1 \notin 0..added
  BY <1>1
<1>7. \A w \in Workers : cur[w] \in 0..added
  BY Zenon, <1>5
<1>8. cur \in [Workers -> 0..added']
  BY Zenon, <1>5, <1>6, <1>7
<1> QED
  BY Zenon, <1>2, <1>3, <1>4, <1>6, <1>7, <1>8

-----------------------------------------------------------------------------
(* Times.                                                                  *)

\* A new transaction is later than everything.
LEMMA BeginTimes ==
    ASSUME StoreType, Times, NEW x \in Actors, Begin(x), history' = history,
           \A y \in Actors \ {x} : pc'[y] = pc[y]
    PROVE  Times'
<1> USE DEF Times
<1>1. clock' = clock + 1 /\ clock \in Nat /\ began \in [Actors -> Nat] /\ began'[x] = clock + 1
  BY Zenon, Begun DEF StoreType
<1>2. \A y \in Actors \ {x} : began'[y] = began[y] /\ began[y] \in Nat
  BY Zenon, Begun DEF StoreType
<1>3. \A a \in history : a.at \in Nat /\ a.at <= clock
  BY Zenon DEF StoreType, Rows
<1>4. FirstRows \subseteq history'
  BY Zenon
<1>5. (\A a \in history : a.at <= clock)'
  BY <1>1, <1>3
<1>6. (\A a, b \in history : a.at = b.at /\ a.n = b.n => a = b)'
  BY Zenon
<1>7. (\A y \in Actors : began[y] <= clock)'
  BY <1>1, <1>2
<1>8. \A y \in Actors \ {x} : began'[y] # clock + 1
  BY <1>1, <1>2
<1>9. (\A y, z \in Actors : began[y] > 0 /\ began[y] = began[z] => y = z)'
  BY Zenon, <1>1, <1>2, <1>8
<1>10. (\A y \in Actors : \A a \in history : began[y] > 0 => a.at # began[y])'
  BY <1>1, <1>2, <1>3
<1>11. (\A y \in Actors : pc[y] \in InTransaction => began[y] > 0)'
  BY <1>1, <1>2 DEF InTransaction
<1>12. (FirstRows \subseteq history)'
  BY Zenon, <1>4 DEF FirstRows
<1> QED
  BY Zenon, <1>5, <1>6, <1>7, <1>9, <1>10, <1>11, <1>12

\* A COMMIT turns the time of the transaction into that of its row.
LEMMA CommitTimes ==
    ASSUME StoreType, Times, NEW x \in Actors, NEW s \in Statuses, pc[x] \in InTransaction,
           history' = history \cup {RowOf(x, s)}, End(x), clock' = clock,
           pc'[x] \notin InTransaction, \A y \in Actors \ {x} : pc'[y] = pc[y]
    PROVE  /\ Times' /\ history' \subseteq Rows
           /\ RowOf(x, s) \in history' /\ RowOf(x, s).at = began[x]
           /\ RowOf(x, s).status = s /\ began[x] > 0
<1> DEFINE row == RowOf(x, s)
<1>1. began[x] \in Nat /\ began[x] > 0 /\ began[x] <= clock /\ clock \in Nat
  BY Zenon DEF StoreType, Times
<1>2. row \in Rows /\ row.at = began[x] /\ row.n = 1 /\ row.status = s
  BY Zenon, <1>1 DEF RowOf, Rows
<1>3. history' \subseteq Rows /\ row \in history'
  BY Zenon, <1>2 DEF StoreType
<1>4. began'[x] = 0 /\ \A y \in Actors \ {x} : began'[y] = began[y] /\ began[y] \in Nat
  BY Zenon, Ended DEF StoreType
<1> HIDE DEF row
<1>5. \A a \in history : a.at # row.at
  BY Zenon, <1>1, <1>2 DEF Times
<1>6. \A y \in Actors \ {x} : began[y] > 0 => began[y] # row.at
  BY Zenon, <1>1, <1>2 DEF Times
<1>7. history' = history \cup {row}
  BY Zenon DEF row
<1>8. (FirstRows \subseteq history)'
  BY Zenon, <1>7 DEF Times, FirstRows
<1>9. (\A a \in history : a.at <= clock)'
  BY Zenon, <1>1, <1>2, <1>7 DEF Times
<1>10. (\A a, b \in history : a.at = b.at /\ a.n = b.n => a = b)'
  BY Zenon, <1>5, <1>7 DEF Times
<1>11. (\A y \in Actors : began[y] <= clock)'
  BY <1>1, <1>4 DEF Times
<1>12. ~(0 > 0)
  OBVIOUS
<1>13. (\A y, z \in Actors : began[y] > 0 /\ began[y] = began[z] => y = z)'
  BY <1>4, <1>12 DEF Times
<1>14. (\A y \in Actors : \A a \in history : began[y] > 0 => a.at # began[y])'
  BY Zenon, <1>4, <1>6, <1>7, <1>12 DEF Times
<1>15. (\A y \in Actors : pc[y] \in InTransaction => began[y] > 0)'
  BY Zenon, <1>4 DEF Times, InTransaction
<1>16. Times'
  BY Zenon, <1>8, <1>9, <1>10, <1>11, <1>13, <1>14, <1>15 DEF Times
<1> QED
  BY Zenon, <1>1, <1>2, <1>3, <1>16 DEF row

\* A rollback gives its time back to nobody.
LEMMA AbortTimes ==
    ASSUME StoreType, Times, NEW x \in Actors, history' = history, End(x), clock' = clock,
           pc'[x] \notin InTransaction, \A y \in Actors \ {x} : pc'[y] = pc[y]
    PROVE  Times'
<1>1. began'[x] = 0 /\ \A y \in Actors \ {x} : began'[y] = began[y]
  BY Zenon, Ended
<1>2. ~(0 > 0) /\ 0 <= clock
  BY DEF StoreType
<1>3. (FirstRows \subseteq history)'
  BY Zenon DEF Times, FirstRows
<1>4. (\A y \in Actors : began[y] <= clock)'
  BY Zenon, <1>1, <1>2 DEF Times
<1>5. (\A y, z \in Actors : began[y] > 0 /\ began[y] = began[z] => y = z)'
  BY ZenonT(60), <1>1, <1>2 DEF Times
<1>6. (\A y \in Actors : \A a \in history : began[y] > 0 => a.at # began[y])'
  BY Zenon, <1>1, <1>2 DEF Times
<1>7. (\A y \in Actors : pc[y] \in InTransaction => began[y] > 0)'
  BY Zenon, <1>1 DEF Times, InTransaction
<1> QED
  BY Zenon, <1>3, <1>4, <1>5, <1>6, <1>7 DEF Times

\* Steps inside a transaction, and steps outside of one.
LEMMA SameTimes ==
    ASSUME StoreType, Times, NEW x \in Actors,
           history' = history, began' = began, clock' = clock,
           pc'[x] \in InTransaction => pc[x] \in InTransaction,
           \A y \in Actors \ {x} : pc'[y] = pc[y]
    PROVE  Times'
<1>1. (\A y \in Actors : pc[y] \in InTransaction => began[y] > 0)'
  BY Zenon DEF Times, InTransaction
<1>2. (FirstRows \subseteq history)'
  BY Zenon DEF Times, FirstRows
<1> QED
  BY Zenon, <1>1, <1>2 DEF Times

-----------------------------------------------------------------------------
(* The writers' steps keep what the store promises.                        *)

LEMMA InWorkers ==
    ASSUME NEW w \in Workers
    PROVE  w \in Actors /\ w \notin Publishers
  BY Zenon DEF Actors

LEMMA InPublishers ==
    ASSUME NEW p \in Publishers
    PROVE  p \in Actors /\ p \notin Workers
  BY Zenon DEF Actors

\* Only a COMMIT changes what is recorded.
LEMMA SameRecorded ==
    ASSUME Recorded, UNCHANGED <<history, attempts, record>>
    PROVE  Recorded'
  BY Zenon DEF Recorded, Explained, Entered

LEMMA PublishBeginStore ==
    ASSUME StoreInv, NEW p \in Publishers, PublishBegin(p)
    PROVE  StoreInv'
<1> USE DEF StoreInv
<1> DEFINE s == IF p = Outbox THEN "send" ELSE "lock"
<1>1. Goto(p, s) /\ Begin(p) /\ UNCHANGED <<history, attempts, record, added, todo, cur, faults>>
  BY Zenon DEF PublishBegin
<1>2. s \in PublisherPcs
  BY Zenon DEF PublisherPcs
<1> HIDE DEF s
<1>3. StoreType'
  BY Zenon, <1>1, <1>2, Moved, Begun, InPublishers DEF StoreType
<1>4. Times'
  BY Zenon, <1>1, <1>2, Moved, BeginTimes, InPublishers
<1> QED
  BY Zenon, <1>1, <1>3, <1>4, SameRecorded

LEMMA RedriveLockStore ==
    ASSUME StoreInv, NEW r \in Redrives, RedriveLock(r)
    PROVE  StoreInv'
<1> USE DEF StoreInv
<1>0. r \in Publishers /\ r \in Actors /\ r \notin Workers /\ pc[r] = "lock"
  BY Zenon, InPublishers DEF Publishers, RedriveLock
<1>1. UNCHANGED <<clock, history, attempts, record, added, todo, cur, faults>>
  BY Zenon DEF RedriveLock
<1>2. CASE Goto(r, "send") /\ UNCHANGED began
  <2>1. "send" \in PublisherPcs /\ "lock" \in InTransaction
    BY Zenon DEF PublisherPcs, InTransaction
  <2>2. StoreType'
    BY Zenon, <1>0, <1>1, <1>2, <2>1, Moved DEF StoreType
  <2>3. Times'
    BY Zenon, <1>0, <1>1, <1>2, <2>1, Moved, SameTimes
  <2> QED
    BY Zenon, <1>1, <2>2, <2>3, SameRecorded
<1>3. CASE Goto(r, "done") /\ End(r)
  <2>1. "done" \in PublisherPcs /\ "done" \notin InTransaction
    BY Zenon DEF PublisherPcs, InTransaction, Outcomes
  <2>2. StoreType'
    BY Zenon, <1>0, <1>1, <1>3, <2>1, Moved, Ended DEF StoreType
  <2>3. Times'
    BY Zenon, <1>0, <1>1, <1>3, <2>1, Moved, AbortTimes
  <2> QED
    BY Zenon, <1>1, <2>2, <2>3, SameRecorded
<1> QED
  BY Zenon, <1>2, <1>3 DEF RedriveLock

LEMMA SendStore ==
    ASSUME StoreInv, NEW p \in Publishers, Send(p)
    PROVE  StoreInv'
<1> USE DEF StoreInv
<1>1. Goto(p, "commit") /\ AddEntry /\ pc[p] = "send"
      /\ UNCHANGED <<clock, history, attempts, record, began, cur, faults>>
  BY Zenon DEF Send
<1>2. "commit" \in PublisherPcs /\ "send" \in InTransaction
  BY Zenon DEF PublisherPcs, InTransaction
<1>3. StoreType'
  BY Zenon, <1>1, <1>2, Moved, Added, InPublishers DEF StoreType
<1>4. Times'
  BY Zenon, <1>1, <1>2, Moved, SameTimes, InPublishers
<1> QED
  BY Zenon, <1>1, <1>3, <1>4, SameRecorded

\* A REDRIVEN row and the state of the record are one transaction.
LEMMA PublishCommitStore ==
    ASSUME StoreInv, NEW p \in Publishers, PublishCommit(p)
    PROVE  StoreInv'
<1> USE DEF StoreInv
<1> DEFINE s == IF p = Outbox THEN "PUBLISHED" ELSE "REDRIVEN"
<1>1. /\ Goto(p, "done") /\ End(p) /\ pc[p] = "commit"
      /\ history' = history \cup {RowOf(p, s)}
      /\ record' = IF p = Outbox THEN record ELSE "REDRIVEN"
      /\ UNCHANGED <<clock, attempts, added, todo, cur, faults>>
  BY Zenon DEF PublishCommit
<1>2. s \in Statuses /\ s \notin Outcomes
  BY Zenon DEF Statuses, Outcomes
<1>3. "done" \in PublisherPcs /\ "done" \notin InTransaction /\ "commit" \in InTransaction
  BY Zenon DEF PublisherPcs, InTransaction, Outcomes
<1> HIDE DEF s
<1>4. /\ Times' /\ history' \subseteq Rows
      /\ RowOf(p, s) \in history' /\ RowOf(p, s).status = s
  BY <1>1, <1>2, <1>3, Moved, CommitTimes, InPublishers
<1>5. record' \in Records
  BY Zenon, <1>1 DEF StoreType, Records
<1>6. StoreType'
  BY Zenon, <1>1, <1>3, <1>4, <1>5, Moved, Ended, InPublishers DEF StoreType
<1>7. (\A a \in history : a.status \in Outcomes => a.at \in attempts)'
  BY Zenon, <1>1, <1>2, <1>4 DEF Recorded
<1>8. CASE p = Outbox
  <2>1. s = "PUBLISHED" /\ record' = record
    BY Zenon, <1>1, <1>8 DEF s
  <2>2. Explained(record, history)'
    BY Zenon, <2>1, <1>1 DEF Recorded, Explained
  <2>3. (Entered(history) => record # "none")'
    BY Zenon, <2>1, <1>1, <1>4 DEF Recorded, Entered
  <2> QED
    BY Zenon, <1>4, <1>6, <1>7, <2>2, <2>3 DEF Recorded
<1>9. CASE p # Outbox
  <2>1. s = "REDRIVEN" /\ record' = "REDRIVEN"
    BY Zenon, <1>1, <1>9 DEF s
  <2>2. Explained(record, history)'
    BY Zenon, <2>1, <1>4 DEF Explained
  <2> QED
    BY Zenon, <1>4, <1>6, <1>7, <2>1, <2>2 DEF Recorded
<1> QED
  BY Zenon, <1>8, <1>9

LEMMA PublishRollbackStore ==
    ASSUME StoreInv, NEW p \in Publishers, PublishRollback(p)
    PROVE  StoreInv'
<1> USE DEF StoreInv
<1> DEFINE s == IF p = Outbox THEN "idle" ELSE "done"
<1>1. /\ Goto(p, s) /\ End(p) /\ Fault
      /\ UNCHANGED <<clock, history, attempts, record, added, todo, cur>>
  BY Zenon DEF PublishRollback
<1>2. s \in PublisherPcs /\ s \notin InTransaction
  BY Zenon DEF PublisherPcs, InTransaction, Outcomes
<1> HIDE DEF s
<1>3. faults' \in 0..MaxFaults
  BY <1>1 DEF Fault, StoreType
<1>4. StoreType'
  BY Zenon, <1>1, <1>2, <1>3, Moved, Ended, InPublishers DEF StoreType
<1>5. Times'
  BY Zenon, <1>1, <1>2, Moved, AbortTimes, InPublishers
<1> QED
  BY Zenon, <1>1, <1>4, <1>5, SameRecorded

LEMMA TakeStore ==
    ASSUME StoreInv, NEW w \in Workers, Take(w)
    PROVE  StoreInv'
<1> USE DEF StoreInv
<1>1. Goto(w, "processing") /\ Begin(w) /\ UNCHANGED <<history, attempts, record, added, todo>>
  BY Zenon DEF Take
<1>2. PICK n \in todo :
        /\ cur' = [cur EXCEPT ![w] = n]
        /\ IF Held(n) THEN Fault ELSE UNCHANGED faults
  BY Zenon DEF Take
<1>3. "processing" \in WorkerPcs
  BY Zenon DEF WorkerPcs
<1>4. faults' \in 0..MaxFaults
  BY <1>2 DEF Fault, StoreType
<1>5. added \in Nat /\ todo \subseteq 1..added /\ cur \in [Workers -> 0..added]
  BY DEF StoreType
<1>6. n \in 0..added
  BY <1>5
<1>7. cur' \in [Workers -> 0..added']
  BY Zenon, <1>1, <1>2, <1>5, <1>6
<1>8. StoreType'
  BY Zenon, <1>1, <1>3, <1>4, <1>7, Moved, Begun, InWorkers DEF StoreType
<1>9. Times'
  BY Zenon, <1>1, <1>3, Moved, BeginTimes, InWorkers
<1> QED
  BY Zenon, <1>1, <1>8, <1>9, SameRecorded

LEMMA RecordProcessingStore ==
    ASSUME StoreInv, NEW w \in Workers, RecordProcessing(w)
    PROVE  StoreInv'
<1> USE DEF StoreInv
<1>1. /\ Goto(w, "attempt") /\ End(w) /\ pc[w] = "processing"
      /\ history' = history \cup {RowOf(w, "PROCESSING")}
      /\ UNCHANGED <<clock, attempts, record, added, todo, cur, faults>>
  BY Zenon DEF RecordProcessing
<1>2. "PROCESSING" \in Statuses /\ "PROCESSING" \notin Outcomes
  BY Zenon DEF Statuses, Outcomes
<1>3. "attempt" \in WorkerPcs /\ "attempt" \notin InTransaction /\ "processing" \in InTransaction
  BY Zenon DEF WorkerPcs, InTransaction, Outcomes
<1>4. Times' /\ history' \subseteq Rows /\ RowOf(w, "PROCESSING").status = "PROCESSING"
  BY <1>1, <1>2, <1>3, Moved, CommitTimes, InWorkers
<1>5. StoreType'
  BY Zenon, <1>1, <1>3, <1>4, Moved, Ended, InWorkers DEF StoreType
<1>6. (\A a \in history : a.status \in Outcomes => a.at \in attempts)'
  BY Zenon, <1>1, <1>2, <1>4 DEF Recorded
<1>7. Explained(record, history)'
  BY Zenon, <1>1 DEF Recorded, Explained
<1>8. (Entered(history) => record # "none")'
  BY Zenon, <1>1, <1>4 DEF Recorded, Entered
<1> QED
  BY Zenon, <1>4, <1>5, <1>6, <1>7, <1>8 DEF Recorded

LEMMA AttemptStore ==
    ASSUME StoreInv, NEW w \in Workers, Attempt(w) \/ BeginRetrying(w)
    PROVE  StoreInv'
<1> USE DEF StoreInv
<1>1. Begin(w) /\ UNCHANGED <<history, attempts, record, added, todo, cur, faults>>
  BY Zenon DEF Attempt, BeginRetrying
<1>2. PICK s \in Outcomes : Goto(w, s)
  BY Zenon DEF Attempt, BeginRetrying, Outcomes
<1>3. s \in WorkerPcs
  BY Zenon DEF WorkerPcs
<1>4. StoreType'
  BY Zenon, <1>1, <1>2, <1>3, Moved, Begun, InWorkers DEF StoreType
<1>5. Times'
  BY Zenon, <1>1, <1>2, <1>3, Moved, BeginTimes, InWorkers
<1> QED
  BY Zenon, <1>1, <1>4, <1>5, SameRecorded

LEMMA ScheduleRetryStore ==
    ASSUME StoreInv, NEW w \in Workers, ScheduleRetry(w)
    PROVE  StoreInv'
<1> USE DEF StoreInv
<1>1. Goto(w, "scheduled") /\ AddEntry
      /\ UNCHANGED <<clock, history, attempts, record, began, cur, faults>>
  BY Zenon DEF ScheduleRetry
<1>2. "scheduled" \in WorkerPcs /\ "scheduled" \notin InTransaction
  BY Zenon DEF WorkerPcs, InTransaction, Outcomes
<1>3. StoreType'
  BY Zenon, <1>1, <1>2, Moved, Added, InWorkers DEF StoreType
<1>4. Times'
  BY Zenon, <1>1, <1>2, Moved, SameTimes, InWorkers
<1> QED
  BY Zenon, <1>1, <1>3, <1>4, SameRecorded

\* The attempt, the record and the row of an outcome are one transaction.
LEMMA RecordOutcomeStore ==
    ASSUME StoreInv, NEW w \in Workers, RecordOutcome(w)
    PROVE  StoreInv'
<1> USE DEF StoreInv
<1> DEFINE s == pc[w]
<1>1. /\ Goto(w, "ack") /\ End(w) /\ s \in Outcomes
      /\ attempts' = attempts \cup {began[w]}
      /\ record' = IF s = "DEAD_LETTERED" THEN "OPEN" ELSE record
      /\ history' = history \cup {RowOf(w, s)}
      /\ UNCHANGED <<clock, added, todo, cur, faults>>
  BY Zenon DEF RecordOutcome
<1>2. s \in Statuses /\ s # "REDRIVEN"
  BY Zenon, <1>1 DEF Statuses, Outcomes
<1>3. "ack" \in WorkerPcs /\ "ack" \notin InTransaction /\ s \in InTransaction
  BY Zenon, <1>1 DEF WorkerPcs, InTransaction, Outcomes
<1>4. /\ Times' /\ history' \subseteq Rows
      /\ RowOf(w, s) \in history' /\ RowOf(w, s).at = began[w] /\ RowOf(w, s).status = s
  BY <1>1, <1>2, <1>3, Moved, CommitTimes, InWorkers
<1>5. attempts' \subseteq Nat /\ record' \in Records
  BY Zenon, <1>1, InWorkers DEF StoreType, Records
<1>6. StoreType'
  BY Zenon, <1>1, <1>3, <1>4, <1>5, Moved, Ended, InWorkers DEF StoreType
<1> HIDE DEF s
<1>7. (\A a \in history : a.status \in Outcomes => a.at \in attempts)'
  BY Zenon, <1>1, <1>4 DEF Recorded
<1>8. CASE s = "DEAD_LETTERED"
  <2>1. Explained(record, history)'
    BY Zenon, <1>1, <1>4, <1>8 DEF Explained
  <2> QED
    BY Zenon, <1>1, <1>4, <1>6, <1>7, <1>8, <2>1 DEF Recorded
<1>9. CASE s # "DEAD_LETTERED"
  <2>1. Explained(record, history)'
    BY Zenon, <1>1, <1>9 DEF Recorded, Explained
  <2>2. (Entered(history) => record # "none")'
    BY Zenon, <1>1, <1>2, <1>4, <1>9 DEF Recorded, Entered
  <2> QED
    BY Zenon, <1>4, <1>6, <1>7, <2>1, <2>2 DEF Recorded
<1> QED
  BY Zenon, <1>8, <1>9

LEMMA LeaveStore ==
    ASSUME StoreInv, NEW w \in Workers, Ack(w) \/ Crash(w)
    PROVE  StoreInv'
<1> USE DEF StoreInv
<1>1. Goto(w, "idle") /\ cur' = [cur EXCEPT ![w] = 0]
      /\ UNCHANGED <<clock, history, attempts, record, added>>
  BY Zenon DEF Ack, Crash, Leave
<1>2. "idle" \in WorkerPcs /\ "idle" \notin InTransaction
  BY Zenon DEF WorkerPcs, InTransaction, Outcomes
<1>3. cur' \in [Workers -> 0..added']
  BY <1>1 DEF StoreType
<1>4. CASE Ack(w)
  <2>1. todo' \subseteq todo /\ UNCHANGED <<began, faults>>
    BY Zenon, <1>4 DEF Ack
  <2>2. StoreType'
    BY Zenon, <1>1, <1>2, <1>3, <2>1, Moved, InWorkers DEF StoreType
  <2>3. Times'
    BY Zenon, <1>1, <1>2, <2>1, Moved, SameTimes, InWorkers
  <2> QED
    BY Zenon, <1>1, <2>2, <2>3, SameRecorded
<1>5. CASE Crash(w)
  <2>1. End(w) /\ Fault /\ todo' = todo
    BY Zenon, <1>5 DEF Crash
  <2>2. faults' \in 0..MaxFaults
    BY <2>1 DEF Fault, StoreType
  <2>3. StoreType'
    BY Zenon, <1>1, <1>2, <1>3, <2>1, <2>2, Moved, Ended, InWorkers DEF StoreType
  <2>4. Times'
    BY Zenon, <1>1, <1>2, <2>1, Moved, AbortTimes, InWorkers
  <2> QED
    BY Zenon, <1>1, <2>3, <2>4, SameRecorded
<1> QED
  BY Zenon, <1>4, <1>5

LEMMA StoreUnchanged ==
    ASSUME StoreInv, UNCHANGED Store
    PROVE  StoreInv'
<1>1. UNCHANGED <<clock, history, attempts, record, added, todo, pc, began, cur, faults>>
  BY Zenon DEF Store
<1>2. StoreType'
  BY Zenon, <1>1 DEF StoreInv, StoreType
<1>3. Times'
  BY Zenon, <1>1 DEF StoreInv, Times, FirstRows
<1> QED
  BY Zenon, <1>1, <1>2, <1>3, SameRecorded DEF StoreInv

\* The steps of the workers and of the publishers.
Writes ==
    \/ \E w \in Workers : WorkerStep(w) \/ Crash(w)
    \/ \E p \in Publishers : PublisherStep(p) \/ PublishRollback(p)
    \/ \E r \in Redrives : RedriveLock(r)

LEMMA WritesStore ==
    ASSUME StoreInv, Writes
    PROVE  StoreInv'
<1>1. ASSUME NEW w \in Workers, WorkerStep(w) \/ Crash(w) PROVE StoreInv'
  BY Zenon, <1>1, TakeStore, RecordProcessingStore, AttemptStore, ScheduleRetryStore, RecordOutcomeStore,
     LeaveStore DEF WorkerStep
<1>2. ASSUME NEW p \in Publishers, PublisherStep(p) \/ PublishRollback(p) PROVE StoreInv'
  BY Zenon, <1>2, PublishBeginStore, SendStore, PublishCommitStore, PublishRollbackStore DEF PublisherStep
<1>3. ASSUME NEW r \in Redrives, RedriveLock(r) PROVE StoreInv'
  BY Zenon, <1>3, RedriveLockStore
<1> QED
  BY Zenon, <1>1, <1>2, <1>3 DEF Writes

LEMMA StoreStart == Init => StoreInv
<1> SUFFICES ASSUME Init PROVE StoreInv
  BY Zenon
<1>1. clock = 0 /\ history = FirstRows /\ attempts = {} /\ record = "none" /\ added = 0 /\ todo = {}
  BY Zenon DEF Init, FirstRows
<1>2. /\ pc = [a \in Actors |-> "idle"] /\ began = [a \in Actors |-> 0]
      /\ cur = [w \in Workers |-> 0] /\ faults = 0
  BY Zenon DEF Init
<1>3. history \subseteq Rows
  BY <1>1 DEF FirstRows, Rows, Statuses
<1>4. "idle" \in WorkerPcs /\ "idle" \in PublisherPcs /\ "idle" \notin InTransaction
  BY Zenon DEF WorkerPcs, PublisherPcs, InTransaction, Outcomes
<1>5. StoreType
  <2>1. pc \in [Actors -> WorkerPcs \cup PublisherPcs] /\ \A a \in Actors : pc[a] = "idle"
    BY Zenon, <1>2, <1>4
  <2>2. began \in [Actors -> Nat] /\ cur \in [Workers -> 0..added] /\ faults \in 0..MaxFaults
        /\ added \in 0..MaxEntries /\ todo \subseteq 1..added
    BY <1>1, <1>2
  <2>3. record \in Records
    BY Zenon, <1>1 DEF Records
  <2> QED
    BY Zenon, <1>1, <1>3, <1>4, <2>1, <2>2, <2>3 DEF StoreType, Actors
<1>6. Times
  <2>1. \A a \in history : a.at = 0
    BY <1>1 DEF FirstRows
  <2>2. \A a, b \in history : a.at = b.at /\ a.n = b.n => a = b
    BY <1>1 DEF FirstRows
  <2>3. \A x \in Actors : began[x] = 0 /\ pc[x] = "idle"
    BY Zenon, <1>2
  <2> QED
    BY <1>1, <1>4, <2>1, <2>2, <2>3 DEF Times
<1>7. Recorded
  <2>1. \A a \in history : a.status \notin Outcomes \cup {"REDRIVEN"}
    BY <1>1 DEF FirstRows, Outcomes
  <2> QED
    BY Zenon, <1>1, <2>1 DEF Recorded, Explained, Entered, Outcomes
<1> QED
  BY Zenon, <1>5, <1>6, <1>7 DEF StoreInv

-----------------------------------------------------------------------------
(* The reader.                                                             *)

\* What is committed is never taken back, and what was read is still true.
LEMMA WritesGrow ==
    ASSUME Writes
    PROVE  history \subseteq history' /\ attempts \subseteq attempts' /\ UNCHANGED <<rpc, view>>
<1>1. ASSUME NEW w \in Workers, WorkerStep(w) \/ Crash(w)
      PROVE  history \subseteq history' /\ attempts \subseteq attempts' /\ UNCHANGED <<rpc, view>>
  BY Zenon, <1>1 DEF WorkerStep, Take, RecordProcessing, Attempt, ScheduleRetry, BeginRetrying,
              RecordOutcome, Ack, Crash, Reader
<1>2. ASSUME NEW p \in Publishers, PublisherStep(p) \/ PublishRollback(p)
      PROVE  history \subseteq history' /\ attempts \subseteq attempts' /\ UNCHANGED <<rpc, view>>
  BY Zenon, <1>2 DEF PublisherStep, PublishBegin, Send, PublishCommit, PublishRollback, Reader
<1>3. ASSUME NEW r \in Redrives, RedriveLock(r)
      PROVE  history \subseteq history' /\ attempts \subseteq attempts' /\ UNCHANGED <<rpc, view>>
  BY Zenon, <1>3 DEF RedriveLock, Reader
<1> QED
  BY Zenon, <1>1, <1>2, <1>3 DEF Writes

LEMMA WritesReading ==
    ASSUME Reading, history \subseteq history', attempts \subseteq attempts', UNCHANGED <<rpc, view>>
    PROVE  Reading'
<1>1. view' \in [history : SUBSET history', attempts : SUBSET attempts', record : Records]
  BY Zenon DEF Reading
<1>2. (rpc = "detailHistory" => Explained(view.record, history))'
  BY Zenon DEF Reading, Explained
<1>3. (rpc \in {"detailAttempts", "detail"} => Explained(view.record, view.history))'
  BY Zenon DEF Reading, Explained
<1>4. (rpc = "explain" /\ Entered(view.history) => view.record # "none")'
  BY Zenon DEF Reading, Entered
<1> QED
  BY Zenon, <1>1, <1>2, <1>3, <1>4 DEF Reading, FirstRows

\* A statement replaces one part of the view.
LEMMA ViewParts ==
    ASSUME Reading, NEW v, NEW next
    PROVE  /\ Read("history", v, next) => view'.history = v /\ view'.attempts = view.attempts /\ view'.record = view.record
           /\ Read("attempts", v, next) => view'.history = view.history /\ view'.attempts = v /\ view'.record = view.record
           /\ Read("record", v, next) => view'.history = view.history /\ view'.attempts = view.attempts /\ view'.record = v
<1>1. view \in [history : SUBSET history, attempts : SUBSET attempts, record : Records]
  BY Zenon DEF Reading
<1> QED
  BY Zenon, <1>1 DEF Read

LEMMA ReadTyped ==
    ASSUME Reading, StoreInv, NEW next,
           Read("history", history, next) \/ Read("attempts", attempts, next) \/ Read("record", record, next)
    PROVE  /\ view' \in [history : SUBSET history', attempts : SUBSET attempts', record : Records]
           /\ rpc' = next /\ history' = history /\ attempts' = attempts
<1>1. view \in [history : SUBSET history, attempts : SUBSET attempts, record : Records]
  BY Zenon DEF Reading
<1>2. record \in Records
  BY Zenon DEF StoreInv, StoreType
<1>3. rpc' = next /\ history' = history /\ attempts' = attempts
  BY Zenon DEF Read, Store
<1>4. CASE Read("history", history, next)
  <2>1. view' = [view EXCEPT !["history"] = history]
    BY Zenon, <1>4 DEF Read
  <2> QED
    BY Zenon, <1>1, <1>3, <2>1
<1>5. CASE Read("attempts", attempts, next)
  <2>1. view' = [view EXCEPT !["attempts"] = attempts]
    BY Zenon, <1>5 DEF Read
  <2> QED
    BY Zenon, <1>1, <1>3, <2>1
<1>6. CASE Read("record", record, next)
  <2>1. view' = [view EXCEPT !["record"] = record]
    BY Zenon, <1>6 DEF Read
  <2> QED
    BY Zenon, <1>1, <1>2, <1>3, <2>1
<1> QED
  BY Zenon, <1>4, <1>5, <1>6

\* Each statement finds what the earlier ones promise to the answer.
LEMMA ReaderReading ==
    ASSUME ViewInv, ReaderStep
    PROVE  Reading'
<1> USE DEF ViewInv
<1>0. FirstRows \subseteq history /\ FirstRows' = FirstRows
  BY Zenon DEF StoreInv, Times, FirstRows
<1>1. CASE rpc = "idle" /\ Read("history", history, "attempts")
  BY Zenon, <1>0, <1>1, ViewParts, ReadTyped DEF Reading
<1>2. CASE rpc = "attempts" /\ Read("attempts", attempts, "status")
  <2>1. view.history \subseteq history
    BY Zenon DEF Reading
  <2>2. \A a \in view.history : a.status \in Outcomes => a.at \in attempts
    BY Zenon, <2>1 DEF StoreInv, Recorded
  <2>3. view'.history = view.history /\ view'.attempts = attempts
    BY Zenon, <1>2, ViewParts
  <2> QED
    BY <1>0, <1>2, <2>2, <2>3, ReadTyped DEF Reading
<1>3. CASE rpc = "status" /\ Read("record", record, "explain")
  <2>1. view.history \subseteq history
    BY Zenon DEF Reading
  <2>2. Entered(view.history) => record # "none"
    BY Zenon, <2>1 DEF StoreInv, Recorded, Entered
  <2>3. view'.history = view.history /\ view'.attempts = view.attempts /\ view'.record = record
    BY Zenon, <1>3, ViewParts
  <2>4. (Entered(view.history) => view.record # "none")'
    BY Zenon, <2>2, <2>3 DEF Entered
  <2> QED
    BY SMTT(30), <1>0, <1>3, <2>3, <2>4, ReadTyped DEF Reading
<1>4. CASE rpc = "idle" /\ record # "none" /\ Read("record", record, "detailHistory")
  <2>1. view'.record = record /\ Explained(record, history)
    BY Zenon, <1>4, ViewParts DEF StoreInv, Recorded
  <2>2. rpc' = "detailHistory" /\ history' = history
    BY Zenon, <1>4, ReadTyped
  <2>3. Explained(view.record, history)'
    BY Zenon, <2>1, <2>2 DEF Explained
  <2> QED
    BY Zenon, <1>4, <2>1, <2>2, <2>3, ReadTyped DEF Reading
<1>5. CASE rpc = "detailHistory" /\ Read("history", history, "detailAttempts")
  <2>1. view'.record = view.record /\ view'.history = history
    BY Zenon, <1>5, ViewParts
  <2>2. Explained(view.record, view.history)'
    BY Zenon, <1>5, <2>1 DEF Reading, Explained
  <2> QED
    BY <1>0, <1>5, <2>1, <2>2, ReadTyped DEF Reading
<1>6. CASE rpc = "detailAttempts" /\ Read("attempts", attempts, "detail")
  <2>1. view.history \subseteq history
    BY Zenon DEF Reading
  <2>2. \A a \in view.history : a.status \in Outcomes => a.at \in attempts
    BY Zenon, <2>1 DEF StoreInv, Recorded
  <2>3. view'.history = view.history /\ view'.attempts = attempts /\ view'.record = view.record
    BY Zenon, <1>6, ViewParts
  <2>4. Explained(view.record, view.history)'
    BY Zenon, <1>6, <2>3 DEF Reading, Explained
  <2> QED
    BY SMTT(30), <1>0, <1>6, <2>2, <2>3, <2>4, ReadTyped DEF Reading
<1>7. CASE Respond
  <2>1. rpc' = "idle" /\ view' = [history |-> {}, attempts |-> {}, record |-> "none"]
    BY Zenon, <1>7 DEF Respond, NothingRead
  <2>2. view' \in [history : SUBSET history', attempts : SUBSET attempts', record : Records]
    BY Zenon, <2>1 DEF Records
  <2> QED
    BY Zenon, <2>1, <2>2 DEF Reading
<1> QED
  BY Zenon, <1>1, <1>2, <1>3, <1>4, <1>5, <1>6, <1>7 DEF ReaderStep, EventStatus, ExplainRecord, DLQDetail

LEMMA ReaderUnchangedStore ==
    ASSUME ReaderStep
    PROVE  UNCHANGED Store
  BY Zenon DEF ReaderStep, EventStatus, ExplainRecord, DLQDetail, Respond, Read

LEMMA StoreInvariant == Spec => []StoreInv
<1>1. ASSUME StoreInv, [Next]_vars
      PROVE  StoreInv'
  <2>1. CASE Writes
    BY Zenon, <1>1, <2>1, WritesStore
  <2>2. CASE ReaderStep
    BY Zenon, <1>1, <2>2, ReaderUnchangedStore, StoreUnchanged
  <2>3. CASE UNCHANGED vars
    <3>1. UNCHANGED Store
      BY Zenon, <2>3 DEF vars, Store
    <3> QED
      BY Zenon, <1>1, <3>1, StoreUnchanged
  <2> QED
    BY Zenon, <1>1, <2>1, <2>2, <2>3 DEF Next, Writes
<1> QED
  BY <1>1, StoreStart, PTL DEF Spec

LEMMA ViewInvariant == Spec => []ViewInv
<1>1. Init => Reading
  <2> SUFFICES ASSUME Init PROVE Reading
    BY Zenon
  <2>1. rpc = "idle" /\ view = [history |-> {}, attempts |-> {}, record |-> "none"]
    BY Zenon DEF Init
  <2>2. view \in [history : SUBSET history, attempts : SUBSET attempts, record : Records]
    BY Zenon, <2>1 DEF Records
  <2> QED
    BY Zenon, <2>1, <2>2 DEF Reading
<1>2. ASSUME StoreInv, Reading, [Next]_vars
      PROVE  Reading'
  <2>1. CASE Writes
    BY Zenon, <1>2, <2>1, WritesGrow, WritesReading
  <2>2. CASE ReaderStep
    BY Zenon, <1>2, <2>2, ReaderReading DEF ViewInv
  <2>3. CASE UNCHANGED vars
    BY Zenon, <1>2, <2>3, WritesReading DEF vars
  <2> QED
    BY Zenon, <1>2, <2>1, <2>2, <2>3 DEF Next, Writes
<1>3. StoreInv /\ Reading <=> ViewInv
  BY Zenon DEF ViewInv
<1> QED
  BY <1>1, <1>2, <1>3, StoreInvariant, PTL DEF Spec

-----------------------------------------------------------------------------
(* What is shown.                                                          *)

\* The rows have a last one: no two have the same place in the order.
LEMMA LatestRow ==
    ASSUME StoreInv, NEW rows \in SUBSET history, rows # {}
    PROVE  Latest(rows) \in rows /\ \A b \in rows \ {Latest(rows)} : Before(b, Latest(rows))
<1> DEFINE Key(a) == 2 * a.at + a.n
           Left(a) == 2 * clock + 2 - Key(a)
           T == { Left(a) : a \in rows }
           R == OpToRel(<, Nat)
<1>1. clock \in Nat /\ \A a \in rows : a.at \in Nat /\ a.n \in {1, 2} /\ a.at <= clock
  BY DEF StoreInv, StoreType, Times, Rows
<1>2. \A a \in rows : Left(a) \in Nat
  BY <1>1
<1>3. T \subseteq Nat /\ T # {}
  <2> HIDE DEF Left
  <2> QED
    BY Zenon, <1>2
<1>4. \E x \in T : \A y \in T : ~(<<y, x>> \in R)
  <2>1. IsWellFoundedOn(R, Nat)
    BY NatLessThanWellFounded, Zenon
  <2> HIDE DEF T, R
  <2> QED
    BY <1>3, <2>1, WFMin, Zenon
<1>5. \A x, y \in Nat : y < x => <<y, x>> \in R
  BY Zenon DEF OpToRel
<1>6. PICK m \in T : \A y \in T : ~(y < m)
  BY <1>3, <1>4, <1>5, Zenon
<1>7. PICK a \in rows : m = Left(a)
  BY Zenon
<1>8. ASSUME NEW b \in rows, b # a
      PROVE  Before(b, a)
  <2>1. ~(Left(b) < Left(a))
    BY <1>6, <1>7, <1>8, Zenon
  <2>2. ~(b.at = a.at /\ b.n = a.n)
    BY Zenon, <1>8 DEF StoreInv, Times
  <2> QED
    BY <1>1, <2>1, <2>2 DEF Before
<1>9. \E c \in rows : \A b \in rows \ {c} : Before(b, c)
  BY <1>8, Zenon
<1> QED
  BY <1>9, Zenon DEF Latest

\* Whatever commits between the statements of a read, every outcome shown comes
\* with its attempt, and the history shown explains the record (EventStatus and
\* DLQDetail of internal/operations).
THEOREM ReadsExplainThemselves == Spec => []OutcomesShowAttempts
<1>1. ViewInv => OutcomesShowAttempts
  <2> SUFFICES ASSUME ViewInv PROVE OutcomesShowAttempts
    BY Zenon
  <2>1. TypeOK
    <3>1. todo \subseteq 1..MaxEntries /\ cur \in [Workers -> 0..MaxEntries]
      <4>1. added \in Nat /\ 1..added \subseteq 1..MaxEntries /\ 0..added \subseteq 0..MaxEntries
        BY DEF ViewInv, StoreInv, StoreType
      <4> QED
        BY Zenon, <4>1 DEF ViewInv, StoreInv, StoreType
    <3> QED
      BY Zenon, <3>1 DEF ViewInv, StoreInv, StoreType, Reading, TypeOK, WorkerPcs, PublisherPcs, Records
  <2>2. rpc = "detail" => Shown(IF view.record = "OPEN" THEN "DEAD_LETTERED" ELSE "REDRIVEN")
    <3>1. view.record \in Records
      BY Zenon DEF ViewInv, Reading
    <3> QED
      BY Zenon, <3>1 DEF ViewInv, Reading, Explained, Shown, Records
  <2> QED
    BY Zenon, <2>1, <2>2 DEF ViewInv, Reading, OutcomesShowAttempts
<1> QED
  BY <1>1, ViewInvariant, PTL

\* The AI service refuses no snapshot that the explain handler builds as
\* inconsistent (explainRequestFromStore and _validate_snapshot).
THEOREM SnapshotsAreConsistent == Spec => []SnapshotAccepted
<1>1. ViewInv => SnapshotAccepted
  <2> SUFFICES ASSUME ViewInv, rpc = "explain" PROVE ValidSnapshot(ExplainRequest)
    BY Zenon DEF SnapshotAccepted
  <2> DEFINE current == CurrentStatus(view.history)
             q == ExplainRequest
             redriven == { a \in view.history : a.status = "REDRIVEN" }
  <2>1. /\ q.currentStatus = current
        /\ q.statusHistory = { a.status : a \in view.history }
        /\ q.enteredDLQ = EnteredDLQ
        /\ q.redriveCount = RedriveCount
        /\ q.delivered = (current = "DELIVERED")
    BY Zenon DEF ExplainRequest
  <2>2. view.history \in SUBSET history /\ view.history # {}
    BY Zenon DEF ViewInv, Reading, FirstRows
  <2>3. Latest(view.history) \in view.history
    BY Zenon, <2>2, LatestRow DEF ViewInv
  <2>4. q.statusHistory # {}
    BY Zenon, <2>1, <2>2
  <2>5. "DEAD_LETTERED" \in q.statusHistory => Shown("DEAD_LETTERED")
    BY Zenon, <2>1 DEF Shown
  <2>6. current = "DEAD_LETTERED" => Shown("DEAD_LETTERED")
    BY Zenon, <2>3 DEF CurrentStatus, Shown
  <2>7. Entered(view.history) => view.record # "none"
    BY Zenon DEF ViewInv, Reading
  <2>8. RedriveCount > 0 => view.record # "none"
    <3>1. CASE redriven = {}
      <4>1. Cardinality(redriven) = 0
        BY <3>1, FS_EmptySet, Zenon
      <4> HIDE DEF redriven
      <4>2. RedriveCount = IF view.record = "REDRIVEN" THEN 1 ELSE 0
        <5>1. RedriveCount = IF Cardinality(redriven) = 0 /\ view.record = "REDRIVEN"
                             THEN 1 ELSE Cardinality(redriven)
          BY Zenon DEF RedriveCount, redriven
        <5> QED
          BY Zenon, <4>1, <5>1
      <4> QED
        BY <4>2
    <3>2. CASE redriven # {}
      BY <2>7, <3>2, Zenon DEF Entered
    <3> QED
      BY Zenon, <3>1, <3>2
  <2> HIDE DEF q, current
  <2>9. ValidSnapshot(q)
    BY Zenon, <2>1, <2>4, <2>5, <2>6, <2>8 DEF ValidSnapshot, EnteredDLQ
  <2> QED
    BY Zenon, <2>9 DEF q
<1> QED
  BY <1>1, ViewInvariant, PTL

-----------------------------------------------------------------------------
(* What settles.                                                           *)

\* At most one fault, or one worker.  With two workers, one reclaims the entry
\* of the other, which acknowledges it; a crash of the first then leaves its
\* PROCESSING row the newest, and no entry.
NoLateCrash == MaxFaults <= 1 \/ \A v, w \in Workers : v = w

LEMMA AwaitedPast ==
    ASSUME StoreInv, NEW t \in Nat, Awaited(t)
    PROVE  t <= clock
<1>1. \A a \in history : a.at <= clock
  BY Zenon DEF StoreInv, Times
<1>2. \A p \in Publishers : began[p] <= clock
  BY Zenon DEF StoreInv, Times, Actors
<1> QED
  BY Zenon, <1>1, <1>2 DEF Awaited

\* A step of one actor leaves the cover of others as it is.
LEMMA CoverKept ==
    ASSUME NEW x \in Actors, NEW t \in Nat, Covered(t), history \subseteq history',
           \A y \in Actors \ {x} : pc'[y] = pc[y] /\ began'[y] = began[y],
           x \in Workers /\ Busy(x, t) => Covered(t)',
           \A n \in todo : ~Held(n) => Covered(t)'
    PROVE  Covered(t)'
<1>1. CASE \E a \in history : a.status \in Outcomes /\ a.at > t
  BY Zenon, <1>1 DEF Covered
<1>2. CASE \E n \in todo : ~Held(n)
  BY Zenon, <1>2
<1>3. ASSUME NEW w \in Workers, Busy(w, t) PROVE Covered(t)'
  <2>1. CASE w = x
    BY Zenon, <1>3, <2>1
  <2>2. CASE w # x
    <3>1. pc'[w] = pc[w] /\ began'[w] = began[w]
      BY Zenon, <2>2 DEF Actors
    <3>2. Busy(w, t)'
      BY Zenon, <1>3, <3>1 DEF Busy
    <3> QED
      BY Zenon, <3>2 DEF Covered
  <2> QED
    BY Zenon, <2>1, <2>2
<1> QED
  BY Zenon, <1>1, <1>2, <1>3 DEF Covered

\* A publisher's step: workers, their entries and the cover they are stay.
LEMMA PublisherKeeps ==
    ASSUME StoreInv, Followed, NEW p \in Publishers,
           \A y \in Actors \ {p} : pc'[y] = pc[y] /\ began'[y] = began[y],
           history \subseteq history', todo \subseteq todo', cur' = cur,
           faults' = faults \/ Fault
    PROVE  /\ \A w \in Workers : pc'[w] = "idle" => cur'[w] = 0
           /\ \A w \in Workers : pc'[w] # "idle" => Safe(w)'
           /\ \A t \in Nat : Covered(t) => Covered(t)'
<1>1. \A w \in Workers : pc'[w] = pc[w]
  BY Zenon, InWorkers
<1>2. \A w \in Workers : pc'[w] = "idle" => cur'[w] = 0
  BY Zenon, <1>1 DEF Followed
<1>3. faults = MaxFaults => faults' = MaxFaults
  BY DEF StoreInv, StoreType, Fault
<1>4. \A w \in Workers : pc'[w] # "idle" => Safe(w)'
  BY Zenon, <1>1, <1>3 DEF Followed, Safe
<1>5. \A n \in todo : ~Held(n) => n \in todo' /\ ~Held(n)'
  BY Zenon DEF Held
<1>6. ASSUME NEW t \in Nat, Covered(t) PROVE Covered(t)'
  <2>1. \A n \in todo : ~Held(n) => Covered(t)'
    BY Zenon, <1>5 DEF Covered
  <2> QED
    BY Zenon, <1>6, <2>1, CoverKept, InPublishers
<1> QED
  BY Zenon, <1>2, <1>4, <1>6

LEMMA PublisherFollowed ==
    ASSUME StoreInv, Followed, NEW p \in Publishers, PublisherStep(p) \/ PublishRollback(p)
    PROVE  Followed'
<1> USE InPublishers
<1>0. p \in Actors /\ Outbox \in Publishers /\ StoreType /\ Times
  BY Zenon DEF StoreInv, Publishers
<1>1. CASE PublishBegin(p)
  <2> DEFINE s == IF p = Outbox THEN "send" ELSE "lock"
  <2>1. Goto(p, s) /\ Begin(p) /\ UNCHANGED <<history, attempts, record, added, todo, cur, faults>>
    BY Zenon, <1>1 DEF PublishBegin
  <2>2. s \in PublisherPcs /\ s # "commit" /\ s # "done"
    BY Zenon DEF PublisherPcs
  <2> HIDE DEF s
  <2>3. pc'[p] = s /\ \A y \in Actors \ {p} : pc'[y] = pc[y] /\ began'[y] = began[y]
    BY Zenon, <1>0, <2>1, <2>2, Moved, Begun
  <2>4. \A t \in Nat : Awaited(t)' => Awaited(t)
    BY <2>1, <2>2, <2>3, Zenon DEF Awaited, Actors
  <2>5. pc'[Outbox] = "done" => \E a \in history' : a.at > 0
    BY Zenon, <1>0, <2>1, <2>2, <2>3 DEF Followed, Actors
  <2> QED
    BY Zenon, <2>1, <2>3, <2>4, <2>5, PublisherKeeps DEF Followed
<1>2. CASE Send(p)
  <2>1. Goto(p, "commit") /\ AddEntry /\ pc[p] = "send"
        /\ UNCHANGED <<clock, history, attempts, record, began, cur, faults>>
    BY Zenon, <1>2 DEF Send
  <2>2. "commit" \in PublisherPcs
    BY Zenon DEF PublisherPcs
  <2>3. pc'[p] = "commit" /\ \A y \in Actors \ {p} : pc'[y] = pc[y] /\ began'[y] = began[y]
    BY Zenon, <1>0, <2>1, <2>2, Moved
  <2>4. \A t \in Nat : Covered(t)'
    <3>1. \E n \in todo' : \A w \in Workers : cur'[w] # n
      BY Zenon, <1>0, <2>1, Added
    <3> QED
      BY Zenon, <3>1 DEF Covered, Held
  <2>5. todo \subseteq todo'
    BY Zenon, <1>0, <2>1, Added
  <2>6. pc'[Outbox] = "done" => \E a \in history' : a.at > 0
    BY Zenon, <1>0, <2>1, <2>3 DEF Followed, Actors
  <2> QED
    BY Zenon, <2>1, <2>3, <2>4, <2>5, <2>6, PublisherKeeps DEF Followed
<1>3. CASE PublishCommit(p)
  <2> DEFINE s == IF p = Outbox THEN "PUBLISHED" ELSE "REDRIVEN"
  <2>1. /\ Goto(p, "done") /\ End(p) /\ pc[p] = "commit"
        /\ history' = history \cup {RowOf(p, s)}
        /\ UNCHANGED <<clock, attempts, added, todo, cur, faults>>
    BY Zenon, <1>3 DEF PublishCommit
  <2>2. s \in Statuses /\ s \notin Outcomes
    BY Zenon DEF Statuses, Outcomes
  <2>3. "done" \in PublisherPcs /\ "done" \notin InTransaction /\ "commit" \in InTransaction
    BY Zenon DEF PublisherPcs, InTransaction, Outcomes
  <2> HIDE DEF s
  <2>4. pc'[p] = "done" /\ \A y \in Actors \ {p} : pc'[y] = pc[y] /\ began'[y] = began[y]
    BY ZenonT(60), <1>0, <2>1, <2>3, Moved, Ended
  <2>5. /\ RowOf(p, s) \in history' /\ RowOf(p, s).at = began[p] /\ began[p] > 0
    BY ZenonT(60), <1>0, <2>1, <2>2, <2>3, <2>4, CommitTimes
  <2>6. ASSUME NEW t \in Nat, Awaited(t)' PROVE Awaited(t)
    <3>1. CASE \E a \in history' : a.at > 0 /\ a.status \notin Outcomes /\ a.at = t
      <4>1. PICK a \in history' : a.at > 0 /\ a.status \notin Outcomes /\ a.at = t
        BY Zenon, <3>1
      <4>2. CASE a \in history
        BY Zenon, <4>1, <4>2 DEF Awaited
      <4>3. CASE a = RowOf(p, s)
        <5>1. began[p] = t
          BY Zenon, <4>1, <4>3, <2>5
        <5> QED
          BY Zenon, <5>1, <2>1 DEF Awaited
      <4> QED
        BY Zenon, <4>2, <4>3, <2>1
    <3>2. CASE \E q \in Publishers : pc'[q] = "commit" /\ began'[q] = t
      BY Zenon, <3>2, <2>4 DEF Awaited, Actors
    <3> QED
      BY Zenon, <2>6, <3>1, <3>2 DEF Awaited
  <2>7. \E a \in history' : a.at > 0
    BY Zenon, <2>5
  <2> QED
    BY Zenon, <2>1, <2>4, <2>6, <2>7, PublisherKeeps DEF Followed
<1>4. CASE PublishRollback(p)
  <2> DEFINE s == IF p = Outbox THEN "idle" ELSE "done"
  <2>1. /\ Goto(p, s) /\ End(p) /\ Fault
        /\ UNCHANGED <<clock, history, attempts, record, added, todo, cur>>
    BY Zenon, <1>4 DEF PublishRollback
  <2>2. s \in PublisherPcs /\ s # "commit" /\ (p = Outbox => s # "done")
    BY Zenon DEF PublisherPcs
  <2> HIDE DEF s
  <2>3. pc'[p] = s /\ \A y \in Actors \ {p} : pc'[y] = pc[y] /\ began'[y] = began[y]
    BY Zenon, <1>0, <2>1, <2>2, Moved, Ended
  <2>4. \A t \in Nat : Awaited(t)' => Awaited(t)
    BY <2>1, <2>2, <2>3, Zenon DEF Awaited, Actors
  <2>5. pc'[Outbox] = "done" => \E a \in history' : a.at > 0
    BY Zenon, <1>0, <2>1, <2>2, <2>3 DEF Followed, Actors
  <2> QED
    BY Zenon, <2>1, <2>3, <2>4, <2>5, PublisherKeeps DEF Followed
<1> QED
  BY ZenonT(60), <1>1, <1>2, <1>3, <1>4 DEF PublisherStep

LEMMA RedriveLockFollowed ==
    ASSUME StoreInv, Followed, NEW r \in Redrives, RedriveLock(r)
    PROVE  Followed'
<1>0. r \in Publishers /\ r \in Actors /\ r \notin Workers /\ Outbox \in Actors /\ Outbox # r
  BY Zenon, InPublishers DEF Publishers, Actors
<1>1. UNCHANGED <<clock, history, attempts, record, added, todo, cur, faults>>
  BY Zenon DEF RedriveLock
<1>2. PICK s \in {"send", "done"} : Goto(r, s)
  BY Zenon DEF RedriveLock
<1>3. s \in PublisherPcs /\ s # "commit"
  BY Zenon DEF PublisherPcs
<1>4. began' = began \/ End(r)
  BY Zenon DEF RedriveLock
<1>5. pc'[r] = s /\ \A y \in Actors \ {r} : pc'[y] = pc[y] /\ began'[y] = began[y]
  BY Zenon, <1>0, <1>2, <1>3, <1>4, Moved, Ended DEF StoreInv
<1>6. \A t \in Nat : Awaited(t)' => Awaited(t)
  BY <1>1, <1>3, <1>5, Zenon DEF Awaited, Actors
<1>7. pc'[Outbox] = "done" => \E a \in history' : a.at > 0
  BY Zenon, <1>0, <1>1, <1>5 DEF Followed
<1> QED
  BY Zenon, <1>0, <1>1, <1>5, <1>6, <1>7, PublisherKeeps DEF Followed

\* A worker's step: the publishers and the outbox row stay.
LEMMA WorkerKeeps ==
    ASSUME Followed, NEW w \in Workers,
           \A y \in Actors \ {w} : pc'[y] = pc[y] /\ began'[y] = began[y],
           history \subseteq history'
    PROVE  /\ pc'[Outbox] = "done" => \E a \in history' : a.at > 0
           /\ history' = history => \A t \in Nat : Awaited(t)' => Awaited(t)
<1>1. \A p \in Publishers : pc'[p] = pc[p] /\ began'[p] = began[p]
  BY Zenon, InPublishers
<1>2. pc'[Outbox] = "done" => \E a \in history' : a.at > 0
  BY Zenon, <1>1 DEF Followed, Publishers
<1>3. history' = history => \A t \in Nat : Awaited(t)' => Awaited(t)
  BY <1>1, Zenon DEF Awaited
<1> QED
  BY Zenon, <1>2, <1>3

\* A worker goes on with its entry.
LEMMA WorkerGoesOn ==
    ASSUME StoreInv, Followed, NEW w \in Workers, pc[w] # "idle", pc'[w] # "idle",
           \A y \in Actors \ {w} : pc'[y] = pc[y] /\ began'[y] = began[y],
           history \subseteq history', todo \subseteq todo', cur' = cur, faults' = faults,
           \A t \in Nat : t <= clock /\ Busy(w, t) => Covered(t)',
           \A t \in Nat : Awaited(t)' => Awaited(t) \/ Covered(t)'
    PROVE  Followed'
<1>1. \A v \in Workers : (pc'[v] = "idle") = (pc[v] = "idle")
  BY Zenon, InWorkers
<1>2. \A v \in Workers : pc'[v] = "idle" => cur'[v] = 0
  BY Zenon, <1>1 DEF Followed
<1>3. \A v \in Workers : pc'[v] # "idle" => Safe(v)'
  BY Zenon, <1>1 DEF Followed, Safe
<1>4. ASSUME NEW t \in Nat, Awaited(t) PROVE Covered(t)'
  <2>1. t <= clock /\ Covered(t)
    BY Zenon, <1>4, AwaitedPast DEF Followed
  <2>2. \A n \in todo : ~Held(n) => Covered(t)'
    BY Zenon DEF Covered, Held
  <2> QED
    BY Zenon, <2>1, <2>2, CoverKept, InWorkers
<1> QED
  BY Zenon, <1>2, <1>3, <1>4, WorkerKeeps DEF Followed

LEMMA TakeFollowed ==
    ASSUME StoreInv, Followed, NoLateCrash, NEW w \in Workers, Take(w)
    PROVE  Followed'
<1>0. StoreType /\ w \in Actors /\ w \notin Publishers
  BY Zenon, InWorkers DEF StoreInv
<1>1. Goto(w, "processing") /\ Begin(w) /\ pc[w] = "idle"
      /\ UNCHANGED <<history, attempts, record, added, todo>>
  BY Zenon DEF Take
<1>2. PICK n \in todo :
        /\ cur' = [cur EXCEPT ![w] = n]
        /\ IF Held(n) THEN Fault ELSE UNCHANGED faults
  BY Zenon DEF Take
<1>3. "processing" \in WorkerPcs
  BY Zenon DEF WorkerPcs
<1>4. pc'[w] = "processing" /\ \A y \in Actors \ {w} : pc'[y] = pc[y] /\ began'[y] = began[y]
  BY Zenon, <1>0, <1>1, <1>3, Moved, Begun
<1>5. cur'[w] = n /\ \A v \in Workers \ {w} : cur'[v] = cur[v]
  BY Zenon, <1>0, <1>2 DEF StoreType
<1>6. n # 0 /\ cur[w] = 0
  BY <1>0, <1>1 DEF StoreType, Followed
<1>7. \A v \in Workers : pc'[v] = "idle" => cur'[v] = 0
  BY Zenon, <1>4, <1>5, InWorkers DEF Followed
<1>8. \A v \in Workers : pc'[v] # "idle" => Safe(v)'
  <2>1. CASE Held(n)
    <3>1. PICK v \in Workers : v # w
      BY Zenon, <2>1, <1>6 DEF Held
    <3>2. faults' = MaxFaults
      <4>1. MaxFaults <= 1
        BY Zenon, <3>1 DEF NoLateCrash
      <4> QED
        BY <1>0, <1>2, <2>1, <4>1 DEF Fault, StoreType
    <3> QED
      BY Zenon, <3>2 DEF Safe
  <2>2. CASE ~Held(n)
    <3>1. faults' = faults /\ \A v \in Workers : cur[v] # n
      BY Zenon, <1>2, <2>2 DEF Held
    <3>2. Safe(w)'
      BY Zenon, <1>1, <1>5, <3>1 DEF Safe
    <3>3. ASSUME NEW v \in Workers \ {w}, pc'[v] # "idle" PROVE Safe(v)'
      <4>1. pc'[v] = pc[v]
        BY Zenon, <1>4, InWorkers
      <4>2. Safe(v)
        BY Zenon, <3>3, <4>1 DEF Followed
      <4> QED
        BY Zenon, <1>1, <1>5, <3>1, <4>2 DEF Safe
    <3> QED
      BY Zenon, <3>2, <3>3
  <2> QED
    BY Zenon, <2>1, <2>2
<1>9. \A t \in Nat : Covered(t)'
  BY Zenon, <1>4 DEF Covered, Busy
<1> QED
  BY Zenon, <1>1, <1>4, <1>7, <1>8, <1>9, WorkerKeeps DEF Followed

LEMMA GoesOnFollowed ==
    ASSUME StoreInv, Followed, NEW w \in Workers,
           RecordProcessing(w) \/ Attempt(w) \/ ScheduleRetry(w) \/ BeginRetrying(w) \/ RecordOutcome(w)
    PROVE  Followed'
<1>0. StoreType /\ Times /\ w \in Actors /\ w \notin Publishers
  BY Zenon, InWorkers DEF StoreInv
<1>1. CASE RecordProcessing(w) \/ ScheduleRetry(w)
  <2>1. /\ history \subseteq history' /\ UNCHANGED <<cur, faults>>
        /\ pc[w] \in {"processing", "attempt"}
        /\ Goto(w, "attempt") \/ Goto(w, "scheduled")
        /\ End(w) \/ UNCHANGED began
        /\ AddEntry \/ UNCHANGED todo
    BY Zenon, <1>1 DEF RecordProcessing, ScheduleRetry
  <2>2. "attempt" \in WorkerPcs /\ "scheduled" \in WorkerPcs
    BY Zenon DEF WorkerPcs
  <2>3. pc'[w] \in {"attempt", "scheduled"} /\ \A y \in Actors \ {w} : pc'[y] = pc[y] /\ began'[y] = began[y]
    BY Zenon, <1>0, <2>1, <2>2, Moved, Ended
  <2>4. \A t \in Nat : Covered(t)'
    BY Zenon, <2>3 DEF Covered, Busy
  <2>5. todo \subseteq todo'
    BY Zenon, <1>0, <2>1, Added
  <2> QED
    BY Zenon, <2>1, <2>3, <2>4, <2>5, WorkerGoesOn
<1>2. CASE Attempt(w) \/ BeginRetrying(w)
  <2>1. Begin(w) /\ UNCHANGED <<history, todo, cur, faults>> /\ pc[w] \in {"attempt", "scheduled"}
    BY Zenon, <1>2 DEF Attempt, BeginRetrying
  <2>2. PICK s \in Outcomes : Goto(w, s)
    BY Zenon, <1>2 DEF Attempt, BeginRetrying, Outcomes
  <2>3. s \in WorkerPcs /\ s # "idle"
    BY Zenon DEF WorkerPcs, Outcomes
  <2>4. /\ pc'[w] = s /\ began'[w] = clock + 1 /\ clock \in Nat
        /\ \A y \in Actors \ {w} : pc'[y] = pc[y] /\ began'[y] = began[y]
    BY ZenonT(60), <1>0, <2>1, <2>2, <2>3, Moved, Begun DEF StoreType
  <2>5. \A t \in Nat : t <= clock => Covered(t)'
    <3>1. \A t \in Nat : t <= clock => began'[w] > t
      BY <2>4
    <3> QED
      BY Zenon, <2>4, <3>1 DEF Covered, Busy
  <2>6. \A t \in Nat : Awaited(t)' => Awaited(t)
    BY Zenon, <2>1, <2>4, WorkerKeeps
  <2> QED
    BY ZenonT(60), <2>1, <2>3, <2>4, <2>5, <2>6, WorkerGoesOn
<1>3. CASE RecordOutcome(w)
  <2> DEFINE s == pc[w]
  <2>1. /\ Goto(w, "ack") /\ End(w) /\ s \in Outcomes
        /\ history' = history \cup {RowOf(w, s)}
        /\ UNCHANGED <<clock, todo, cur, faults>>
    BY Zenon, <1>3 DEF RecordOutcome
  <2>2. s \in Statuses /\ s \notin {"idle", "processing", "attempt", "scheduled"}
    BY Zenon, <2>1 DEF Statuses, Outcomes
  <2>3. "ack" \in WorkerPcs /\ "ack" \notin InTransaction /\ s \in InTransaction
    BY Zenon, <2>1 DEF WorkerPcs, InTransaction, Outcomes
  <2>4. pc'[w] = "ack" /\ \A y \in Actors \ {w} : pc'[y] = pc[y] /\ began'[y] = began[y]
    BY ZenonT(60), <1>0, <2>1, <2>3, Moved, Ended
  <2>5. RowOf(w, s) \in history' /\ RowOf(w, s).at = began[w] /\ RowOf(w, s).status = s
    BY SMTT(20), <1>0, <2>1, <2>2, <2>3, <2>4, CommitTimes
  <2>6. \A t \in Nat : Busy(w, t) => Covered(t)'
    <3>1. \A t \in Nat : Busy(w, t) => began[w] > t
      BY Zenon, <2>2 DEF Busy
    <3> QED
      BY Zenon, <2>1, <2>5, <3>1 DEF Covered
  <2>7. ASSUME NEW t \in Nat, Awaited(t)' PROVE Awaited(t)
    <3>1. CASE \E a \in history' : a.at > 0 /\ a.status \notin Outcomes /\ a.at = t
      <4>1. PICK a \in history' : a.at > 0 /\ a.status \notin Outcomes /\ a.at = t
        BY Zenon, <3>1
      <4>2. a \in history
        BY Zenon, <4>1, <2>1, <2>5
      <4> QED
        BY Zenon, <4>1, <4>2 DEF Awaited
    <3>2. CASE \E q \in Publishers : pc'[q] = "commit" /\ began'[q] = t
      BY Zenon, <3>2, <2>4, <1>0 DEF Awaited, Actors
    <3> QED
      BY Zenon, <2>7, <3>1, <3>2 DEF Awaited
  <2> QED
    BY ZenonT(60), <2>1, <2>2, <2>4, <2>6, <2>7, WorkerGoesOn
<1> QED
  BY Zenon, <1>1, <1>2, <1>3

\* Who leaves an entry has acknowledged it, or left it to others.
LEMMA LeaveFollowed ==
    ASSUME StoreInv, Followed, NEW w \in Workers, Ack(w) \/ Crash(w)
    PROVE  Followed'
<1>0. StoreType /\ w \in Actors /\ w \notin Publishers
  BY Zenon, InWorkers DEF StoreInv
<1>1. Goto(w, "idle") /\ cur' = [cur EXCEPT ![w] = 0] /\ history' = history /\ pc[w] # "idle"
  BY Zenon DEF Ack, Crash, Leave
<1>2. "idle" \in WorkerPcs
  BY Zenon DEF WorkerPcs
<1>3. began' = began \/ End(w)
  BY Zenon DEF Ack, Crash
<1>4. pc'[w] = "idle" /\ \A y \in Actors \ {w} : pc'[y] = pc[y] /\ began'[y] = began[y]
  BY ZenonT(60), <1>0, <1>1, <1>2, <1>3, Moved, Ended
<1>5. cur'[w] = 0 /\ \A v \in Workers \ {w} : cur'[v] = cur[v]
  BY Zenon, <1>0, <1>1 DEF StoreType
<1>6. \A n \in todo : n # 0
  BY <1>0 DEF StoreType
<1>7. \A v \in Workers : pc'[v] = "idle" => cur'[v] = 0
  BY Zenon, <1>4, <1>5, InWorkers DEF Followed
<1>8. \A v \in Workers \ {w} : pc'[v] # "idle" => Safe(v)
  BY Zenon, <1>4, InWorkers DEF Followed
<1>9. \A t \in Nat : Awaited(t)' => Awaited(t)
  BY Zenon, <1>1, <1>4, WorkerKeeps
<1>10. CASE Ack(w)
  <2>1. pc[w] = "ack" /\ todo' = todo \ {cur[w]} /\ faults' = faults
    BY Zenon, <1>10 DEF Ack
  <2>2. \A v \in Workers : pc'[v] # "idle" => Safe(v)'
    <3>1. ASSUME NEW v \in Workers, pc'[v] # "idle" PROVE Safe(v)'
      <4>1. v # w /\ Safe(v)
        BY Zenon, <3>1, <1>4, <1>8
      <4>2. CASE faults = MaxFaults
        BY Zenon, <2>1, <4>2 DEF Safe
      <4>3. CASE cur[v] \in todo /\ \A u \in Workers \ {v} : cur[u] # cur[v]
        <5>1. cur'[v] \in todo'
          BY Zenon, <1>5, <2>1, <4>1, <4>3
        <5>2. \A u \in Workers \ {v} : cur'[u] # cur'[v]
          BY Zenon, <1>5, <1>6, <4>1, <4>3
        <5> QED
          BY Zenon, <5>1, <5>2 DEF Safe
      <4> QED
        BY Zenon, <4>1, <4>2, <4>3 DEF Safe
    <3> QED
      BY Zenon, <3>1
  <2>3. ASSUME NEW t \in Nat, Awaited(t) PROVE Covered(t)'
    <3>1. Covered(t)
      BY Zenon, <2>3 DEF Followed
    <3>2. \A n \in todo : ~Held(n) => Covered(t)'
      <4>1. ASSUME NEW n \in todo, ~Held(n) PROVE n \in todo' /\ \A v \in Workers : cur'[v] # n
        BY Zenon, <1>5, <1>6, <2>1, <4>1 DEF Held
      <4> QED
        BY Zenon, <4>1 DEF Covered, Held
    <3>3. ~Busy(w, t)
      BY Zenon, <2>1 DEF Busy, Outcomes
    <3> QED
      BY ZenonT(60), <1>0, <1>1, <1>4, <3>1, <3>2, <3>3, CoverKept
  <2> QED
    BY ZenonT(60), <1>1, <1>4, <1>7, <1>9, <2>2, <2>3, WorkerKeeps DEF Followed
<1>11. CASE Crash(w)
  <2>1. todo' = todo /\ Fault
    BY Zenon, <1>11 DEF Crash
  <2>2. faults # MaxFaults
    BY <1>0, <2>1 DEF Fault, StoreType
  <2>3. \A v \in Workers : pc[v] # "idle" => cur[v] \in todo /\ \A u \in Workers \ {v} : cur[u] # cur[v]
    BY Zenon, <2>2 DEF Followed, Safe
  <2>4. \A v \in Workers : pc'[v] # "idle" => Safe(v)'
    <3>1. ASSUME NEW v \in Workers, pc'[v] # "idle" PROVE Safe(v)'
      <4>1. v # w /\ pc[v] # "idle"
        BY Zenon, <3>1, <1>4, InWorkers
      <4>2. cur'[v] = cur[v] /\ cur[v] \in todo'
        BY Zenon, <4>1, <1>5, <2>1, <2>3
      <4>3. \A u \in Workers \ {v} : cur'[u] # cur'[v]
        BY ZenonT(60), <1>5, <1>6, <2>1, <2>3, <4>1, <4>2
      <4> QED
        BY Zenon, <4>2, <4>3 DEF Safe
    <3> QED
      BY Zenon, <3>1
  <2>5. \A t \in Nat : Covered(t)'
    <3>1. cur[w] \in todo' /\ \A v \in Workers : cur'[v] # cur[w]
      BY ZenonT(60), <1>1, <1>5, <1>6, <2>1, <2>3
    <3>2. \E n \in todo' : \A v \in Workers : cur'[v] # n
      BY Zenon, <3>1
    <3> QED
      BY Zenon, <3>2 DEF Covered, Held
  <2> QED
    BY ZenonT(60), <1>1, <1>4, <1>7, <2>4, <2>5, WorkerKeeps DEF Followed
<1> QED
  BY Zenon, <1>10, <1>11

LEMMA FollowedUnchanged ==
    ASSUME Followed, UNCHANGED Store
    PROVE  Followed'
<1>1. UNCHANGED <<clock, history, attempts, record, added, todo, pc, began, cur, faults>>
  BY Zenon DEF Store
<1>2. \A w \in Workers : Safe(w) => Safe(w)'
  BY Zenon, <1>1 DEF Safe
<1>3. \A t \in Nat : Awaited(t)' => Awaited(t)
  BY Zenon, <1>1 DEF Awaited
<1>4. \A t \in Nat : Covered(t) => Covered(t)'
  BY Zenon, <1>1 DEF Covered, Busy, Held
<1> QED
  BY Zenon, <1>1, <1>2, <1>3, <1>4 DEF Followed

LEMMA FollowedStep ==
    ASSUME StoreInv, Followed, NoLateCrash, [Next]_vars
    PROVE  Followed'
<1>1. ASSUME NEW w \in Workers, WorkerStep(w) \/ Crash(w) PROVE Followed'
  BY Zenon, <1>1, TakeFollowed, GoesOnFollowed, LeaveFollowed DEF WorkerStep
<1>2. ASSUME NEW p \in Publishers, PublisherStep(p) \/ PublishRollback(p) PROVE Followed'
  BY Zenon, <1>2, PublisherFollowed
<1>3. ASSUME NEW r \in Redrives, RedriveLock(r) PROVE Followed'
  BY Zenon, <1>3, RedriveLockFollowed
<1>4. CASE ReaderStep
  BY Zenon, <1>4, ReaderUnchangedStore, FollowedUnchanged
<1>5. CASE UNCHANGED vars
  <2>1. UNCHANGED Store
    BY Zenon, <1>5 DEF vars, Store
  <2> QED
    BY Zenon, <2>1, FollowedUnchanged
<1> QED
  BY Zenon, <1>1, <1>2, <1>3, <1>4, <1>5 DEF Next

LEMMA FollowedStart == Init => Followed
<1> SUFFICES ASSUME Init PROVE Followed
  BY Zenon
<1>1. \A x \in Actors : pc[x] = "idle"
  BY Zenon DEF Init
<1>2. \A w \in Workers : cur[w] = 0 /\ pc[w] = "idle"
  BY Zenon, <1>1, InWorkers DEF Init
<1>3. \A p \in Publishers : pc[p] = "idle"
  BY Zenon, <1>1, InPublishers
<1>4. \A a \in history : ~(a.at > 0)
  BY DEF Init
<1>5. \A t \in Nat : ~Awaited(t)
  BY Zenon, <1>3, <1>4 DEF Awaited
<1> QED
  BY Zenon, <1>2, <1>3, <1>5 DEF Followed, Publishers

\* When nothing is going on, the newest row of an event that was sent is the
\* outcome of an attempt, for any number of workers and redrives if there is at
\* most one crash, rollback or reclaim, and for any number of these if there is
\* one worker (created_at of event_status_history, ORDER BY of
\* fetchStatusHistory).
THEOREM SettledIsOutcome ==
    ASSUME NoLateCrash
    PROVE  Spec => []SettledShowsOutcome
<1>1. StoreInv /\ Followed => SettledShowsOutcome
  <2> SUFFICES ASSUME StoreInv, Followed, Settled, pc[Outbox] = "done"
               PROVE  CurrentStatus(history) \in Outcomes
    BY Zenon DEF SettledShowsOutcome
  <2> DEFINE last == Latest(history)
  <2>1. PICK a \in history : a.at > 0
    BY Zenon DEF Followed
  <2>2. last \in history /\ \A b \in history \ {last} : Before(b, last)
    BY Zenon, <2>1, LatestRow
  <2> HIDE DEF last
  <2>3. \A b \in history : b.at \in Nat /\ b.n \in {1, 2}
    BY Zenon DEF StoreInv, StoreType, Rows
  <2>4. \A b \in history : b.at <= last.at
    BY SMTT(30), <2>2, <2>3 DEF Before
  <2>5. last.at \in Nat /\ last.at > 0
    BY SMTT(30), <2>1, <2>2, <2>3, <2>4
  <2>6. SUFFICES ASSUME last.status \notin Outcomes PROVE FALSE
    BY Zenon DEF CurrentStatus, last
  <2>7. Covered(last.at)
    <3>1. Awaited(last.at)
      BY Zenon, <2>2, <2>5, <2>6 DEF Awaited
    <3> QED
      BY Zenon, <2>5, <3>1 DEF Followed
  <2>8. ~ \E b \in history : b.status \in Outcomes /\ b.at > last.at
    BY <2>3, <2>4, <2>5
  <2>9. ~ \E n \in todo : ~Held(n)
    BY Zenon DEF Settled
  <2>10. ~ \E w \in Workers : Busy(w, last.at)
    BY Zenon DEF Settled, Busy, Outcomes
  <2> QED
    BY ZenonT(60), <2>7, <2>8, <2>9, <2>10 DEF Covered
<1>2. ASSUME StoreInv, Followed, [Next]_vars
      PROVE  Followed'
  BY Zenon, <1>2, FollowedStep
<1> QED
  BY <1>1, <1>2, StoreInvariant, FollowedStart, PTL DEF Spec
=============================================================================
