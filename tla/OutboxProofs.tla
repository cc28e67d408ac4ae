---------------------------- MODULE OutboxProofs ----------------------------
(***************************************************************************)
(* The outbox for any number of events, runners, delays and faults: what   *)
(* is marked published was sent, every further entry of an event is the    *)
(* trace of a fault, and a published row stays as it is.                   *)
(***************************************************************************)
EXTENDS Outbox, TLAPS

USE OutboxAssumption

\* The first n values of s, and that no two are the same.
Values(n, s) == { s[j] : j \in 1..n }
OneToOne(n, s) == \A j, k \in 1..n : s[j] = s[k] => j = k

Elements(s) == Values(Len(s), s)
Distinct(s) == OneToOne(Len(s), s)

\* What Enqueue and Without make of a queue.
PutIn(s, i, e) == SubSeq(s, 1, i - 1) \o <<e>> \o SubSeq(s, i, Len(s))
TakeOut(s, i) == SubSeq(s, 1, i - 1) \o SubSeq(s, i + 1, Len(s))

\* The pieces of s before and from a position.
LEMMA Pieces ==
    ASSUME NEW S, NEW s \in Seq(S), NEW i \in 1..Len(s) + 1
    PROVE  /\ SubSeq(s, 1, i - 1) \in Seq(S) /\ Len(SubSeq(s, 1, i - 1)) = i - 1
           /\ \A j \in 1..i - 1 : SubSeq(s, 1, i - 1)[j] = s[j]
           /\ SubSeq(s, i, Len(s)) \in Seq(S) /\ Len(SubSeq(s, i, Len(s))) = Len(s) - i + 1
           /\ \A j \in 1..Len(s) - i + 1 : SubSeq(s, i, Len(s))[j] = s[i + j - 1]
<1>1. /\ Len(s) \in Nat /\ i \in Int /\ i - 1 \in Int /\ Len(s) \in Int
      /\ \A j \in 1..i - 1 : s[j] \in S
      /\ \A j \in i..Len(s) : s[j] \in S
  OBVIOUS
<1>2. /\ SubSeq(s, 1, i - 1) \in Seq(S)
      /\ Len(SubSeq(s, 1, i - 1)) = IF 1 <= i - 1 THEN (i - 1) - 1 + 1 ELSE 0
      /\ \A j \in 1..(i - 1) - 1 + 1 : SubSeq(s, 1, i - 1)[j] = s[1 + j - 1]
  BY <1>1
<1>3. /\ SubSeq(s, i, Len(s)) \in Seq(S)
      /\ Len(SubSeq(s, i, Len(s))) = IF i <= Len(s) THEN Len(s) - i + 1 ELSE 0
      /\ \A j \in 1..Len(s) - i + 1 : SubSeq(s, i, Len(s))[j] = s[i + j - 1]
  BY <1>1
<1> QED
  BY <1>1, <1>2, <1>3

\* t is s, of length n, with e put in at i; t is s without its value at i.
IsInserted(n, s, t, e, i) ==
    \A j \in 1..n + 1 : t[j] = IF j < i THEN s[j] ELSE IF j = i THEN e ELSE s[j - 1]
IsRemoved(n, s, t, i) ==
    \A j \in 1..n - 1 : t[j] = IF j < i THEN s[j] ELSE s[j + 1]

\* The values of t, and that they differ.
LEMMA InsertedValues ==
    ASSUME NEW n \in Nat, NEW s, NEW t, NEW e, NEW i \in 1..n + 1,
           IsInserted(n, s, t, e, i)
    PROVE  /\ Values(n + 1, t) = Values(n, s) \cup {e}
           /\ (OneToOne(n, s) /\ e \notin Values(n, s)) => OneToOne(n + 1, t)
<1> USE DEF IsInserted, OneToOne
<1>1. ASSUME NEW j \in 1..n + 1 PROVE t[j] = e \/ \E k \in 1..n : t[j] = s[k]
  <2>1. CASE j < i
    BY <2>1
  <2>2. CASE j > i
    <3>1. j - 1 \in 1..n /\ t[j] = s[j - 1]
      BY <2>2
    <3> QED
      BY Zenon, <3>1
  <2> QED
    BY <2>1, <2>2
<1>2. ASSUME NEW j \in 1..n PROVE \E k \in 1..n + 1 : t[k] = s[j]
  <2>1. CASE j < i
    BY <2>1
  <2>2. CASE ~(j < i)
    <3>1. j + 1 \in 1..n + 1 /\ t[j + 1] = s[j]
      BY <2>2
    <3> QED
      BY Zenon, <3>1
  <2> QED
    BY Zenon, <2>1, <2>2
<1>3. t[i] = e
  OBVIOUS
<1>4. ASSUME OneToOne(n, s), e \notin Values(n, s),
             NEW j \in 1..n + 1, NEW k \in 1..n + 1, t[j] = t[k]
      PROVE  j = k
  BY <1>4 DEF Values
<1> QED
  BY <1>1, <1>2, <1>3, <1>4 DEF Values

\* The same for a function without its value at i.
LEMMA RemovedValues ==
    ASSUME NEW n \in Nat, NEW s, NEW t, NEW i \in 1..n,
           IsRemoved(n, s, t, i), OneToOne(n, s)
    PROVE  /\ Values(n - 1, t) = Values(n, s) \ {s[i]}
           /\ OneToOne(n - 1, t)
<1> USE DEF IsRemoved, OneToOne
<1>1. ASSUME NEW j \in 1..n - 1 PROVE t[j] # s[i] /\ \E k \in 1..n : t[j] = s[k]
  <2>1. CASE j < i
    BY <2>1
  <2>2. CASE ~(j < i)
    <3>1. j + 1 \in 1..n /\ t[j] = s[j + 1] /\ j + 1 # i
      BY <2>2
    <3> QED
      BY Zenon, <3>1
  <2> QED
    BY Zenon, <2>1, <2>2
<1>2. ASSUME NEW j \in 1..n, j # i PROVE \E k \in 1..n - 1 : t[k] = s[j]
  <2>1. CASE j < i
    BY <2>1
  <2>2. CASE j > i
    <3>1. j - 1 \in 1..n - 1 /\ t[j - 1] = s[j]
      BY <2>2
    <3> QED
      BY Zenon, <3>1
  <2> QED
    BY <1>2, <2>1, <2>2
<1>3. ASSUME NEW j \in 1..n - 1, NEW k \in 1..n - 1, t[j] = t[k] PROVE j = k
  BY <1>3
<1> QED
  BY <1>1, <1>2, <1>3 DEF Values

\* A row that takes its place in a queue is added to it, once.
LEMMA PutInElements ==
    ASSUME NEW S, NEW s \in Seq(S), NEW e \in S, NEW i \in 1..Len(s) + 1
    PROVE  /\ PutIn(s, i, e) \in Seq(S)
           /\ Elements(PutIn(s, i, e)) = Elements(s) \cup {e}
           /\ (Distinct(s) /\ e \notin Elements(s)) => Distinct(PutIn(s, i, e))
<1> DEFINE t == PutIn(s, i, e)
           a == SubSeq(s, 1, i - 1)
           b == SubSeq(s, i, Len(s))
           c == a \o <<e>>
<1>1. /\ a \in Seq(S) /\ b \in Seq(S) /\ Len(a) = i - 1 /\ Len(b) = Len(s) - i + 1
      /\ \A j \in 1..i - 1 : a[j] = s[j]
      /\ \A j \in 1..Len(s) - i + 1 : b[j] = s[i + j - 1]
      /\ Len(s) \in Nat /\ t = c \o b
  BY Pieces DEF PutIn
<1> HIDE DEF t, a, b
<1>2. /\ c \in Seq(S) /\ Len(c) = i
      /\ \A j \in 1..i : c[j] = IF j < i THEN s[j] ELSE e
  BY SMTT(30), <1>1
<1> HIDE DEF c
<1>3. /\ t \in Seq(S) /\ Len(t) = Len(c) + Len(b)
      /\ \A j \in 1..Len(c) + Len(b) : t[j] = IF j <= Len(c) THEN c[j] ELSE b[j - Len(c)]
  <2>1. c \in Seq(S) /\ b \in Seq(S) /\ t = c \o b
    BY Zenon, <1>1, <1>2
  <2> QED
    BY <2>1
<1>4. Len(t) = Len(s) + 1 /\ Len(s) \in Nat
  BY <1>1, <1>2, <1>3
<1>5. IsInserted(Len(s), s, t, e, i)
  BY SMTT(30), <1>1, <1>2, <1>3 DEF IsInserted
<1>6. /\ Values(Len(s) + 1, t) = Values(Len(s), s) \cup {e}
      /\ (OneToOne(Len(s), s) /\ e \notin Values(Len(s), s)) => OneToOne(Len(s) + 1, t)
  BY <1>4, <1>5, InsertedValues, Zenon
<1>7. t \in Seq(S) /\ Len(t) = Len(s) + 1
  BY Zenon, <1>3, <1>4
<1> QED
  BY <1>6, <1>7, Zenon DEF t, Elements, Distinct

\* Taking a row out of a queue in which it occurs once leaves the others.
LEMMA TakeOutElements ==
    ASSUME NEW S, NEW s \in Seq(S), NEW i \in 1..Len(s), Distinct(s)
    PROVE  /\ TakeOut(s, i) \in Seq(S)
           /\ Elements(TakeOut(s, i)) = Elements(s) \ {s[i]}
           /\ Distinct(TakeOut(s, i))
<1> DEFINE t == TakeOut(s, i)
           a == SubSeq(s, 1, i - 1)
           b == SubSeq(s, i + 1, Len(s))
<1>1. /\ a \in Seq(S) /\ b \in Seq(S) /\ Len(a) = i - 1 /\ Len(b) = Len(s) - i
      /\ \A j \in 1..i - 1 : a[j] = s[j]
      /\ \A j \in 1..Len(s) - i : b[j] = s[i + j]
      /\ Len(s) \in Nat /\ t = a \o b
  <2>1. i \in 1..Len(s) + 1 /\ i + 1 \in 1..Len(s) + 1 /\ Len(s) \in Nat
    OBVIOUS
  <2> QED
    BY <2>1, Pieces DEF TakeOut
<1> HIDE DEF t, a, b
<1>2. /\ t \in Seq(S) /\ Len(t) = Len(a) + Len(b)
      /\ \A j \in 1..Len(a) + Len(b) : t[j] = IF j <= Len(a) THEN a[j] ELSE b[j - Len(a)]
  <2>1. a \in Seq(S) /\ b \in Seq(S) /\ t = a \o b
    BY Zenon, <1>1
  <2> QED
    BY <2>1
<1>3. Len(t) = Len(s) - 1 /\ Len(s) \in Nat
  BY <1>1, <1>2
<1>4. IsRemoved(Len(s), s, t, i)
  <2> SUFFICES ASSUME NEW j \in 1..Len(s) - 1 PROVE t[j] = IF j < i THEN s[j] ELSE s[j + 1]
    BY Zenon DEF IsRemoved
  <2>1. CASE j < i
    BY <1>1, <1>2, <2>1, SMTT(20)
  <2>2. CASE ~(j < i)
    <3>1. t[j] = b[j - (i - 1)] /\ j - (i - 1) \in 1..Len(s) - i
      BY SMTT(30), <1>1, <1>2, <2>2
    <3>2. b[j - (i - 1)] = s[i + (j - (i - 1))]
      BY Zenon, <1>1, <3>1
    <3>3. i + (j - (i - 1)) = j + 1
      BY <1>1
    <3> QED
      BY <2>2, <3>1, <3>2, <3>3
  <2> QED
    BY Zenon, <2>1, <2>2
<1>5. OneToOne(Len(s), s)
  BY Zenon DEF Distinct
<1>6. /\ Values(Len(s) - 1, t) = Values(Len(s), s) \ {s[i]}
      /\ OneToOne(Len(s) - 1, t)
  BY <1>3, <1>4, <1>5, RemovedValues, Zenon
<1>7. t \in Seq(S) /\ Len(t) = Len(s) - 1
  BY Zenon, <1>2, <1>3
<1> QED
  BY <1>6, <1>7, Zenon DEF t, Elements, Distinct

-----------------------------------------------------------------------------
(* The inductive invariant.                                                *)

InTx == {"publish", "mark", "reschedule"}

\* The queue holds pending rows, each once.
QueueInv ==
    /\ Distinct(queue)
    /\ \A e \in Elements(queue) : status[e] = "pending"

\* A transaction works on a pending row that no other has locked.
LockInv ==
    /\ \A p \in Publishers : IF pc[p] \in InTx THEN row[p] \in Elements(queue) ELSE row[p] = NoRow
    /\ \A p, q \in Publishers : (row[p] = row[q] /\ row[p] # NoRow) => p = q

\* Some transaction has sent e and has not yet ended.
Marking(e) == \E p \in Publishers : pc[p] = "mark" /\ row[p] = e

\* Without a fault an event is sent once, by the transaction that marks it.
SentInv ==
    \A e \in Events :
        /\ (status[e] = "published" \/ Marking(e)) => sent[e] > 0
        /\ sent[e] <= 1 + faults
        /\ (status[e] # "published" /\ ~Marking(e)) => sent[e] <= faults

OutboxInv == TypeOK /\ QueueInv /\ LockInv /\ SentInv

LEMMA WithoutElements ==
    ASSUME TypeOK, QueueInv, NEW e \in Elements(queue)
    PROVE  /\ Without(e) \in Seq(Events) /\ Distinct(Without(e))
           /\ Elements(Without(e)) = Elements(queue) \ {e}
<1> DEFINE i == CHOOSE i \in 1..Len(queue) : queue[i] = e
<1>1. i \in 1..Len(queue) /\ queue[i] = e
  BY Zenon DEF Elements, Values
<1>2. queue \in Seq(Events) /\ Distinct(queue)
  BY Zenon DEF TypeOK, QueueInv
<1>3. Without(e) = TakeOut(queue, i)
  BY Zenon DEF Without, TakeOut
<1> HIDE DEF i
<1>4. /\ TakeOut(queue, i) \in Seq(Events) /\ Distinct(TakeOut(queue, i))
      /\ Elements(TakeOut(queue, i)) = Elements(queue) \ {queue[i]}
  BY <1>1, <1>2, TakeOutElements, Zenon
<1> QED
  BY <1>1, <1>3, <1>4, Zenon

LEMMA EnqueueElements ==
    ASSUME NEW rest \in Seq(Events), NEW e \in Events, NEW behind, Enqueue(rest, e, behind),
           Distinct(rest), e \notin Elements(rest)
    PROVE  /\ queue' \in Seq(Events) /\ Distinct(queue')
           /\ Elements(queue') = Elements(rest) \cup {e}
<1>1. PICK i \in 1..Len(rest) + 1 : queue' = PutIn(rest, i, e)
  BY Zenon DEF Enqueue, PutIn
<1> QED
  BY <1>1, PutInElements

\* Rows of the queue are events.
LEMMA ElementsAreEvents == TypeOK => Elements(queue) \subseteq Events /\ NoRow \notin Elements(queue)
  BY SMTT(20) DEF TypeOK, Elements, Values

\* What a transaction has in hand, for those who compose Outbox with others.
LEMMA RowsInHand ==
    ASSUME OutboxInv
    PROVE  /\ \A e \in Events : status[e] = "published" => sent[e] > 0
           /\ \A p \in Publishers : pc[p] \in {"publish", "mark", "reschedule"} =>
                  row[p] \in Events /\ status[row[p]] = "pending"
           /\ faults = 0 => \A p \in Publishers : pc[p] = "publish" => ~(sent[row[p]] > 0)
<1>1. \A e \in Events : status[e] = "published" => sent[e] > 0
  BY Zenon DEF OutboxInv, SentInv
<1>2. ASSUME NEW p \in Publishers, pc[p] \in {"publish", "mark", "reschedule"}
      PROVE  row[p] \in Events /\ status[row[p]] = "pending" /\ row[p] # NoRow
  <2>1. row[p] \in Elements(queue)
    BY Zenon, <1>2 DEF OutboxInv, LockInv, InTx
  <2> QED
    BY Zenon, <2>1, ElementsAreEvents DEF OutboxInv, QueueInv
<1>3. ASSUME faults = 0, NEW p \in Publishers, pc[p] = "publish"
      PROVE  ~(sent[row[p]] > 0)
  <2>1. ~Marking(row[p])
    BY Zenon, <1>2, <1>3 DEF Marking, OutboxInv, LockInv
  <2>2. row[p] \in Events /\ status[row[p]] # "published"
    BY Zenon, <1>2, <1>3
  <2>3. sent[row[p]] <= faults
    BY Zenon, <2>1, <2>2 DEF OutboxInv, SentInv
  <2>4. sent[row[p]] \in Nat
    BY Zenon, <2>2 DEF OutboxInv, TypeOK
  <2> QED
    BY <1>3, <2>3, <2>4
<1> QED
  BY Zenon, <1>1, <1>2, <1>3

LEMMA OutboxInit == Init => OutboxInv
<1> SUFFICES ASSUME Init PROVE OutboxInv
  BY Zenon
<1>1. queue = <<>> /\ Len(queue) = 0
  BY Zenon DEF Init
<1>2. TypeOK
  BY DEF Init, TypeOK
<1>3. QueueInv
  BY <1>1 DEF QueueInv, Distinct, OneToOne, Elements, Values
<1>4. LockInv /\ SentInv
  BY DEF Init, LockInv, SentInv, InTx, Marking
<1> QED
  BY Zenon, <1>2, <1>3, <1>4 DEF OutboxInv

\* The row of a transaction is pending, and nobody else is at it.
LEMMA OwnRow ==
    ASSUME OutboxInv, NEW p \in Publishers, pc[p] \in InTx
    PROVE  /\ row[p] \in Events /\ row[p] \in Elements(queue) /\ status[row[p]] = "pending"
           /\ \A q \in Publishers : row[q] = row[p] => q = p
           /\ Marking(row[p]) => pc[p] = "mark"
<1>1. row[p] \in Elements(queue)
  BY Zenon DEF OutboxInv, LockInv
<1>2. row[p] \in Events /\ row[p] # NoRow
  BY Zenon, <1>1, ElementsAreEvents DEF OutboxInv
<1>3. status[row[p]] = "pending"
  BY <1>1 DEF OutboxInv, QueueInv
<1>4. \A q \in Publishers : row[q] = row[p] => q = p
  BY Zenon, <1>2 DEF OutboxInv, LockInv
<1> QED
  BY Zenon, <1>1, <1>2, <1>3, <1>4 DEF Marking

\* A commit or a rollback gives up the lock.
LEMMA ReleaseLocks ==
    ASSUME OutboxInv, NEW p \in Publishers, NEW next \in {"poll", "wait"}, Release(p, next)
    PROVE  /\ pc' \in [Publishers -> {"poll", "wait", "publish", "mark", "reschedule"}]
           /\ row' \in [Publishers -> Events \cup {NoRow}]
           /\ ahead' \in [Publishers -> SUBSET Events]
           /\ pc'[p] \notin InTx /\ row'[p] = NoRow
           /\ \A q \in Publishers : q # p => pc'[q] = pc[q] /\ row'[q] = row[q]
  BY DEF OutboxInv, TypeOK, Release, InTx

\* SELECT ... FOR UPDATE SKIP LOCKED.
LEMMA ClaimKeeps ==
    ASSUME OutboxInv, NEW p \in Publishers, Claim(p)
    PROVE  OutboxInv'
<1>1. PICK i \in 1..Len(queue) : ~Locked(queue[i]) /\ row' = [row EXCEPT ![p] = queue[i]]
  BY Zenon DEF Claim
<1>2. queue[i] \in Elements(queue) /\ queue[i] \in Events /\ Due \subseteq Events
  BY SMTT(30) DEF Elements, Values, OutboxInv, TypeOK, Due, Pending
<1>3. UNCHANGED <<status, queue, left, sent, faults>> /\ pc[p] = "poll"
      /\ pc' = [pc EXCEPT ![p] = "publish"] /\ ahead' = [ahead EXCEPT ![p] = Due]
  BY Zenon DEF Claim
<1>4. TypeOK'
  BY Zenon, <1>1, <1>2, <1>3 DEF OutboxInv, TypeOK
<1>5. QueueInv'
  BY Zenon, <1>3 DEF OutboxInv, QueueInv
<1>6. LockInv'
  BY Zenon, <1>1, <1>2, <1>3 DEF OutboxInv, LockInv, TypeOK, Locked, InTx
<1>7. \A e \in Events : Marking(e)' <=> Marking(e)
  BY SMTT(30), <1>1, <1>3 DEF OutboxInv, TypeOK, Marking
<1>8. SentInv'
  BY Zenon, <1>3, <1>7 DEF OutboxInv, SentInv
<1> QED
  BY <1>4, <1>5, <1>6, <1>8, SMTT(20) DEF OutboxInv

\* Time, and the steps in which a runner waits or learns that XADD failed.
LEMMA QuietKeeps ==
    ASSUME OutboxInv,
           \/ Tick
           \/ \E p \in Publishers : ClaimNothing(p) \/ XAddFails(p) \/ Wake(p)
    PROVE  OutboxInv'
<1>1. UNCHANGED <<status, queue, sent, row, ahead, faults>>
  BY Zenon DEF Tick, ClaimNothing, XAddFails, Wake
<1>2. TypeOK'
  <2>1. CASE Tick
    BY <1>1, <2>1, SMTT(20) DEF OutboxInv, TypeOK, Tick
  <2>2. ASSUME NEW p \in Publishers, ClaimNothing(p) \/ XAddFails(p) \/ Wake(p)
        PROVE  TypeOK'
    BY Zenon, <1>1, <2>2 DEF OutboxInv, TypeOK, ClaimNothing, XAddFails, Wake
  <2> QED
    BY <2>1, <2>2
<1>3. \A p \in Publishers :
        (pc'[p] \in InTx <=> pc[p] \in InTx) /\ (pc'[p] = "mark" <=> pc[p] = "mark")
  BY DEF OutboxInv, TypeOK, Tick, ClaimNothing, XAddFails, Wake, InTx
<1>4. QueueInv' /\ LockInv'
  BY Zenon, <1>1, <1>3 DEF OutboxInv, QueueInv, LockInv
<1>5. \A e \in Events : Marking(e)' <=> Marking(e)
  BY Zenon, <1>1, <1>3 DEF Marking
<1>6. SentInv'
  BY <1>1, <1>5 DEF OutboxInv, SentInv
<1> QED
  BY <1>2, <1>4, <1>6 DEF OutboxInv

\* The entry is in the stream, once for the transaction that goes on to mark
\* the row, and once more only at the price of a fault.
LEMMA XAddKeeps ==
    ASSUME OutboxInv, NEW p \in Publishers, XAdd(p)
    PROVE  OutboxInv'
<1> DEFINE e == row[p]
<1>1. /\ pc[p] = "publish" /\ UNCHANGED <<status, queue, left, row, ahead>>
      /\ sent' = [sent EXCEPT ![e] = @ + 1]
  BY DEF XAdd
<1>2. PICK next \in {"publish", "mark", "reschedule"} :
        /\ pc' = [pc EXCEPT ![p] = next]
        /\ IF next = "mark" THEN faults' = faults ELSE faults < MaxFaults /\ faults' = faults + 1
  BY <1>1 DEF XAdd, Fault, OutboxInv, TypeOK
<1>3. /\ e \in Events /\ status[e] = "pending" /\ ~Marking(e)
      /\ \A q \in Publishers : row[q] = e => q = p
  BY Zenon, <1>1, OwnRow DEF InTx
<1> HIDE DEF e
<1>4. TypeOK'
  BY SMTT(30), <1>1, <1>2, <1>3 DEF OutboxInv, TypeOK
<1>5. QueueInv' /\ LockInv'
  BY Zenon, <1>1, <1>2 DEF OutboxInv, TypeOK, QueueInv, LockInv, InTx
<1>6. \A d \in Events : Marking(d)' <=> IF d = e THEN next = "mark" ELSE Marking(d)
  BY Zenon, <1>1, <1>2, <1>3 DEF OutboxInv, TypeOK, Marking, e
<1>7. SentInv'
  <2>1. sent[e] \in Nat /\ sent[e] <= faults /\ faults \in Nat /\ faults' \in Nat
        /\ sent'[e] = sent[e] + 1 /\ faults <= faults'
    BY <1>1, <1>2, <1>3 DEF OutboxInv, TypeOK, SentInv
  <2>2. ASSUME NEW d \in Events, d # e
        PROVE  sent'[d] = sent[d] /\ sent[d] \in Nat /\ status'[d] = status[d]
    BY Zenon, <1>1, <2>2 DEF OutboxInv, TypeOK
  <2>3. ASSUME NEW d \in Events, d # e
        PROVE  /\ (status'[d] = "published" \/ Marking(d)') => sent'[d] > 0
               /\ sent'[d] <= 1 + faults'
               /\ (status'[d] # "published" /\ ~Marking(d)') => sent'[d] <= faults'
    BY <1>6, <2>1, <2>2, <2>3, SMTT(20) DEF OutboxInv, SentInv
  <2>4. ASSUME NEW d \in Events, d = e
        PROVE  /\ sent'[d] > 0 /\ sent'[d] <= 1 + faults'
               /\ ~Marking(d)' => sent'[d] <= faults'
    BY <1>2, <1>6, <2>1, <2>4, SMTT(20)
  <2> QED
    BY <2>3, <2>4 DEF SentInv
<1> QED
  BY <1>4, <1>5, <1>7 DEF OutboxInv

LEMMA RollbackKeeps ==
    ASSUME OutboxInv, NEW p \in Publishers, Rollback(p)
    PROVE  OutboxInv'
<1>1. /\ pc[p] \in InTx /\ Release(p, "wait") /\ UNCHANGED <<status, queue, left, sent>>
      /\ faults < MaxFaults /\ faults' = faults + 1
  BY DEF Rollback, Fault, InTx
<1>2. /\ pc' \in [Publishers -> {"poll", "wait", "publish", "mark", "reschedule"}]
      /\ row' \in [Publishers -> Events \cup {NoRow}] /\ ahead' \in [Publishers -> SUBSET Events]
      /\ pc'[p] \notin InTx /\ row'[p] = NoRow
      /\ \A q \in Publishers : q # p => pc'[q] = pc[q] /\ row'[q] = row[q]
  BY Zenon, <1>1, ReleaseLocks
<1>3. TypeOK'
  BY <1>1, <1>2 DEF OutboxInv, TypeOK
<1>4. QueueInv' /\ LockInv'
  BY Zenon, <1>1, <1>2 DEF OutboxInv, QueueInv, LockInv
<1>5. \A e \in Events : Marking(e)' => Marking(e)
  BY Zenon, <1>2 DEF Marking, InTx
<1>6. SentInv'
  BY <1>1, <1>5 DEF OutboxInv, TypeOK, SentInv
<1> QED
  BY Zenon, <1>3, <1>4, <1>6 DEF OutboxInv

\* What a commit that is done leaves of the transaction.
LEMMA CommittedReleases ==
    ASSUME OutboxInv, NEW p \in Publishers, Committed(p)
    PROVE  /\ pc' \in [Publishers -> {"poll", "wait", "publish", "mark", "reschedule"}]
           /\ row' \in [Publishers -> Events \cup {NoRow}]
           /\ ahead' \in [Publishers -> SUBSET Events]
           /\ faults' \in 0..MaxFaults /\ faults <= faults'
           /\ pc'[p] \notin InTx /\ row'[p] = NoRow
           /\ \A q \in Publishers : q # p => pc'[q] = pc[q] /\ row'[q] = row[q]
<1>1. CASE Release(p, "poll") /\ UNCHANGED faults
  BY <1>1, ReleaseLocks DEF OutboxInv, TypeOK
<1>2. CASE Release(p, "wait") /\ Fault
  BY <1>2, ReleaseLocks DEF OutboxInv, TypeOK, Fault
<1> QED
  BY <1>1, <1>2 DEF Committed

LEMMA MarkKeeps ==
    ASSUME OutboxInv, NEW p \in Publishers, MarkPublished(p)
    PROVE  OutboxInv'
<1> DEFINE e == row[p]
<1>1. /\ pc[p] = "mark" /\ Committed(p) /\ UNCHANGED <<left, sent>>
      /\ status' = [status EXCEPT ![e] = "published"] /\ queue' = Without(e)
  BY DEF MarkPublished
<1>2. /\ e \in Events /\ e \in Elements(queue) /\ Marking(e)
      /\ \A q \in Publishers : row[q] = e => q = p
  BY Zenon, <1>1, OwnRow DEF InTx, Marking
<1> HIDE DEF e
<1>3. /\ queue' \in Seq(Events) /\ Distinct(queue')
      /\ Elements(queue') = Elements(queue) \ {e}
  BY <1>1, <1>2, WithoutElements DEF OutboxInv
<1>4. TypeOK'
  BY <1>1, <1>3, CommittedReleases, Zenon DEF OutboxInv, TypeOK
<1>5. QueueInv'
  BY <1>1, <1>2, <1>3, ElementsAreEvents, SMTT(20) DEF OutboxInv, TypeOK, QueueInv
<1>6. LockInv'
  <2>1. \A q \in Publishers : pc'[q] \in InTx => q # p /\ row'[q] # e
    BY Zenon, <1>1, <1>2, CommittedReleases
  <2> QED
    BY <1>1, <1>3, <2>1, CommittedReleases, SMTT(20) DEF OutboxInv, LockInv
<1>7. \A d \in Events : Marking(d)' <=> (Marking(d) /\ d # e)
  BY <1>1, <1>2, CommittedReleases, SMTT(20) DEF Marking, InTx, e
<1>8. SentInv'
  <2> SUFFICES ASSUME NEW d \in Events
               PROVE  /\ (status'[d] = "published" \/ Marking(d)') => sent'[d] > 0
                      /\ sent'[d] <= 1 + faults'
                      /\ (status'[d] # "published" /\ ~Marking(d)') => sent'[d] <= faults'
    BY Zenon DEF SentInv
  <2>1. /\ sent'[d] = sent[d] /\ sent[d] \in Nat /\ faults \in Nat /\ faults' \in Nat
        /\ faults <= faults'
    BY <1>1, CommittedReleases DEF OutboxInv, TypeOK
  <2>2. status'[d] = IF d = e THEN "published" ELSE status[d]
    BY <1>1, <1>2 DEF OutboxInv, TypeOK
  <2>3. (d = e \/ Marking(d)) => sent[d] > 0
    BY Zenon, <1>2 DEF OutboxInv, SentInv
  <2> QED
    BY <1>7, <2>1, <2>2, <2>3, SMTT(20) DEF OutboxInv, SentInv
<1> QED
  BY Zenon, <1>4, <1>5, <1>6, <1>8 DEF OutboxInv

LEMMA RescheduleKeeps ==
    ASSUME OutboxInv, NEW p \in Publishers, Reschedule(p)
    PROVE  OutboxInv'
<1> DEFINE e == row[p]
<1>1. /\ pc[p] = "reschedule" /\ Committed(p) /\ UNCHANGED <<status, sent>>
      /\ Enqueue(Without(e), e, ahead[p])
  BY DEF Reschedule
<1>2. PICK delay \in 0..MaxDelay : left' = [left EXCEPT ![e] = delay]
  BY Zenon DEF Reschedule
<1>3. e \in Events /\ e \in Elements(queue)
  BY <1>1, OwnRow DEF InTx
<1> HIDE DEF e
<1>4. /\ Without(e) \in Seq(Events) /\ Distinct(Without(e))
      /\ Elements(Without(e)) = Elements(queue) \ {e}
  BY Zenon, <1>3, WithoutElements DEF OutboxInv
<1>5. /\ queue' \in Seq(Events) /\ Distinct(queue')
      /\ Elements(queue') = (Elements(queue) \ {e}) \cup {e}
  <2>1. e \notin Elements(Without(e))
    BY Zenon, <1>4
  <2> QED
    BY <1>1, <1>3, <1>4, <2>1, EnqueueElements, SMTT(20)
<1>6. Elements(queue') = Elements(queue)
  BY <1>3, <1>5
<1>7. TypeOK'
  BY <1>1, <1>2, <1>3, <1>5, CommittedReleases, SMTT(20) DEF OutboxInv, TypeOK
<1>8. QueueInv'
  BY <1>1, <1>5, <1>6, SMTT(20) DEF OutboxInv, QueueInv
<1>9. LockInv'
  BY <1>1, <1>6, CommittedReleases DEF OutboxInv, LockInv
<1>10. \A d \in Events : Marking(d)' <=> Marking(d)
  BY Zenon, <1>1, CommittedReleases DEF Marking, InTx
<1>11. SentInv'
  <2>1. faults \in Nat /\ faults' \in Nat /\ faults <= faults' /\ \A d \in Events : sent[d] \in Nat
    BY <1>1, CommittedReleases DEF OutboxInv, TypeOK
  <2> QED
    BY <1>1, <1>10, <2>1, SMTT(20) DEF OutboxInv, SentInv
<1> QED
  BY Zenon, <1>7, <1>8, <1>9, <1>11 DEF OutboxInv

LEMMA InsertKeeps ==
    ASSUME OutboxInv, NEW e \in Events, Insert(e)
    PROVE  OutboxInv'
<1>1. /\ status[e] = "none" /\ status' = [status EXCEPT ![e] = "pending"]
      /\ left' = [left EXCEPT ![e] = 0] /\ Enqueue(queue, e, {})
      /\ UNCHANGED <<sent, pc, row, ahead, faults>>
  BY Zenon DEF Insert
<1>2. e \notin Elements(queue) /\ queue \in Seq(Events) /\ Distinct(queue)
  BY Zenon, <1>1 DEF OutboxInv, QueueInv, TypeOK
<1>3. /\ queue' \in Seq(Events) /\ Distinct(queue')
      /\ Elements(queue') = Elements(queue) \cup {e}
  BY <1>1, <1>2, EnqueueElements, SMTT(20)
<1>4. TypeOK'
  BY <1>1, <1>3 DEF OutboxInv, TypeOK
<1>5. QueueInv'
  BY <1>1, <1>3, ElementsAreEvents, SMTT(20) DEF OutboxInv, TypeOK, QueueInv
<1>6. LockInv'
  BY Zenon, <1>1, <1>3 DEF OutboxInv, LockInv
<1>7. \A d \in Events :
        (Marking(d)' <=> Marking(d)) /\ (status'[d] = "published" <=> status[d] = "published")
  <2>1. \A d \in Events : status'[d] = "published" <=> status[d] = "published"
    BY <1>1 DEF OutboxInv, TypeOK
  <2> QED
    BY Zenon, <1>1, <2>1 DEF Marking
<1>8. SentInv'
  BY Zenon, <1>1, <1>7 DEF OutboxInv, SentInv
<1> QED
  BY <1>4, <1>5, <1>6, <1>8, SMTT(20) DEF OutboxInv

LEMMA OutboxStep == OutboxInv /\ [Next]_vars => OutboxInv'
<1>1. ASSUME OutboxInv, UNCHANGED vars PROVE OutboxInv'
  BY Zenon, <1>1 DEF vars, OutboxInv, TypeOK, QueueInv, LockInv, SentInv, Marking
<1>2. ASSUME OutboxInv, NEW p \in Publishers, Run(p) \/ Rollback(p) PROVE OutboxInv'
  BY <1>2, ClaimKeeps, QuietKeeps, XAddKeeps, MarkKeeps, RescheduleKeeps, RollbackKeeps, SMTT(20) DEF Run
<1> QED
  BY <1>1, <1>2, InsertKeeps, QuietKeeps, SMTT(20) DEF Next

LEMMA OutboxInvariant == Spec => []OutboxInv
  BY OutboxInit, OutboxStep, PTL DEF Spec

\* For any number of rows, runners and faults: a row is marked published only
\* when its entry is in the stream (PublishNextOutboxEvent).
THEOREM PublishedRowsSent == Spec => []PublishedWasSent
<1>1. OutboxInv => PublishedWasSent
  BY Zenon DEF OutboxInv, SentInv, PublishedWasSent
<1> QED
  BY <1>1, OutboxInvariant, PTL

\* For any number of rows, runners and faults: every further entry of an event
\* is the trace of a fault (FOR UPDATE SKIP LOCKED, markOutboxPublished).
THEOREM DuplicatesAreFaults == Spec => []DuplicatesNeedFaults
<1>1. OutboxInv => DuplicatesNeedFaults
  BY Zenon DEF OutboxInv, SentInv, DuplicatesNeedFaults
<1> QED
  BY <1>1, OutboxInvariant, PTL

\* What a step may never do: send a published row again, or reopen it.
FinalStep ==
    \A e \in Events : status[e] = "published" => status'[e] = "published" /\ sent'[e] = sent[e]

LEMMA StepIsFinal == OutboxInv /\ [Next]_vars => [FinalStep]_vars
<1> SUFFICES ASSUME OutboxInv, Next, NEW e \in Events, status[e] = "published"
             PROVE  status'[e] = "published" /\ sent'[e] = sent[e]
  BY Zenon DEF FinalStep
<1>1. ASSUME NEW p \in Publishers, XAdd(p) \/ MarkPublished(p)
      PROVE  status'[e] = "published" /\ sent'[e] = sent[e]
  <2>1. row[p] # e
    BY Zenon, <1>1, OwnRow DEF XAdd, MarkPublished, InTx
  <2> QED
    BY <1>1, <2>1, SMTT(20) DEF XAdd, MarkPublished, OutboxInv, TypeOK
<1>2. ASSUME NEW d \in Events, Insert(d)
      PROVE  status'[e] = "published" /\ sent'[e] = sent[e]
  BY <1>2 DEF Insert, OutboxInv, TypeOK
<1> QED
  BY <1>1, <1>2 DEF Next, Run, Tick, Claim, ClaimNothing, XAddFails, Reschedule, Rollback, Wake

\* Whichever runners were working on it, a published row is final: no runner
\* holds its lock, and the claim asks for status = 'pending'.
THEOREM PublishedRowsFinal == Spec => PublishedIsFinal
<1>1. [][FinalStep]_vars <=> PublishedIsFinal
  BY PTL DEF FinalStep, PublishedIsFinal
<1> QED
  BY <1>1, OutboxInvariant, StepIsFinal, PTL DEF Spec

====
