--------------------------- MODULE IngestionProofs ---------------------------
(***************************************************************************)
(* PersistEventWithOutbox for any number of concurrent requests: event and *)
(* outbox row are stored together, and the transactions implement the      *)
(* atomic store of IdempotentStore.                                        *)
(***************************************************************************)
EXTENDS Ingestion, TLAPS

USE IngestionAssumption

\* The row a transaction has inserted is the only one, committed or not, with
\* its ID and its key, and is staged with its outbox row.
Reserved(q) ==
    /\ id[q] \in EventIds
    /\ \A ev \in events : ev.id # id[q] /\ (Key[q] # NoKey => ev.key # Key[q])
    /\ \A r \in Requests : (r # q /\ Inserted(r)) =>
        id[r] # id[q] /\ (Key[q] # NoKey => Key[r] # Key[q])
    /\ pc[q] = "commit" => staged[q] = {id[q]}

\* The row that existingEventIDForMatchingRequestHash has found.
Matching(q) ==
    /\ Key[q] # NoKey
    /\ [id |-> id[q], key |-> Key[q], hash |-> Hash[q]] \in events

\* StoredWithOutbox, and what a transaction knows between its statements.
StoreInv ==
    /\ StoredWithOutbox
    /\ \A q \in Requests :
        /\ Inserted(q) => Reserved(q)
        /\ pc[q] = "found" => Matching(q)
        /\ pc[q] # "done" => answer[q] = Store!Unanswered

\* What a COMMIT stores, for those who compose Ingestion with others.
LEMMA CommitsItsRow ==
    StoreInv => \A q \in Requests : pc[q] = "commit" => id[q] \in EventIds /\ staged[q] = {id[q]}
  BY Zenon DEF StoreInv, Inserted, Reserved

LEMMA StoreInit == Init => StoreInv
<1> SUFFICES ASSUME Init PROVE StoreInv
  BY Zenon
<1>1. TypeOK
  BY Zenon DEF Init, TypeOK, Store!Unanswered
<1>2. outbox = { ev.id : ev \in events \ LegacyEvents }
  BY Zenon DEF Init
<1>3. \A q \in Requests : ~Accepted(q) /\ ~Inserted(q) /\ pc[q] = "insert"
  BY Zenon DEF Init, Accepted, Inserted, Store!Unanswered
<1> QED
  BY Zenon, <1>1, <1>2, <1>3 DEF StoreInv, StoredWithOutbox, Init

\* The transaction of q ends with an answer that names no event, or one that
\* is stored; what the table holds is left alone.
LEMMA RespondKeeps ==
    ASSUME StoreInv, NEW q \in Requests,
           NEW code \in {"created", "existing", "conflict", "error"},
           NEW i \in EventIds \cup {0}, Respond(q, code, i),
           code \in {"created", "existing"} =>
               [id |-> i, key |-> Key[q], hash |-> Hash[q]] \in events,
           UNCHANGED <<events, outbox>>
    PROVE  StoreInv'
<1> USE DEF StoreInv, StoredWithOutbox
<1>1. TypeOK'
  BY Zenon DEF TypeOK, Respond, Goto
<1>2. outbox' = { ev.id : ev \in events' \ LegacyEvents }
  BY Zenon
<1>3. ASSUME NEW r \in Requests, Accepted(r)'
      PROVE  [id |-> answer'[r].id, key |-> Key[r], hash |-> Hash[r]] \in events'
  BY Zenon, <1>3 DEF Respond, Accepted, TypeOK
<1>4. /\ pc'[q] = "done"
      /\ \A r \in Requests : r # q => pc'[r] = pc[r] /\ id'[r] = id[r] /\ staged'[r] = staged[r]
                                    /\ answer'[r] = answer[r]
  BY Zenon DEF Respond, Goto, TypeOK
<1>5. ASSUME NEW r \in Requests, Inserted(r)' PROVE Reserved(r)'
  <2>1. r # q /\ Inserted(r) /\ Reserved(r)
    BY Zenon, <1>4, <1>5 DEF Inserted
  <2> QED
    BY <1>4, <2>1 DEF Reserved, Inserted
<1>6. ASSUME NEW r \in Requests, pc'[r] = "found" PROVE Matching(r)'
  <2>1. r # q /\ Matching(r)
    BY Zenon, <1>4, <1>6
  <2> QED
    BY Zenon, <1>4, <2>1 DEF Matching
<1>7. ASSUME NEW r \in Requests, pc'[r] # "done" PROVE answer'[r] = Store!Unanswered
  BY Zenon, <1>4, <1>7
<1> QED
  BY Zenon, <1>1, <1>2, <1>3, <1>5, <1>6, <1>7

\* A row with the request's hash is not one from before the column existed,
\* which validateExistingRequestHash refuses.
LEMMA FoundRow ==
    ASSUME StoreInv, NEW q \in Requests, NEW ev \in WithKey(Key[q]),
           HashMatches(ev.hash, Hash[q])
    PROVE  /\ ev.id \in EventIds
           /\ ev = [id |-> ev.id, key |-> Key[q], hash |-> Hash[q]]
           /\ Key[q] # NoKey /\ ev \in events
<1>1. ev \in events \ LegacyEvents /\ ev.key = Key[q] /\ Key[q] # NoKey /\ ev.hash = Hash[q]
  BY Zenon DEF WithKey, HashMatches
<1>2. PICK r \in Requests, i \in EventIds : ev = [id |-> i, key |-> Key[r], hash |-> Hash[r]]
  BY Zenon, <1>1 DEF StoreInv, StoredWithOutbox, TypeOK
<1> QED
  BY Zenon, <1>1, <1>2

\* The steps before the commit change nothing that another request can see
\* but the rows it has inserted.
LEMMA StatementKeeps ==
    ASSUME StoreInv, NEW q \in Requests,
           InsertEvent(q) \/ InsertConflicts(q) \/ InsertOutbox(q)
    PROVE  StoreInv'
<1> USE DEF StoreInv, StoredWithOutbox
<1>1. TypeOK'
  <2>1. CASE InsertEvent(q)
    BY <2>1 DEF TypeOK, InsertEvent, Goto
  <2>2. CASE InsertConflicts(q)
    BY Zenon, <2>2 DEF TypeOK, InsertConflicts, Goto
  <2>3. CASE InsertOutbox(q)
    <3>1. id[q] \in EventIds
      BY Zenon, <2>3 DEF InsertOutbox, Inserted, Reserved
    <3> QED
      BY Zenon, <2>3, <3>1 DEF TypeOK, InsertOutbox, Goto
  <2> QED
    BY Zenon, <2>1, <2>2, <2>3
<1>2. UNCHANGED <<events, outbox, answer>>
  BY Zenon DEF InsertEvent, InsertConflicts, InsertOutbox
<1>3. ASSUME NEW r \in Requests
      PROVE  /\ pc'[r] = "found" => Matching(r)'
             /\ pc'[r] # "done" => answer'[r] = Store!Unanswered
  <2>1. pc[q] # "done" /\ pc'[q] \notin {"found", "done"}
    BY Zenon DEF TypeOK, InsertEvent, InsertConflicts, InsertOutbox, Goto
  <2>2. r # q => pc'[r] = pc[r] /\ id'[r] = id[r]
    BY Zenon DEF TypeOK, InsertEvent, InsertConflicts, InsertOutbox, Goto
  <2>3. pc'[r] = "found" => Matching(r)'
    BY Zenon, <1>2, <2>1, <2>2 DEF Matching
  <2> QED
    BY Zenon, <1>2, <2>1, <2>2, <2>3
<1>4. ASSUME NEW r \in Requests, Inserted(r)' PROVE Reserved(r)'
  <2>1. CASE InsertEvent(q)
    BY <1>2, <1>4, <2>1 DEF TypeOK, InsertEvent, Goto, Inserted, Reserved, WithKey, Held, UsedIds
  <2>2. CASE InsertConflicts(q)
    BY ZenonT(60), <1>2, <1>4, <2>2 DEF TypeOK, InsertConflicts, Goto, Inserted, Reserved
  <2>3. CASE InsertOutbox(q)
    BY <1>2, <1>4, <2>3 DEF TypeOK, InsertOutbox, Goto, Inserted, Reserved
  <2> QED
    BY Zenon, <2>1, <2>2, <2>3
<1> QED
  BY Zenon, <1>1, <1>2, <1>3, <1>4 DEF Accepted

LEMMA LookupKeeps ==
    ASSUME StoreInv, NEW q \in Requests, Lookup(q)
    PROVE  StoreInv'
<1>1. PICK ev \in WithKey(Key[q]) :
        \/ Find(q, ev)
        \/ ~HashMatches(ev.hash, Hash[q]) /\ Respond(q, "conflict", 0)
  BY Zenon DEF Lookup
<1>2. CASE Respond(q, "conflict", 0)
  BY Zenon, <1>2, RespondKeeps DEF Lookup
<1>3. CASE Find(q, ev)
  <2>1. /\ ev.id \in EventIds /\ Key[q] # NoKey
        /\ [id |-> ev.id, key |-> Key[q], hash |-> Hash[q]] \in events
    BY Zenon, <1>3, FoundRow DEF Find
  <2> USE DEF StoreInv, StoredWithOutbox
  <2>2. TypeOK' /\ UNCHANGED <<events, outbox, staged, answer>>
    BY Zenon, <1>3, <2>1 DEF TypeOK, Lookup, Find, Goto
  <2>3. /\ pc[q] # "done" /\ pc'[q] = "found" /\ id'[q] = ev.id
        /\ \A r \in Requests : r # q => pc'[r] = pc[r] /\ id'[r] = id[r]
    BY Zenon, <1>3 DEF TypeOK, Lookup, Find, Goto
  <2>4. ASSUME NEW r \in Requests, Inserted(r)' PROVE Reserved(r)'
    <3>1. r # q /\ Inserted(r) /\ Reserved(r)
      BY Zenon, <2>3, <2>4 DEF Inserted
    <3> QED
      BY <2>2, <2>3, <3>1 DEF Reserved, Inserted
  <2>5. ASSUME NEW r \in Requests, pc'[r] = "found" PROVE Matching(r)'
    <3>1. CASE r = q
      BY Zenon, <2>1, <2>2, <2>3, <3>1 DEF Matching
    <3>2. CASE r # q
      BY Zenon, <2>2, <2>3, <2>5, <3>2 DEF Matching
    <3> QED
      BY Zenon, <3>1, <3>2
  <2>6. ASSUME NEW r \in Requests, pc'[r] # "done" PROVE answer'[r] = Store!Unanswered
    BY Zenon, <2>2, <2>3, <2>6
  <2> QED
    BY Zenon, <2>2, <2>4, <2>5, <2>6 DEF Accepted
<1> QED
  BY Zenon, <1>1, <1>2, <1>3

\* The commit adds one row to the table and its outbox row with it: the rows
\* that others have inserted have other IDs and other keys.
LEMMA CommitKeeps ==
    ASSUME StoreInv, NEW q \in Requests, Commit(q)
    PROVE  StoreInv'
<1> USE DEF StoreInv, StoredWithOutbox
<1>1. /\ Reserved(q) /\ id[q] \in EventIds /\ staged[q] = {id[q]}
      /\ events' = events \cup {Row(q)} /\ outbox' = outbox \cup {id[q]}
  BY Zenon DEF Commit, Inserted, Reserved
<1>2. Row(q) \notin LegacyEvents /\ Row(q).id = id[q] /\ Row(q).key = Key[q]
  BY Zenon DEF Row
<1>3. PICK code \in {"created", "error"}, i \in {id[q], 0} :
        Respond(q, code, i) /\ (code = "created" => i = id[q])
  BY Zenon DEF Commit
<1>4. TypeOK'
  <2>1. \A ev \in events' \ LegacyEvents : \E r \in Requests, j \in EventIds :
            ev = [id |-> j, key |-> Key[r], hash |-> Hash[r]]
    BY Zenon, <1>1 DEF TypeOK, Row
  <2>2. outbox' \subseteq EventIds
    BY Zenon, <1>1 DEF TypeOK
  <2> QED
    BY Zenon, <1>1, <1>3, <2>1, <2>2 DEF TypeOK, Respond, Goto
<1>5. outbox' = { ev.id : ev \in events' \ LegacyEvents }
  BY <1>1, <1>2
<1>6. ASSUME NEW r \in Requests, Accepted(r)'
      PROVE  [id |-> answer'[r].id, key |-> Key[r], hash |-> Hash[r]] \in events'
  BY Zenon, <1>1, <1>3, <1>6 DEF Respond, Accepted, TypeOK, Row
<1>7. ASSUME NEW r \in Requests, Inserted(r)' PROVE Reserved(r)'
  <2>1. r # q /\ Inserted(r) /\ Reserved(r) /\ id'[r] = id[r] /\ staged'[r] = staged[r]
    BY Zenon, <1>3, <1>7 DEF Respond, Goto, Inserted, TypeOK
  <2>2. id[r] # id[q] /\ (Key[r] # NoKey => Key[r] # Key[q])
    BY Zenon, <2>1 DEF Reserved, Commit, Inserted
  <2>3. \A ev \in events' : ev.id # id[r] /\ (Key[r] # NoKey => ev.key # Key[r])
    BY Zenon, <1>1, <1>2, <2>1, <2>2 DEF Reserved
  <2>4. \A t \in Requests : (t # r /\ Inserted(t)') =>
            id'[t] # id[r] /\ (Key[r] # NoKey => Key[t] # Key[r])
    BY Zenon, <1>3, <2>1 DEF Respond, Goto, Inserted, TypeOK, Reserved
  <2> QED
    BY Zenon, <1>3, <2>1, <2>3, <2>4 DEF Reserved, Respond, Goto, TypeOK
<1>8. ASSUME NEW r \in Requests
      PROVE  /\ pc'[r] = "found" => Matching(r)'
             /\ pc'[r] # "done" => answer'[r] = Store!Unanswered
  <2>1. pc'[q] = "done"
    BY Zenon, <1>3 DEF Respond, Goto, TypeOK
  <2>2. r # q => pc'[r] = pc[r] /\ id'[r] = id[r] /\ answer'[r] = answer[r]
    BY Zenon, <1>3 DEF Respond, Goto, TypeOK
  <2>3. pc'[r] = "found" => Matching(r)'
    BY Zenon, <1>1, <2>1, <2>2 DEF Matching
  <2> QED
    BY Zenon, <2>1, <2>2, <2>3
<1> QED
  BY Zenon, <1>4, <1>5, <1>6, <1>7, <1>8

LEMMA StoreStep == StoreInv /\ [Next]_vars => StoreInv'
<1> SUFFICES ASSUME StoreInv, [Next]_vars PROVE StoreInv'
  BY Zenon
<1>1. ASSUME NEW q \in Requests, CommitFound(q) PROVE StoreInv'
  <2>1. /\ id[q] \in EventIds \cup {0} /\ UNCHANGED <<events, outbox>>
        /\ [id |-> id[q], key |-> Key[q], hash |-> Hash[q]] \in events
    <3>1. Matching(q) /\ TypeOK
      BY Zenon, <1>1 DEF CommitFound, StoreInv, StoredWithOutbox
    <3> QED
      BY Zenon, <1>1, <3>1 DEF CommitFound, TypeOK, Matching
  <2> QED
    BY Zenon, <1>1, <2>1, RespondKeeps DEF CommitFound
<1>2. ASSUME NEW q \in Requests, Rollback(q) PROVE StoreInv'
  BY Zenon, <1>2, RespondKeeps DEF Rollback
<1>3. CASE UNCHANGED vars
  BY <1>3 DEF vars, StoreInv, StoredWithOutbox, TypeOK, Accepted, Inserted, Reserved, Matching
<1> QED
  BY Zenon, <1>1, <1>2, <1>3, StatementKeeps, LookupKeeps, CommitKeeps DEF Next, Persist

\* Event, publication intent and answer agree for any number of requests, keys
\* and IDs: an event is stored with its outbox row or not at all, and a client
\* that is told so has its event stored (PersistEventWithOutbox).
THEOREM RowsStoredTogether == Spec => []StoredWithOutbox
<1>1. StoreInv => StoredWithOutbox
  BY Zenon DEF StoreInv
<1> QED
  BY <1>1, StoreInit, StoreStep, PTL DEF Spec

-----------------------------------------------------------------------------
(* The refinement: a transaction takes effect in its last statement.       *)

storeVars == <<events, outbox, answer>>

\* Every answer is the first.
LEMMA AnswerOnce ==
    ASSUME StoreInv, NEW q \in Requests, pc[q] # "done", NEW code, NEW i, Respond(q, code, i)
    PROVE  Store!Answer(q, code, i)
  BY Zenon DEF StoreInv, Respond, Store!Answer

LEMMA CommitCreates ==
    ASSUME StoreInv, NEW q \in Requests, Commit(q)
    PROVE  Store!Create(q)
<1>1. /\ id[q] \in EventIds /\ staged[q] = {id[q]} /\ pc[q] # "done"
      /\ \A ev \in events : ev.id # id[q] /\ (Key[q] # NoKey => ev.key # Key[q])
  BY Zenon DEF StoreInv, Commit, Inserted, Reserved
<1>2. Store!WithKey(Key[q]) = {}
  BY Zenon, <1>1 DEF Store!WithKey
<1>3. id[q] \in EventIds \ { ev.id : ev \in events }
  BY Zenon, <1>1
<1>4. events' = events \cup {Store!Row(id[q], q)} /\ outbox' = outbox \cup {id[q]}
  BY Zenon, <1>1 DEF Commit, Row, Store!Row
<1>5. Store!Answer(q, "created", id[q]) \/ Store!Answer(q, "error", 0)
  BY Zenon, <1>1, AnswerOnce DEF Commit
<1> QED
  BY Zenon, <1>2, <1>3, <1>4, <1>5 DEF Store!Create

LEMMA LookupRefuses ==
    ASSUME StoreInv, NEW q \in Requests, Lookup(q)
    PROVE  Store!Refuse(q) \/ UNCHANGED storeVars
<1>1. PICK ev \in WithKey(Key[q]) :
        \/ Find(q, ev)
        \/ ~HashMatches(ev.hash, Hash[q]) /\ Respond(q, "conflict", 0)
  BY Zenon DEF Lookup
<1>2. CASE Find(q, ev)
  BY Zenon, <1>2 DEF Lookup, Find, storeVars
<1>3. CASE ~HashMatches(ev.hash, Hash[q]) /\ Respond(q, "conflict", 0)
  <2>1. Store!Answer(q, "conflict", 0)
    BY Zenon, <1>3, AnswerOnce DEF Lookup
  <2>2. ev \in Store!WithKey(Key[q]) /\ ev.hash # Hash[q]
    BY Zenon, <1>1, <1>3 DEF WithKey, Store!WithKey, HashMatches
  <2> QED
    BY Zenon, <2>1, <2>2 DEF Store!Refuse, Lookup
<1> QED
  BY Zenon, <1>1, <1>2, <1>3

LEMMA FoundRepeats ==
    ASSUME StoreInv, NEW q \in Requests, CommitFound(q)
    PROVE  Store!Repeat(q)
<1>1. Store!Answer(q, "existing", id[q]) /\ Matching(q)
  BY Zenon, AnswerOnce DEF CommitFound, StoreInv
<1> DEFINE ev == [id |-> id[q], key |-> Key[q], hash |-> Hash[q]]
<1>2. ev \in Store!WithKey(Key[q]) /\ ev.hash = Hash[q] /\ ev.id = id[q]
  BY Zenon, <1>1 DEF Matching, Store!WithKey
<1> HIDE DEF ev
<1> QED
  BY Zenon, <1>1, <1>2 DEF Store!Repeat, CommitFound

LEMMA StepRefines == StoreInv /\ [Next]_vars => [Store!Next]_storeVars
<1> SUFFICES ASSUME StoreInv, Next PROVE Store!Next \/ UNCHANGED storeVars
  BY Zenon DEF vars, storeVars
<1>1. PICK q \in Requests : Persist(q) \/ Rollback(q)
  BY Zenon DEF Next
<1>2. CASE InsertEvent(q) \/ InsertConflicts(q) \/ InsertOutbox(q)
  BY Zenon, <1>2 DEF InsertEvent, InsertConflicts, InsertOutbox, storeVars
<1>3. CASE Rollback(q)
  BY Zenon, <1>3, AnswerOnce DEF Rollback, Store!Fail, Store!Next
<1> QED
  BY Zenon, <1>1, <1>2, <1>3, CommitCreates, LookupRefuses, FoundRepeats DEF Persist, Store!Next

\* Exactly-once ingestion: any number of requests, interleaved statement by
\* statement and failing anywhere, look to their clients like requests to an
\* atomic store in which a key names one event for ever.
THEOREM StoreImplemented == Spec => ImplementsStore
<1>1. Init => Store!Init
  BY Zenon DEF Init, Store!Init
<1>2. Spec => []StoreInv
  BY StoreInit, StoreStep, PTL DEF Spec
<1>3. Store!Spec <=> Store!Init /\ [][Store!Next]_storeVars
  BY Zenon DEF Store!Spec, storeVars
<1> QED
  BY <1>1, <1>2, <1>3, StepRefines, PTL DEF Spec, ImplementsStore

====
