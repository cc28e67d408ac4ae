------------------------------ MODULE Ingestion ------------------------------
(***************************************************************************)
(* internal/ingestion: PersistEventWithOutbox, run concurrently for the    *)
(* requests that the create handler of internal/httpapi has decoded and    *)
(* found complete.  One action per statement of the transaction, under     *)
(* PostgreSQL's READ COMMITTED: a statement sees what is committed, and an *)
(* INSERT waits for the transaction that holds the same unique key.        *)
(* A client that repeats a request is another request with the same key    *)
(* and hash.                                                               *)
(***************************************************************************)
CONSTANTS
    Requests,      \* requests, each handled once
    Key,           \* its source and trimmed Idempotency-Key, or NoKey
    Hash,          \* its computeRequestHash
    NoKey,
    EventIds,      \* identifiers the database may generate
    LegacyEvents   \* rows from before request_hash and the outbox existed

NoHash == "NULL"

ASSUME IngestionAssumption ==
    /\ \A q \in Requests : Hash[q] # NoHash
    /\ \A ev \in LegacyEvents :
        ev.key # NoKey /\ ev.hash = NoHash /\ ev.id \notin EventIds
    /\ \A a, b \in LegacyEvents : (a.id = b.id \/ a.key = b.key) => a = b

VARIABLES
    events,   \* committed rows of events
    outbox,   \* events with a committed outbox row (and STORED,
              \* PENDING_PUBLICATION history rows)
    pc,       \* the next statement of the request's transaction
    id,       \* the event ID the transaction has inserted or found
    staged,   \* outbox rows the transaction has inserted
    answer    \* the response

vars == <<events, outbox, pc, id, staged, answer>>

\* INSTANCE with the variables of this module.
Store == INSTANCE IdempotentStore

Row(q) == [id |-> id[q], key |-> Key[q], hash |-> Hash[q]]

\* Committed rows the unique index finds for a key; NULL keys never collide.
WithKey(k) == { ev \in events : k # NoKey /\ ev.key = k }

\* Inserted and not yet committed.
Inserted(q) == pc[q] \in {"outbox", "commit"}

\* Mutant of Held: without the deferred rollback a request that failed leaves
\* its transaction open, and the key with it.
HeldByFailed(k) ==
    \E q \in Requests : (Inserted(q) \/ answer[q].code = "error") /\ Key[q] = k /\ k # NoKey

\* The index makes an INSERT wait for the open transaction that holds the key.
Held(k) == \E q \in Requests : Inserted(q) /\ Key[q] = k /\ k # NoKey

UsedIds == { ev.id : ev \in events } \cup { id[q] : q \in { r \in Requests : Inserted(r) } }

TypeOK ==
    /\ \A ev \in events \ LegacyEvents : \E q \in Requests, i \in EventIds :
        ev = [id |-> i, key |-> Key[q], hash |-> Hash[q]]
    /\ outbox \subseteq EventIds
    /\ pc \in [Requests -> {"insert", "outbox", "commit", "lookup", "found", "done"}]
    /\ id \in [Requests -> EventIds \cup {0}]
    /\ staged \in [Requests -> SUBSET EventIds]
    /\ answer \in [Requests -> [code : {"none", "created", "existing", "conflict", "error"},
                                id   : EventIds \cup {0}]]

Init ==
    /\ events = LegacyEvents
    /\ outbox = {}
    /\ pc = [q \in Requests |-> "insert"]
    /\ id = [q \in Requests |-> 0]
    /\ staged = [q \in Requests |-> {}]
    /\ answer = [q \in Requests |-> Store!Unanswered]

Goto(q, next) == pc' = [pc EXCEPT ![q] = next]

\* The transaction ends and the handler answers.
Respond(q, code, i) ==
    /\ Goto(q, "done")
    /\ answer' = [answer EXCEPT ![q] = [code |-> code, id |-> i]]
    /\ id' = [id EXCEPT ![q] = 0]
    /\ staged' = [staged EXCEPT ![q] = {}]

\* Mutant of InsertEvent: without the unique index.
InsertAnyKey(q) ==
    /\ pc[q] = "insert"
    /\ \E i \in EventIds \ UsedIds : id' = [id EXCEPT ![q] = i]
    /\ Goto(q, "outbox")
    /\ UNCHANGED <<events, outbox, staged, answer>>

\* INSERT ... RETURNING id gives a row.
InsertEvent(q) ==
    /\ pc[q] = "insert"
    /\ WithKey(Key[q]) = {} /\ ~Held(Key[q])
    /\ \E i \in EventIds \ UsedIds : id' = [id EXCEPT ![q] = i]
    /\ Goto(q, "outbox")
    /\ UNCHANGED <<events, outbox, staged, answer>>

\* ON CONFLICT DO NOTHING gives none.
InsertConflicts(q) ==
    /\ pc[q] = "insert"
    /\ WithKey(Key[q]) # {}
    /\ Goto(q, "lookup")
    /\ UNCHANGED <<events, outbox, id, staged, answer>>

\* Mutant of InsertOutbox: the event is committed without its outbox row.
InsertNoOutbox(q) ==
    /\ pc[q] = "outbox"
    /\ Goto(q, "commit")
    /\ UNCHANGED <<events, outbox, id, staged, answer>>

\* insertOutboxForEvent: the outbox row and two history rows.
InsertOutbox(q) ==
    /\ pc[q] = "outbox"
    /\ staged' = [staged EXCEPT ![q] = {id[q]}]
    /\ Goto(q, "commit")
    /\ UNCHANGED <<events, outbox, id, answer>>

\* COMMIT of a new event; when its result is lost the client gets a 500.
Commit(q) ==
    /\ pc[q] = "commit"
    /\ events' = events \cup {Row(q)}
    /\ outbox' = outbox \cup staged[q]
    /\ Respond(q, "created", id[q]) \/ Respond(q, "error", 0)

\* validateExistingRequestHash.
HashMatches(existing, incoming) == existing # NoHash /\ existing = incoming

\* The row's hash matches, and its event is the answer.
Find(q, ev) ==
    /\ HashMatches(ev.hash, Hash[q])
    /\ id' = [id EXCEPT ![q] = ev.id]
    /\ Goto(q, "found")
    /\ UNCHANGED <<staged, answer>>

\* existingEventIDForMatchingRequestHash.
Lookup(q) ==
    /\ pc[q] = "lookup"
    /\ \E ev \in WithKey(Key[q]) :
        \/ Find(q, ev)
        \/ ~HashMatches(ev.hash, Hash[q]) /\ Respond(q, "conflict", 0)
    /\ UNCHANGED <<events, outbox>>

CommitFound(q) ==
    /\ pc[q] = "found"
    /\ Respond(q, "existing", id[q])
    /\ UNCHANGED <<events, outbox>>

\* A statement fails or the process stops: the transaction rolls back.
Rollback(q) ==
    /\ pc[q] # "done"
    /\ Respond(q, "error", 0)
    /\ UNCHANGED <<events, outbox>>

Persist(q) ==
    \/ InsertEvent(q) \/ InsertConflicts(q) \/ InsertOutbox(q)
    \/ Commit(q) \/ Lookup(q) \/ CommitFound(q)

Next == \E q \in Requests : Persist(q) \/ Rollback(q)

Spec == Init /\ [][Next]_vars

FairSpec == Spec /\ \A q \in Requests : WF_vars(Persist(q))

-----------------------------------------------------------------------------
Accepted(q) == answer[q].code \in {"created", "existing"}

\* Event and publication intent are stored together: the rows of the outbox
\* are exactly those of the events stored since it exists.  The answer never
\* runs ahead of the transaction: an accepted request is in the table as it
\* was sent.  And the variables have their types.
StoredWithOutbox ==
    /\ TypeOK
    /\ outbox = { ev.id : ev \in events \ LegacyEvents }
    /\ \A q \in Requests : Accepted(q) =>
        [id |-> answer[q].id, key |-> Key[q], hash |-> Hash[q]] \in events

\* The transactions implement the atomic store.
ImplementsStore == Store!Spec

\* No request waits for ever for another one's key.
EveryRequestAnswered == \A q \in Requests : <>(pc[q] = "done")
=============================================================================
