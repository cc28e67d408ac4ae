------------------------------- MODULE Replay -------------------------------
(***************************************************************************)
(* cmd/api: POST /replay, called by a client that pages through a time     *)
(* range: it passes next_cursor on while has_more is set, and repeats a    *)
(* request that failed.  Ingestion goes on meanwhile, and a transaction    *)
(* that began early may commit late.                                       *)
(*                                                                         *)
(* An event is its id, a number in the order of its uuid.  The rows of a   *)
(* page are a set that is read in the order of the query.  A request that  *)
(* fails spends one unit of MaxFailures, an XADD that the Redis client     *)
(* sends again one of MaxResends.                                          *)
(***************************************************************************)
EXTENDS Integers, FiniteSets

CONSTANTS
    Events,        \* the ids of the events
    CreatedAt,     \* the start of the transaction that stores each of them
    From, To,      \* the range of the request
    Matching,      \* the events with its source and event_type
    Limits,        \* the limits its requests may give
    DefaultLimit,  \* 1000
    MaxLimit,      \* 5000
    MaxFailures,   \* bound
    MaxResends     \* bound

ASSUME ReplayAssumption ==
    /\ Events \subseteq Nat /\ IsFiniteSet(Events)
    /\ CreatedAt \in [Events -> Nat]
    /\ From \in Nat /\ To \in Nat
    /\ Matching \subseteq Events
    /\ Limits \subseteq Int
    /\ DefaultLimit \in Nat \ {0} /\ MaxLimit \in Nat \ {0}
    /\ MaxFailures \in Nat /\ MaxResends \in Nat

VARIABLES
    stored,     \* committed events
    known,      \* those that were committed when the replay began
    pc,
    cursor,     \* the cursor of the next request
    limit,      \* the limit of the request
    page,       \* rows of its query that are not read yet
    published,  \* rows it has published
    last,       \* the last of them, as the handler's nextCursor
    sent,       \* entries added to the stream for each event
    failures, resends

vars == <<stored, known, pc, cursor, limit, page, published, last, sent, failures,
          resends>>

\* No cursor: every event comes after it.
NoCursor == [at |-> -1, id |-> 0]

Cursors == [at : Nat \cup {-1}, id : Nat]

\* The condition of the query on the cursor.
After(e, c) == CreatedAt[e] > c.at \/ (CreatedAt[e] = c.at /\ e > c.id)

\* ORDER BY created_at, id.
Before(d, e) == CreatedAt[d] < CreatedAt[e] \/ (CreatedAt[d] = CreatedAt[e] /\ d < e)

InRange(e) == From <= CreatedAt[e] /\ CreatedAt[e] <= To

Selected == { e \in Matching : InRange(e) }

\* Mutant of CursorOf: created_at is formatted in seconds of two units.
CursorInSeconds(e) == [at |-> CreatedAt[e] - (CreatedAt[e] % 2), id |-> e]

\* created_at as RFC3339Nano, which keeps all of PostgreSQL's microseconds.
CursorOf(e) == [at |-> CreatedAt[e], id |-> e]

TypeOK ==
    /\ stored \subseteq Events /\ known \subseteq stored
    /\ pc \in {"idle", "query", "publish", "done"}
    /\ cursor \in Cursors
    /\ limit \in Nat \ {0}
    /\ page \subseteq stored
    /\ published \in 0..limit
    /\ last \in Cursors
    /\ sent \in [Events -> Nat]
    /\ failures \in 0..MaxFailures /\ resends \in 0..MaxResends

Init ==
    /\ stored = {} /\ known = {}
    /\ pc = "idle"
    /\ cursor = NoCursor
    /\ limit = 1 /\ page = {} /\ published = 0 /\ last = NoCursor
    /\ sent = [e \in Events |-> 0]
    /\ failures = 0 /\ resends = 0

\* An ingestion transaction commits.
Commit(e) ==
    /\ stored' = stored \cup {e}
    /\ UNCHANGED <<known, pc, cursor, limit, page, published, last, sent, failures, resends>>

Start ==
    /\ pc = "idle"
    /\ pc' = "query"
    /\ known' = stored
    /\ UNCHANGED <<stored, cursor, limit, page, published, last, sent, failures, resends>>

EffectiveLimit(n) == IF n <= 0 THEN DefaultLimit ELSE IF n > MaxLimit THEN MaxLimit ELSE n

\* Mutant of Eligible: the query compares the times only.
EligibleByTime(c) == { e \in stored \cap Selected : CreatedAt[e] > c.at }

Eligible(c) == { e \in stored \cap Selected : After(e, c) }

\* The rows of the query: LIMIT n + 1.
Rows(c, n) ==
    { e \in Eligible(c) : Cardinality({ d \in Eligible(c) : Before(d, e) }) <= n }

\* The statement sees what is committed when it starts.
Query ==
    /\ pc = "query"
    /\ \E n \in Limits :
        /\ limit' = EffectiveLimit(n)
        /\ page' = Rows(cursor, EffectiveLimit(n))
    /\ published' = 0 /\ last' = NoCursor
    /\ pc' = "publish"
    /\ UNCHANGED <<stored, known, cursor, sent, failures, resends>>

IsNext(e) == e \in page /\ \A d \in page \ {e} : Before(e, d)

\* One row is read and published: its entry is added and the call returns, or
\* the answer is lost on the way and the Redis client sends the XADD again.
Publish(e) ==
    /\ pc = "publish"
    /\ IsNext(e) /\ published < limit
    /\ sent' = [sent EXCEPT ![e] = @ + 1]
    /\ \/ /\ published' = published + 1
          /\ last' = CursorOf(e)
          /\ page' = page \ {e}
          /\ UNCHANGED resends
       \/ /\ resends < MaxResends /\ resends' = resends + 1
          /\ UNCHANGED <<published, last, page>>
    /\ UNCHANGED <<stored, known, pc, cursor, limit, failures>>

\* The request ends: what the client does next, and its cursor.
Answered(next, c) ==
    /\ pc' = next /\ cursor' = c
    /\ limit' = 1 /\ page' = {} /\ published' = 0 /\ last' = NoCursor
    /\ UNCHANGED <<stored, known, resends>>

\* A row beyond the limit is read: has_more, with the cursor.
AnswerMore ==
    /\ pc = "publish"
    /\ page # {} /\ published >= limit
    /\ Answered("query", last)
    /\ UNCHANGED <<sent, failures>>

\* Mutant of AnswerLast: has_more is set on the last page too, with the cursor
\* of its last row, or that of the request if it has none.
AnswerLastMore ==
    /\ pc = "publish"
    /\ page = {}
    /\ Answered("query", IF published > 0 THEN last ELSE cursor)
    /\ UNCHANGED <<sent, failures>>

\* There is no further row: has_more is false, next_cursor is left out.
AnswerLast ==
    /\ pc = "publish"
    /\ page = {}
    /\ Answered("done", NoCursor)
    /\ UNCHANGED <<sent, failures>>

\* A failed query, scan or XADD: an error answer without a cursor, whatever was
\* published; the failed XADD itself may have added its entry.
RequestFails ==
    /\ pc \in {"query", "publish"}
    /\ failures < MaxFailures
    /\ failures' = failures + 1
    /\ Answered("query", cursor)
    /\ \/ UNCHANGED sent
       \/ \E e \in page : IsNext(e) /\ published < limit /\ sent' = [sent EXCEPT ![e] = @ + 1]

Page == Query \/ (\E e \in Events : Publish(e)) \/ AnswerMore \/ AnswerLast

Next ==
    \/ \E e \in Events : Commit(e)
    \/ Start \/ Page \/ RequestFails

Spec == Init /\ [][Next]_vars

\* The client goes on to the last page.
FairSpec == Spec /\ WF_vars(Page)

-----------------------------------------------------------------------------
\* When the client has seen the last page, every event of the range that was
\* stored when the replay began has been published: neither events with one
\* created_at, nor failed pages, nor commits between two pages make the cursor
\* pass over one, and no event outside of the request is published.  And the
\* variables have their types, the page its limit.
ReplayComplete ==
    /\ TypeOK
    /\ pc = "done" => \A e \in known \cap Selected : sent[e] > 0
    /\ \A e \in Events : sent[e] > 0 => e \in stored \cap Selected

\* Only a failed request, or an XADD the Redis client had to send again, makes
\* the replay add a second entry for an event: the cursor never goes back.
RepeatsNeedFailures == \A e \in Events : sent[e] <= 1 + failures + resends

\* Paging comes to an end, also when new events are committed behind it.
ReplayEnds == (pc = "query") ~> (pc = "done")
=============================================================================
