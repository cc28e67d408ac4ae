--------------------------- MODULE IdempotentStore ---------------------------
(***************************************************************************)
(* What POST /events promises its clients: every request is answered in    *)
(* one atomic step on a table of events, in which an idempotency key names *)
(* at most one event for ever, and a new event is queued for publication   *)
(* in the step that stores it.  Ingestion is shown to implement this.      *)
(***************************************************************************)
CONSTANTS Requests, Key, Hash, NoKey, EventIds, LegacyEvents

VARIABLES events, outbox, answer

Unanswered == [code |-> "none", id |-> 0]

Row(i, q) == [id |-> i, key |-> Key[q], hash |-> Hash[q]]

WithKey(k) == { ev \in events : k # NoKey /\ ev.key = k }

Init ==
    /\ events = LegacyEvents
    /\ outbox = {}
    /\ answer = [q \in Requests |-> Unanswered]

Answer(q, code, i) ==
    /\ answer[q] = Unanswered
    /\ answer' = [answer EXCEPT ![q] = [code |-> code, id |-> i]]

\* A first request creates the event; the client may not hear of it.
Create(q) ==
    /\ WithKey(Key[q]) = {}
    /\ \E i \in EventIds \ { ev.id : ev \in events } :
        /\ events' = events \cup {Row(i, q)}
        /\ outbox' = outbox \cup {i}
        /\ Answer(q, "created", i) \/ Answer(q, "error", 0)

\* A repeated request is answered with the event of the first.
Repeat(q) ==
    /\ \E ev \in WithKey(Key[q]) :
        /\ ev.hash = Hash[q]
        /\ Answer(q, "existing", ev.id)
    /\ UNCHANGED <<events, outbox>>

\* The key belongs to another request.
Refuse(q) ==
    /\ \E ev \in WithKey(Key[q]) : ev.hash # Hash[q]
    /\ Answer(q, "conflict", 0)
    /\ UNCHANGED <<events, outbox>>

Fail(q) == Answer(q, "error", 0) /\ UNCHANGED <<events, outbox>>

Next == \E q \in Requests : Create(q) \/ Repeat(q) \/ Refuse(q) \/ Fail(q)

Spec == Init /\ [][Next]_<<events, outbox, answer>>
=============================================================================
