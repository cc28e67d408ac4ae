--------------------------- MODULE ExplainSnapshot ---------------------------
(***************************************************************************)
(* internal/httpapi: how the explain handler cuts a long history down to   *)
(* what the AI service accepts (boundExplainHistory, boundExplainAttempts, *)
(* explainDeliveryAttemptsFromStore, retryCountFromHistory).               *)
(*                                                                         *)
(* A row of the history is its status and, for RETRYING, its next_retry.   *)
(* A cut sequence is the set of the positions that are kept.               *)
(***************************************************************************)
EXTENDS Integers, FiniteSets, Sequences

CONSTANT MaxItems   \* maxExplainHistoryItems and maxExplainAttemptItems, 20

ASSUME ExplainSnapshotAssumption == MaxItems \in Nat \ {0}

RowsWith(history, statuses) == { i \in DOMAIN history : history[i].status \in statuses }

Smallest(S, n) == { i \in S : Cardinality({ j \in S : j < i }) < n }
Largest(S, n) == { i \in S : Cardinality({ j \in S : j > i }) < n }

\* The acceptance state and the markers, then the newest rows while there is
\* room; and no more than MaxItems of them, from the oldest on.
Important(history) == {1} \cup RowsWith(history, {"DEAD_LETTERED", "REDRIVEN", "DELIVERED"})

\* Mutant of BoundExplainHistory: only the newest rows.
BoundToNewest(history) == Largest(DOMAIN history, MaxItems)

BoundExplainHistory(history) ==
    IF Len(history) <= MaxItems
    THEN DOMAIN history
    ELSE LET important == Important(history)
             room == MaxItems - Cardinality(important)
             keep == important \cup Largest(DOMAIN history \ important, room)
         IN  Smallest(keep, MaxItems)

BoundExplainAttempts(attempts) == Largest(DOMAIN attempts, MaxItems)

\* The ordinal in the whole life of the event.
AttemptNumber(attempts, i) == i

Retrying(history) == RowsWith(history, {"RETRYING"})

\* Mutant of RetryCount: the RETRYING rows are counted.
RetryingRows(history) == Cardinality(Retrying(history))

\* retryCountFromHistory: the largest next_retry.
RetryCount(history) ==
    IF Retrying(history) = {} THEN 0
    ELSE CHOOSE n \in { history[i].next : i \in Retrying(history) } :
            \A i \in Retrying(history) : history[i].next <= n
=============================================================================
