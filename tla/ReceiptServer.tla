--------------------------- MODULE ReceiptServer ---------------------------
(***************************************************************************)
(* The Receipt Service, the destination of the demo's webhooks             *)
(* (cmd/mock-destination).  It creates one receipt per Idempotency-Key,    *)
(* can be told to fail, and counts what it did.                            *)
(*                                                                         *)
(* Every handler does its work under one mutex and is one action.  All of  *)
(* the state is in memory: a restart forgets it.  receipts is not state of *)
(* the program: it counts the receipts that each key has ever caused.      *)
(* Bodies are abstracted to whether they carry an invoice_id.              *)
(***************************************************************************)
EXTENDS Integers, FiniteSets

CONSTANTS
    Keys,          \* Idempotency-Key values: the worker sends the event_id
    MaxFailNext    \* bound: fail_next of one control request

VARIABLES mode, failNext, seenKeys, total, successful, duplicates, failed, receipts

stats == <<total, successful, duplicates, failed>>

Modes == {"healthy", "temporary_failure", "validation_failure"}

\* newReceiptServer.
Init ==
    /\ mode = "healthy" /\ failNext = 0 /\ seenKeys = {}
    /\ total = 0 /\ successful = 0 /\ duplicates = 0 /\ failed = 0
    /\ receipts = [key \in Keys |-> 0]

Failing == failNext > 0 \/ mode # "healthy"

\* The status of the answer to a request with an invoice_id.
ReceiptStatus ==
    IF failNext > 0 \/ mode = "temporary_failure" THEN 500
    ELSE IF mode = "validation_failure" THEN 400
    ELSE 200

\* A mode, or a forced failure, answers before the key is looked at.
ReceiptFails ==
    /\ Failing
    /\ failNext' = IF failNext > 0 THEN failNext - 1 ELSE failNext
    /\ failed' = failed + 1
    /\ UNCHANGED <<mode, seenKeys, successful, duplicates, receipts>>

ReceiptRepeats(key) ==
    /\ ~Failing
    /\ key \in seenKeys
    /\ duplicates' = duplicates + 1
    /\ UNCHANGED <<mode, failNext, seenKeys, successful, failed, receipts>>

\* Mutant of ReceiptCreated: the key is not remembered.
ReceiptForgotten(key) ==
    /\ ~Failing
    /\ key \notin seenKeys
    /\ successful' = successful + 1
    /\ receipts' = [receipts EXCEPT ![key] = @ + 1]
    /\ UNCHANGED <<mode, failNext, seenKeys, duplicates, failed>>

ReceiptCreated(key) ==
    /\ ~Failing
    /\ key \notin seenKeys
    /\ seenKeys' = seenKeys \cup {key}
    /\ successful' = successful + 1
    /\ receipts' = [receipts EXCEPT ![key] = @ + 1]
    /\ UNCHANGED <<mode, failNext, duplicates, failed>>

ApplyReceipt(key) ==
    /\ total' = total + 1
    /\ ReceiptFails \/ ReceiptRepeats(key) \/ ReceiptCreated(key)

\* A body without an invoice_id is refused whatever the mode.
RecordFailure ==
    /\ total' = total + 1
    /\ failed' = failed + 1
    /\ UNCHANGED <<mode, failNext, seenKeys, successful, duplicates, receipts>>

HandleReceipts(key, valid) ==
    \/ valid /\ ApplyReceipt(key)
    \/ ~valid /\ RecordFailure

\* POST /control/mode; validateModeRequest refuses all other values.
HandleControlMode ==
    /\ \E m \in Modes, n \in 0..MaxFailNext :
        /\ <<m, n>> # <<mode, failNext>>
        /\ mode' = m /\ failNext' = n
    /\ UNCHANGED <<seenKeys, stats, receipts>>

\* main again: newReceiptServer, with what was in memory gone.
Restart ==
    /\ mode' = "healthy" /\ failNext' = 0 /\ seenKeys' = {}
    /\ total' = 0 /\ successful' = 0 /\ duplicates' = 0 /\ failed' = 0
    /\ UNCHANGED receipts

ServerType ==
    /\ mode \in Modes /\ failNext \in 0..MaxFailNext
    /\ seenKeys \subseteq Keys
    /\ {total, successful, duplicates, failed} \subseteq Nat
    /\ receipts \in [Keys -> Nat]
=============================================================================
