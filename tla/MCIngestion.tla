---------------------------- MODULE MCIngestion ----------------------------
(***************************************************************************)
(* Instances of Ingestion for TLC: two requests that are the same, one     *)
(* that reuses their key for something else, one without a key and one     *)
(* that meets a row from before request hashes.                            *)
(***************************************************************************)
EXTENDS Ingestion, Integers, TLC

RequestKey == [q \in Requests |->
    CASE q \in {"first", "again", "other"} -> "k"
      [] q = "legacy"                      -> "old"
      [] OTHER                             -> NoKey]

RequestHash == [q \in Requests |-> IF q = "other" THEN "h2" ELSE "h1"]

OldRows == { [id |-> 9, key |-> "old", hash |-> "NULL"] }
=============================================================================
