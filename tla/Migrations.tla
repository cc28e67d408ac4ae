----------------------------- MODULE Migrations -----------------------------
(***************************************************************************)
(* migrations: Apply, run at startup by API processes that may start       *)
(* together, crash in the middle and be started again; and the operator    *)
(* who runs migration files with psql, as demo_guide.md says.              *)
(*                                                                         *)
(* A file's statements and its schema_migrations row are one transaction.  *)
(* Its DDL locks the tables it touches, so that another transaction with   *)
(* the same file waits for it.                                             *)
(***************************************************************************)
EXTENDS Integers, FiniteSets

CONSTANTS
    Files,       \* the embedded files, numbered in the order of their names
    Rerunnable,  \* files that have IF NOT EXISTS in every statement
    Processes,   \* API processes
    Guide,       \* files the operator runs with psql
    MaxCrashes,  \* bound
    MaxRestarts  \* bound

ASSUME MigrationsAssumption ==
    /\ IsFiniteSet(Files) /\ Files = 1..Cardinality(Files)
    /\ Rerunnable \subseteq Files /\ Guide \subseteq Files
    /\ MaxCrashes \in Nat /\ MaxRestarts \in Nat

VARIABLES
    schema,    \* files whose statements are committed
    recorded,  \* rows of schema_migrations
    commits,   \* how often Apply has committed each file
    pc,        \* the next statement of each process
    applied,   \* the map it has read, and what it has done since
    manual,    \* files the operator has run, by result
    crashes, restarts

vars == <<schema, recorded, commits, pc, applied, manual, crashes, restarts>>

TypeOK ==
    /\ schema \subseteq Files /\ recorded \subseteq Files
    /\ commits \in [Files -> {0, 1}]
    /\ pc \in [Processes -> {"list", "exec", "record", "commit", "up", "failed"}]
    /\ applied \in [Processes -> SUBSET Files]
    /\ manual \in [Guide -> {"to do", "done", "error"}]
    /\ crashes \in 0..MaxCrashes /\ restarts \in 0..MaxRestarts

\* The database is new, or earlier versions have left it with some files.
Init ==
    /\ \E n \in 0..Cardinality(Files) : schema = 1..n
    /\ recorded = schema
    /\ commits = [f \in Files |-> 0]
    /\ pc = [p \in Processes |-> "list"]
    /\ applied = [p \in Processes |-> {}]
    /\ manual = [f \in Guide |-> "to do"]
    /\ crashes = 0 /\ restarts = 0

Goto(p, next) == pc' = [pc EXCEPT ![p] = next]

\* The next file that is not in the map.
Due(p) == { f \in Files \ applied[p] : \A g \in Files \ applied[p] : f <= g }

Locked(f) == \E p \in Processes : pc[p] \in {"record", "commit"} /\ f \in Due(p)

\* Mutant of List: what is applied is not asked.
ListNothing(p) ==
    /\ pc[p] = "list"
    /\ Goto(p, "exec")
    /\ UNCHANGED <<schema, recorded, commits, applied, manual, crashes, restarts>>

\* CREATE TABLE IF NOT EXISTS schema_migrations; SELECT filename.
List(p) ==
    /\ pc[p] = "list"
    /\ applied' = [applied EXCEPT ![p] = recorded]
    /\ Goto(p, "exec")
    /\ UNCHANGED <<schema, recorded, commits, manual, crashes, restarts>>

\* Statements that cannot be run again, or that miss an earlier file's tables,
\* fail; the error ends the process.
Runs(f) == (f \notin schema \/ f \in Rerunnable) /\ 1..f - 1 \subseteq schema

Exec(p) ==
    /\ pc[p] = "exec"
    /\ \E f \in Due(p) : ~Locked(f) /\ Goto(p, IF Runs(f) THEN "record" ELSE "failed")
    /\ UNCHANGED <<schema, recorded, commits, applied, manual, crashes, restarts>>

\* INSERT of the file name, the primary key.
Record(p) ==
    /\ pc[p] = "record"
    /\ \E f \in Due(p) : Goto(p, IF f \in recorded THEN "failed" ELSE "commit")
    /\ UNCHANGED <<schema, recorded, commits, applied, manual, crashes, restarts>>

\* Mutant of Commit: the row is left to a second transaction.
CommitSchemaOnly(p) ==
    /\ pc[p] = "commit"
    /\ \E f \in Due(p) :
        /\ schema' = schema \cup {f}
        /\ commits' = [commits EXCEPT ![f] = @ + 1]
        /\ applied' = [applied EXCEPT ![p] = @ \cup {f}]
    /\ Goto(p, "exec")
    /\ UNCHANGED <<recorded, manual, crashes, restarts>>

Commit(p) ==
    /\ pc[p] = "commit"
    /\ \E f \in Due(p) :
        /\ schema' = schema \cup {f}
        /\ recorded' = recorded \cup {f}
        /\ commits' = [commits EXCEPT ![f] = @ + 1]
        /\ applied' = [applied EXCEPT ![p] = @ \cup {f}]
    /\ Goto(p, "exec")
    /\ UNCHANGED <<manual, crashes, restarts>>

\* Apply returns nil, and main goes on to start the workers and the server.
Finish(p) ==
    /\ pc[p] = "exec"
    /\ Due(p) = {}
    /\ Goto(p, "up")
    /\ UNCHANGED <<schema, recorded, commits, applied, manual, crashes, restarts>>

\* log.Fatalf, the connection is lost, or the process is killed: rolled back.
Crash(p) ==
    /\ pc[p] # "failed"
    /\ crashes < MaxCrashes /\ crashes' = crashes + 1
    /\ Goto(p, "failed")
    /\ UNCHANGED <<schema, recorded, commits, applied, manual, restarts>>

Restart(p) ==
    /\ pc[p] = "failed"
    /\ restarts < MaxRestarts /\ restarts' = restarts + 1
    /\ Goto(p, "list")
    /\ applied' = [applied EXCEPT ![p] = {}]
    /\ UNCHANGED <<schema, recorded, commits, manual, crashes>>

\* psql -f, which leaves schema_migrations alone.
RunByHand(f) ==
    /\ manual[f] = "to do" /\ \A g \in Guide : g < f => manual[g] # "to do"
    /\ ~Locked(f)
    /\ IF Runs(f)
       THEN schema' = schema \cup {f} /\ manual' = [manual EXCEPT ![f] = "done"]
       ELSE UNCHANGED schema /\ manual' = [manual EXCEPT ![f] = "error"]
    /\ UNCHANGED <<recorded, commits, pc, applied, crashes, restarts>>

Apply(p) == List(p) \/ Exec(p) \/ Record(p) \/ Commit(p) \/ Finish(p)

-----------------------------------------------------------------------------
\* However starts, crashes and restarts interleave, the files are applied in
\* their order, and no file without its schema_migrations row or the row
\* without the file, except for those run by hand.  A process that has come
\* up, whose workers use every table, has the whole schema.  And the variables
\* have their types.
AppliedInOrder ==
    /\ TypeOK
    /\ recorded = 1..Cardinality(recorded)
    /\ recorded \subseteq schema
    /\ schema \subseteq recorded \cup Guide
    /\ \A p \in Processes : pc[p] = "up" => schema = Files

\* Processes that start together fail one another by the conflicts between
\* them, but never all: one comes up, unless it crashes or the operator was
\* faster than Apply with a file that cannot be run again (no process comes
\* up after that, since nothing records what psql has run).
OneComesUp ==
    <>( \/ crashes > 0
        \/ \E f \in Guide \ Rerunnable : manual[f] = "done"
        \/ \E p \in Processes : pc[p] = "up" )
=============================================================================
