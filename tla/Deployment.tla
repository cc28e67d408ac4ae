----------------------------- MODULE Deployment -----------------------------
(***************************************************************************)
(* API processes that share a database (cmd/api with migrations): the      *)
(* whole life of one of them, Watched, as ApiProcess describes it, among   *)
(* others that run their migrations at the same time.  A process may be    *)
(* killed at any point, and is started again after any end.                *)
(***************************************************************************)
EXTENDS Migrations

CONSTANTS Watched,   \* the process whose life is followed
          Requests   \* HTTP requests it can have in flight

ASSUME DeploymentAssumption == Watched \in Processes

VARIABLES main, grouped, signal, cancelled, deadline, server, loop,
          returned, workers, redis, pool, request

lifeVars == <<main, grouped, signal, cancelled, deadline, server, loop,
              returned, workers, redis, pool, request>>
allVars == <<vars, lifeVars>>

Api == INSTANCE ApiProcess

DeploymentInit == Init /\ Api!Init

-----------------------------------------------------------------------------
\* migrations.Apply runs inside main, after the pool is opened.
Migrate(p) ==
    /\ p = Watched => main = "migrate"
    /\ Apply(p)
    /\ UNCHANGED lifeVars

\* It has returned nil: main goes on.
Migrated ==
    /\ pc[Watched] = "up"
    /\ Api!ApplyMigrations
    /\ UNCHANGED vars

\* log.Fatalf for an error of Apply, or of another step of the startup.
FatalError ==
    /\ main = "migrate" => pc[Watched] = "failed"
    /\ Api!Fatal
    /\ UNCHANGED vars

\* The rest of the startup, the loops, the requests and the way down.
Lives == Api!Live /\ UNCHANGED vars

Killed ==
    /\ main \notin {"config", "exited"} /\ main' = "exited"
    /\ Crash(Watched)
    /\ UNCHANGED <<grouped, signal, cancelled, deadline, server, loop,
                   returned, workers, redis, pool, request>>

\* A new process: nothing of the old one is left but the database.
Restarted ==
    /\ main = "exited"
    /\ restarts < MaxRestarts /\ restarts' = restarts + 1
    /\ Goto(Watched, "list")
    /\ applied' = [applied EXCEPT ![Watched] = {}]
    /\ main' = "config" /\ server' = "off" /\ redis' = "none" /\ pool' = "none"
    /\ grouped' = FALSE /\ signal' = FALSE /\ cancelled' = FALSE /\ deadline' = FALSE
    /\ loop' = [l \in Api!Loops |-> "none"] /\ returned' = {} /\ workers' = 0
    /\ request' = [r \in Requests |-> "none"]
    /\ UNCHANGED <<schema, recorded, commits, manual, crashes>>

Others ==
    /\ \/ \E p \in Processes \ {Watched} : Crash(p) \/ Restart(p)
       \/ \E f \in Guide : RunByHand(f)
    /\ UNCHANGED lifeVars

DeploymentNext ==
    \/ \E p \in Processes : Migrate(p)
    \/ Migrated \/ FatalError \/ Lives \/ Killed \/ Restarted \/ Others

DeploymentSpec == DeploymentInit /\ [][DeploymentNext]_allVars

\* No statement of main blocks for ever, calls return, goroutines that can go
\* on do, and a handler ends; the steps of Apply are statements of main.
DeploymentFairSpec ==
    /\ DeploymentSpec
    /\ \A p \in Processes : WF_allVars(Migrate(p))
    /\ WF_allVars(Migrated) /\ WF_allVars(main = "migrate" /\ FatalError)
    /\ WF_allVars(Api!Starts /\ UNCHANGED vars)
    /\ WF_allVars(Api!WayDown /\ UNCHANGED vars)
    /\ \A l \in Api!Loops :
        /\ WF_allVars(Api!CallReturns(l) /\ UNCHANGED vars)
        /\ WF_allVars(Api!LoopReturns(l) /\ UNCHANGED vars)
    /\ \A g \in Api!Goroutines : WF_allVars(Api!Done(g) /\ UNCHANGED vars)
    /\ \A r \in Requests : WF_allVars(Api!RequestStep(r) /\ UNCHANGED vars)

-----------------------------------------------------------------------------
(* Properties.                                                             *)

\* While requests are accepted the whole pipeline behind them is up: every
\* table and the group exist and the three loops run, at startup and on the
\* way down (the server is started last and shut down before cancelApp).
\* And the variables have their types.
AcceptingMeansRunning ==
    /\ Api!TypeOK
    /\ server = "listening" =>
        /\ schema = Files /\ recorded = Files /\ grouped
        /\ \A l \in Api!Loops : loop[l] \in {"idle", "call"}

\* No background loop calls a client that was closed under it: workers.Wait,
\* and the join in Worker.Run, come before the deferred Close calls.  Nor does
\* a process that ends by its shutdown leave a request inside a transaction,
\* or one without an answer unless the server failed or the five seconds for
\* the requests in flight ran out.
CallsUseOpenClients ==
    /\ (main # "exited" /\ \E l \in Api!Loops : loop[l] = "call") =>
        redis = "open" /\ pool = "open"
    /\ (main = "exited" /\ pool = "closed") =>
        \A r \in Requests :
            /\ request[r] \notin {"tx", "sent"}
            /\ (request[r] # "none") => (deadline \/ server = "failed")

\* A process that is told to stop stops: also when the signal arrives during
\* the startup, which does not look at it, or after the server failed.
SignalEndsProcess == signal ~> main = "exited"
=============================================================================
