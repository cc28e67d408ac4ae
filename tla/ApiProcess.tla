----------------------------- MODULE ApiProcess -----------------------------
(***************************************************************************)
(* The life of one API process (main of cmd/api): startup in order, the    *)
(* three background loops (outbox runner, stream worker, retry pump), HTTP *)
(* requests, and the two ways down: a signal, or an error of the server.   *)
(*                                                                         *)
(* A loop is between two calls ("idle"), in a call to Redis, PostgreSQL or *)
(* a destination ("call"), or has returned ("done"); a call always returns *)
(* (clients have timeouts and most of them watch the context).  A request  *)
(* is one that holds a connection of the pool while it publishes to Redis, *)
(* like a redrive; requests that do less take a subset of its steps.       *)
(* External: http.Server.Shutdown waits for the requests or for its        *)
(* deadline; pgxpool's Close refuses new connections and waits for the     *)
(* acquired ones; a closed Redis client refuses commands.                  *)
(***************************************************************************)
EXTENDS Integers

CONSTANT Requests    \* HTTP requests that can be in flight at a time

VARIABLES
    main,        \* where the main goroutine is
    grouped,     \* the consumer group exists
    signal,      \* a signal has arrived
    cancelled,   \* cancelApp was called: ctx is done
    deadline,    \* Shutdown gave up waiting for requests
    server,      \* "off", "listening", "failed", "closed"
    loop,        \* the background loops
    returned,    \* the goroutines that have called workers.Done
    workers,     \* the counter of the wait group
    redis, pool, \* "none", "open", "closing" (the pool), "closed"
    request      \* "none", "begun", "tx" (connection held), "sent", "answer"

vars == <<main, grouped, signal, cancelled, deadline, server, loop,
          returned, workers, redis, pool, request>>

Loops == {"outbox", "stream", "pump"}
Goroutines == {"outbox", "delivery"}
loopVars == <<loop, returned, workers>>
clients == <<redis, pool>>
started == <<grouped, deadline>>

Init ==
    /\ main = "config"
    /\ grouped = FALSE
    /\ signal = FALSE /\ cancelled = FALSE /\ deadline = FALSE
    /\ server = "off"
    /\ loop = [l \in Loops |-> "none"]
    /\ returned = {} /\ workers = 0
    /\ redis = "none" /\ pool = "none"
    /\ request = [r \in Requests |-> "none"]

\* The main goroutine goes from one statement to a later one.
Goes(from, to) == main = from /\ main' = to

-----------------------------------------------------------------------------
(* Startup.                                                                *)

OpenPool ==
    /\ Goes("config", "migrate")
    /\ pool' = "open"
    /\ UNCHANGED <<started, signal, cancelled, server, loopVars, redis, request>>

ApplyMigrations ==
    /\ Goes("migrate", "group")
    /\ redis' = "open"
    /\ UNCHANGED <<grouped, deadline, signal, cancelled, server, loopVars, pool, request>>

EnsureConsumerGroup ==
    /\ Goes("group", "launch")
    /\ grouped' = TRUE
    /\ UNCHANGED <<deadline, signal, cancelled, server, loopVars, clients, request>>

LaunchWorkers ==
    /\ Goes("launch", "listen")
    /\ loop' = [l \in Loops |-> "idle"]
    /\ workers' = 2
    /\ UNCHANGED <<started, signal, cancelled, server, returned, clients, request>>

Listen ==
    /\ Goes("listen", "select")
    /\ server' = "listening"
    /\ UNCHANGED <<started, signal, cancelled, loopVars, clients, request>>

\* log.Fatalf: the process is gone at once, without the deferred calls.
Fatal ==
    /\ main \in {"config", "migrate", "group"}
    /\ main' = "exited"
    /\ UNCHANGED <<started, signal, cancelled, server, loopVars, clients, request>>

-----------------------------------------------------------------------------
(* Background loops.                                                       *)

Call(l) ==
    /\ main # "exited"
    /\ loop[l] = "idle" /\ ~cancelled
    /\ loop' = [loop EXCEPT ![l] = "call"]
    /\ UNCHANGED <<main, started, signal, cancelled, server, returned, workers, clients, request>>

CallReturns(l) ==
    /\ main # "exited"
    /\ loop[l] = "call"
    /\ loop' = [loop EXCEPT ![l] = "idle"]
    /\ UNCHANGED <<main, started, signal, cancelled, server, returned, workers, clients, request>>

\* Mutant of LoopReturns: the retry pump does not look at the context.
LoopReturnsNotPump(l) ==
    /\ main # "exited"
    /\ l # "pump"
    /\ loop[l] = "idle" /\ cancelled
    /\ loop' = [loop EXCEPT ![l] = "done"]
    /\ UNCHANGED <<main, started, signal, cancelled, server, returned, workers, clients, request>>

LoopReturns(l) ==
    /\ main # "exited"
    /\ loop[l] = "idle" /\ cancelled
    /\ loop' = [loop EXCEPT ![l] = "done"]
    /\ UNCHANGED <<main, started, signal, cancelled, server, returned, workers, clients, request>>

\* Mutant of RunsLoops: Run does not wait for its retry pump.
RunsStreamOnly(g) == IF g = "outbox" THEN {"outbox"} ELSE {"stream"}

\* The loops that a goroutine of the wait group runs: Worker.Run is done
\* when both of its loops are.
RunsLoops(g) == IF g = "outbox" THEN {"outbox"} ELSE {"stream", "pump"}

Done(g) ==
    /\ main # "exited"
    /\ g \notin returned
    /\ \A l \in RunsLoops(g) : loop[l] = "done"
    /\ returned' = returned \cup {g}
    /\ workers' = workers - 1
    /\ UNCHANGED <<main, started, signal, cancelled, server, loop, clients, request>>

-----------------------------------------------------------------------------
(* Requests.                                                               *)

Request(r, from, to) ==
    /\ main # "exited"
    /\ request[r] = from
    /\ request' = [request EXCEPT ![r] = to]
    /\ UNCHANGED <<main, started, signal, cancelled, server, loopVars, clients>>

Accept(r) == server = "listening" /\ Request(r, "none", "begun")

\* A pool that is being closed gives out no connection: 500.
Begin(r) == Request(r, "begun", IF pool = "open" THEN "tx" ELSE "answer")

\* XADD: with the client closed it fails, and the transaction is rolled back.
XAdd(r) == Request(r, "tx", IF redis = "open" THEN "sent" ELSE "answer")

Commit(r) == Request(r, "sent", "answer")

Answer(r) == Request(r, "answer", "none")

-----------------------------------------------------------------------------
(* The way down.                                                           *)

Signal ==
    /\ main # "exited" /\ ~signal
    /\ signal' = TRUE
    /\ UNCHANGED <<main, started, cancelled, server, loopVars, clients, request>>

ServerFails ==
    /\ main = "select" /\ server = "listening"
    /\ server' = "failed"
    /\ UNCHANGED <<main, started, signal, cancelled, loopVars, clients, request>>

\* The listener is closed first, then Shutdown waits.
ShutdownBegins ==
    /\ signal
    /\ Goes("select", "shutdown")
    /\ server' = "closed"
    /\ UNCHANGED <<started, signal, cancelled, loopVars, clients, request>>

\* All requests are answered, or five seconds are gone.
ShutdownReturns ==
    /\ Goes("shutdown", "cancel")
    /\ deadline' = (\E r \in Requests : request[r] # "none")
    /\ UNCHANGED <<grouped, signal, cancelled, server, loopVars, clients, request>>

ServerErr ==
    /\ server = "failed"
    /\ Goes("select", "cancel")
    /\ UNCHANGED <<started, signal, cancelled, server, loopVars, clients, request>>

\* Mutant of CancelApp: the workers are stopped when the signal comes.
CancelAtOnce ==
    /\ ~cancelled
    /\ \/ signal /\ main = "select" /\ main' = "select"
       \/ Goes("cancel", "wait")
    /\ cancelled' = TRUE
    /\ UNCHANGED <<started, signal, server, loopVars, clients, request>>

CancelApp ==
    /\ Goes("cancel", "wait")
    /\ cancelled' = TRUE
    /\ UNCHANGED <<started, signal, server, loopVars, clients, request>>

WorkersWait ==
    /\ Goes("wait", "closeRedis")
    /\ workers = 0
    /\ UNCHANGED <<started, signal, cancelled, server, loopVars, clients, request>>

\* The deferred calls, last registered first.
CloseRedis ==
    /\ Goes("closeRedis", "closePool")
    /\ redis' = "closed"
    /\ UNCHANGED <<started, signal, cancelled, server, loopVars, pool, request>>

ClosePool ==
    /\ Goes("closePool", "closing")
    /\ pool' = "closing"
    /\ UNCHANGED <<started, signal, cancelled, server, loopVars, redis, request>>

PoolClosed ==
    /\ Goes("closing", "exited")
    /\ \A r \in Requests : request[r] \notin {"tx", "sent"}
    /\ pool' = "closed"
    /\ UNCHANGED <<started, signal, cancelled, server, loopVars, redis, request>>

-----------------------------------------------------------------------------
WayDown ==
    \/ ShutdownBegins \/ ShutdownReturns \/ ServerErr \/ CancelApp
    \/ WorkersWait \/ CloseRedis \/ ClosePool \/ PoolClosed

RequestStep(r) == Begin(r) \/ XAdd(r) \/ Commit(r) \/ Answer(r)

\* The steps of the startup but ApplyMigrations, which ends with the
\* migrations of the module Migrations.
Starts == OpenPool \/ EnsureConsumerGroup \/ LaunchWorkers \/ Listen

Live ==
    \/ Starts \/ WayDown \/ Signal \/ ServerFails
    \/ \E l \in Loops : Call(l) \/ CallReturns(l) \/ LoopReturns(l)
    \/ \E g \in Goroutines : Done(g)
    \/ \E r \in Requests : Accept(r) \/ RequestStep(r)

-----------------------------------------------------------------------------
TypeOK ==
    /\ main \in {"config", "migrate", "group", "launch", "listen", "select", "shutdown",
                 "cancel", "wait", "closeRedis", "closePool", "closing", "exited"}
    /\ {grouped, signal, cancelled, deadline} \subseteq BOOLEAN
    /\ server \in {"off", "listening", "failed", "closed"}
    /\ loop \in [Loops -> {"none", "idle", "call", "done"}]
    /\ returned \subseteq Goroutines /\ workers \in 0..2
    /\ redis \in {"none", "open", "closed"}
    /\ pool \in {"none", "open", "closing", "closed"}
    /\ request \in [Requests -> {"none", "begun", "tx", "sent", "answer"}]
=============================================================================
