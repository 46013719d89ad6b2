------------------------------- MODULE Lifecycle -------------------------------
(***************************************************************************)
(* The start and the graceful shutdown of the API process (src/backend/src *)
(* /server.ts), which may overlap: a signal is served whenever the start   *)
(* awaits something.  HTTP requests and WebSocket clients come from        *)
(* outside; the HTTP server is closed once every connection of theirs is.  *)
(***************************************************************************)
EXTENDS Integers

CONSTANTS
    MaxRequests,    \* bound: HTTP requests in flight
    MaxClients      \* bound: WebSocket clients connected

(* What the composing module assumes of the constants.                     *)
LifecycleConstants == {MaxRequests, MaxClients} \subseteq Nat

VARIABLES
    faults,         \* what may go wrong; never changes
    starting,       \* what startServer() awaits
    stopping,       \* what shutdown() awaits
    forceTimer,     \* the timer that forces the exit is armed
    databaseUp,     \* prisma is connected
    listening,      \* httpServer accepts connections
    background,     \* the intervals of payments and withdrawals are set
    requests,       \* HTTP requests in flight
    clients,        \* WebSocket clients connected
    early           \* history: the signal came before the server listened

lifecycleVars == <<starting, stopping, forceTimer, databaseUp, listening, background, requests,
                   clients, early>>

LifecycleTypeOK ==
    /\ starting \in {"database", "redis", "started"}
    /\ stopping \in {"no", "drain", "queues", "database", "redis", "rejected", "exited"}
    /\ {forceTimer, databaseUp, listening, background, early} \subseteq BOOLEAN
    /\ requests \in 0..MaxRequests
    /\ clients \in 0..MaxClients

LifecycleInit ==
    /\ starting = "database" /\ stopping = "no"
    /\ forceTimer = FALSE /\ databaseUp = FALSE
    /\ listening = FALSE /\ background = FALSE
    /\ requests = 0 /\ clients = 0 /\ early = FALSE

Alive == stopping # "exited"

---------------------------------------------------------------------------
(* startServer()                                                           *)

(* A connection that fails ends the process, whatever else goes on.        *)
StartFails ==
    /\ Alive
    /\ \/ starting = "database" /\ "db" \in faults
       \/ starting = "redis" /\ "redis" \in faults
    /\ stopping' = "exited"
    /\ UNCHANGED <<starting, forceTimer, databaseUp, listening, background, requests, clients,
                   early>>

DatabaseConnected ==
    /\ Alive /\ starting = "database"
    /\ starting' = "redis" /\ databaseUp' = TRUE
    /\ UNCHANGED <<stopping, forceTimer, listening, background, requests, clients, early>>

(* The rest runs at once: initWebSocket(), startMonitoring(),              *)
(* startProcessing() and listen().                                         *)
RedisConnected ==
    /\ Alive /\ starting = "redis"
    /\ starting' = "started" /\ background' = TRUE /\ listening' = TRUE
    /\ UNCHANGED <<stopping, forceTimer, databaseUp, requests, clients, early>>

---------------------------------------------------------------------------
(* shutdown(), for SIGTERM, SIGINT, an uncaught exception or an unhandled  *)
(* rejection; once it runs it is not entered again.                        *)

(* Seeded fault: nothing forces the exit.                                  *)
SignalArmsNothing ==
    /\ stopping = "no"
    /\ stopping' = "drain"
    /\ listening' = FALSE /\ early' = ~listening
    /\ UNCHANGED <<starting, forceTimer, databaseUp, background, requests, clients>>

(* Closing a server that does not listen yet calls back at once.           *)
Signal ==
    /\ stopping = "no"
    /\ stopping' = "drain" /\ forceTimer' = TRUE
    /\ listening' = FALSE /\ early' = ~listening
    /\ UNCHANGED <<starting, databaseUp, background, requests, clients>>

(* The HTTP server is closed.  The intervals are cleared, what they        *)
(* started is not awaited, and io.close() closes the clients and, once     *)
(* more, the HTTP server.                                                  *)
Drained ==
    /\ stopping = "drain"
    /\ early \/ (requests = 0 /\ clients = 0)
    /\ stopping' = "queues"
    /\ background' = FALSE /\ clients' = 0 /\ listening' = FALSE
    /\ UNCHANGED <<starting, forceTimer, databaseUp, requests, early>>

(* closeAllQueues() throws nothing, then WhatsApp is disconnected.         *)
QueuesClosed ==
    /\ stopping = "queues"
    /\ stopping' = "database"
    /\ UNCHANGED <<starting, forceTimer, databaseUp, listening, background, requests, clients,
                   early>>

DatabaseDisconnected ==
    /\ stopping = "database"
    /\ stopping' = "redis" /\ databaseUp' = FALSE
    /\ UNCHANGED <<starting, forceTimer, listening, background, requests, clients, early>>

(* process.exit(0)                                                         *)
RedisDisconnected ==
    /\ stopping = "redis"
    /\ stopping' = "exited" /\ forceTimer' = FALSE
    /\ UNCHANGED <<starting, databaseUp, listening, background, requests, clients, early>>

(* The promise of shutdown() is rejected; the handler of unhandled         *)
(* rejections enters it again, in vain.                                    *)
DisconnectThrows ==
    /\ \/ "db" \in faults /\ stopping = "database"
       \/ "redis" \in faults /\ stopping = "redis"
    /\ stopping' = "rejected"
    /\ UNCHANGED <<starting, forceTimer, databaseUp, listening, background, requests, clients,
                   early>>

ForceExit ==
    /\ Alive /\ forceTimer
    /\ stopping' = "exited" /\ forceTimer' = FALSE
    /\ UNCHANGED <<starting, databaseUp, listening, background, requests, clients, early>>

---------------------------------------------------------------------------
Connections ==
    /\ Alive
    /\ \/ listening /\ requests < MaxRequests /\ requests' = requests + 1 /\ UNCHANGED clients
       \/ requests > 0 /\ requests' = requests - 1 /\ UNCHANGED clients
       \/ listening /\ clients < MaxClients /\ clients' = clients + 1 /\ UNCHANGED requests
       \/ clients > 0 /\ clients' = clients - 1 /\ UNCHANGED requests
    /\ UNCHANGED <<starting, stopping, forceTimer, databaseUp, listening, background, early>>

LifecycleNext ==
    /\ \/ StartFails \/ DatabaseConnected \/ RedisConnected
       \/ Signal \/ Drained \/ QueuesClosed \/ DatabaseDisconnected \/ RedisDisconnected
       \/ DisconnectThrows \/ ForceExit
       \/ Connections
    /\ UNCHANGED faults

---------------------------------------------------------------------------
(* Properties                                                              *)

(* A shutdown ends, even if a WebSocket client, which is closed only after *)
(* the HTTP server, never leaves; and unless the signal came during the    *)
(* start, the database is disconnected only after the last request.        *)
ShutdownCompletes ==
    /\ stopping # "no" ~> stopping = "exited"
    /\ [](starting = "started" /\ ~databaseUp /\ ~early => requests = 0)
=============================================================================
