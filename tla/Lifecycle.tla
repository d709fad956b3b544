------------------------------- MODULE Lifecycle -------------------------------
(***************************************************************************)
(* The life of one process: run() in cmd/server/main.go, server.New with   *)
(* the assembly of the repository and startConsumers, Server.Start and     *)
(* Server.Shutdown, with the requests and deliveries in flight meanwhile.  *)
(*                                                                         *)
(* A consumer is seen from outside: its loops wait, handle a delivery or   *)
(* have ended.  What ends a waiting loop differs by adapter: the context   *)
(* New was given for all of them, Stop's closed channel for rabbitmq,      *)
(* Stop's own cancel for pubsub, nothing in Stop for kafka.                *)
(*                                                                         *)
(* External: net/http's Shutdown waits for its requests until its context  *)
(* expires, gRPC's GracefulStop waits for every handler and every stream,  *)
(* the gateway's connection to the gRPC server closes once the context is  *)
(* done.  Only the client ends a stream of the health or the reflection    *)
(* service.                                                                *)
(***************************************************************************)
CONSTANTS
  Requests,
  Streams,     \* the streams clients may open: health's Watch, reflection
  Stores,      \* what buildRepository is configured to open before the publishers
  Publishers,  \* the topics published to, with a client each
  Consumers,   \* the topics with a handler
  Broker       \* the adapter of each topic, by topic.Type

\* The adapters BuildConsumer can build; any other type is an error.
Adapters == {"kafka", "rabbitmq", "pubsub"}

\* There is always a database, and a replica only of a cache.
ASSUME LifecycleAssumption ==
  /\ Broker \in [Consumers \cup Publishers -> Adapters]
  /\ {"db"} \subseteq Stores /\ Stores \subseteq {"db", "cache", "cache_replica"}
  /\ "cache_replica" \in Stores => "cache" \in Stores
  /\ Publishers \cap {"db", "cache", "cache_replica", "telemetry"} = {}

VARIABLES
  main,      \* where run() is
  ctxDone,   \* the signal context is cancelled
  broken,    \* the listeners that have failed (errCh)
  late,      \* the 30 seconds of shutdownCtx are over
  conn,      \* the gateway's connection is open
  open,      \* what of the repository is open, and the telemetry exporter
  started,   \* consumers whose Start has returned
  told,      \* consumers whose Stop has been called
  loop,      \* what the loops of each consumer do
  request,   \* what each request does
  streams    \* the streams that are open

vars == <<main, ctxDone, broken, late, conn, open, started, told, loop, request, streams>>
server == <<main, ctxDone, broken, late, conn, open>>
consumers == <<started, told, loop>>
calls == <<request, streams>>

Listeners == {"http", "grpc"}

\* Of New these are before the first consumer, when nothing is served.
Assembly == {"telemetry", "stores", "clients", "listeners"}

Phases == Assembly \cup {"starting", "aborting", "serving", "http", "grpc", "consumers", "repo",
                        "flushing", "exited"}

Resources == Stores \cup Publishers

\* A request comes in by HTTP and waits in the gateway, then is an RPC; or is
\* an RPC at once.  The caller of an orphan has an error already, that of a
\* timedout one its 503; the handler of either still runs.
States == {"none", "gateway", "proxied", "direct", "orphan", "timedout", "done", "failed"}

Running(q) == request[q] \in {"proxied", "direct", "orphan", "timedout"}
InHTTP(q)  == request[q] \in {"gateway", "proxied"}

-----------------------------------------------------------------------------
(* Assembly: nothing that has been opened is closed when a later part fails *)

Step(next) ==
  /\ main' = next
  /\ UNCHANGED <<ctxDone, broken, late, consumers, calls>>

\* With telemetry disabled what is open does nothing.
InitTelemetry ==
  /\ main = "telemetry" /\ Step("stores")
  /\ open' = {"telemetry"} /\ UNCHANGED conn

\* The database is pinged, then the cache, then its replica.
BuildDatabase ==
  /\ main = "stores" /\ "db" \notin open /\ Step("stores")
  /\ open' = open \cup {"db"} /\ UNCHANGED conn

BuildCache(store) ==
  /\ main = "stores" /\ store \in Stores \ open /\ Step("stores")
  /\ "db" \in open /\ (store = "cache_replica" => "cache" \in open)
  /\ open' = open \cup {store} /\ UNCHANGED conn

StoresBuilt ==
  /\ main = "stores" /\ Stores \subseteq open /\ Step("clients")
  /\ UNCHANGED <<conn, open>>

\* One client per topic, in the order of a map.
BuildClient(t) ==
  /\ main = "clients" /\ t \notin open /\ Step("clients")
  /\ open' = open \cup {t} /\ UNCHANGED conn

ClientsBuilt ==
  /\ main = "clients" /\ Publishers \subseteq open /\ Step("listeners")
  /\ UNCHANGED <<conn, open>>

\* gRPC's port is bound and the gateway's connection made, to be dialled later.
Listen ==
  /\ main = "listeners" /\ Step("starting")
  /\ conn' = TRUE /\ UNCHANGED open

\* Every part but a kafka client may fail; of the clients, those built close.
AssemblyFails ==
  /\ main \in Assembly
  /\ main = "stores" => ~(Stores \subseteq open)
  /\ main = "clients" => \E t \in Publishers \ open : Broker[t] # "kafka"
  /\ Step("exited")
  /\ open' = IF main = "clients" THEN open \ Publishers ELSE open
  /\ UNCHANGED conn

-----------------------------------------------------------------------------
(* Starting, serving, shutting down                                        *)

StartConsumer(c) ==
  /\ main = "starting" /\ c \notin started
  /\ started' = started \cup {c}
  /\ loop' = [loop EXCEPT ![c] = "waiting"]
  /\ UNCHANGED <<server, told, calls>>

\* BuildConsumer or Start fails, as kafka's cannot: stopAll, then New returns the
\* error.  A rabbitmq consumer starts its loops one by one, and when a later one
\* cannot start those before it run: stopAll does not know of the consumer.
StartFails(c) ==
  /\ main = "starting" /\ c \notin started /\ Broker[c] # "kafka"
  /\ main' = "aborting"
  /\ \/ UNCHANGED loop
     \/ Broker[c] = "rabbitmq" /\ loop' = [loop EXCEPT ![c] = "waiting"]
  /\ UNCHANGED <<ctxDone, broken, late, conn, open, started, told, calls>>

Started ==
  /\ main = "starting" /\ started = Consumers
  /\ main' = "serving"
  /\ UNCHANGED <<ctxDone, broken, late, conn, open, consumers, calls>>

Signal ==
  /\ ~ctxDone /\ ctxDone' = TRUE
  /\ UNCHANGED <<main, broken, late, conn, open, consumers, calls>>

\* Once Shutdown has begun the HTTP listener is closed, and its end no failure.
ListenerFails(l) ==
  /\ main = "serving" \/ (main = "http" /\ l = "grpc")
  /\ broken' = broken \cup {l}
  /\ UNCHANGED <<main, ctxDone, late, conn, open, consumers, calls>>

\* The select in run(): nothing on the second branch cancels the context.
BeginShutdown ==
  /\ main = "serving" /\ (ctxDone \/ broken # {})
  /\ main' = "http"
  /\ UNCHANGED <<ctxDone, broken, late, conn, open, consumers, calls>>

DeadlinePasses ==
  /\ main \in {"http", "grpc", "consumers", "repo"} /\ ~late
  /\ late' = TRUE
  /\ UNCHANGED <<main, ctxDone, broken, conn, open, consumers, calls>>

HTTPShutdown ==
  /\ main = "http"
  /\ late \/ \A q \in Requests : ~InHTTP(q)
  /\ main' = "grpc"
  /\ UNCHANGED <<ctxDone, broken, late, conn, open, consumers, calls>>

\* mutant: Stop in the place of GracefulStop, which leaves handlers running.
GracefulStop_Stop ==
  /\ main = "grpc"
  /\ main' = "consumers"
  /\ UNCHANGED <<ctxDone, broken, late, conn, open, consumers, calls>>

GracefulStop ==
  /\ main = "grpc"
  /\ \A q \in Requests : ~Running(q)
  /\ streams = {}
  /\ main' = "consumers"
  /\ UNCHANGED <<ctxDone, broken, late, conn, open, consumers, calls>>

Ended(c) == loop[c] \in {"off", "ended"}

\* Stop of one consumer after the other, each waiting for its loops.
StopConsumer(c) ==
  /\ main \in {"consumers", "aborting"}
  /\ c \in started \ told
  /\ \A other \in told : Ended(other)
  /\ told' = told \cup {c}
  /\ UNCHANGED <<server, started, loop, calls>>

\* mutant: Stop does not wait for its loops.
StoppedAll_NoWait == told = started

StoppedAll == told = started /\ \A c \in started : Ended(c)

ConsumersStopped ==
  /\ main = "consumers" /\ StoppedAll
  /\ main' = "repo"
  /\ UNCHANGED <<ctxDone, broken, late, conn, open, consumers, calls>>

\* Close goes on to the next resource when one does not close.
RepositoryClose ==
  /\ main = "repo" /\ Step("flushing")
  /\ open' = open \ Resources /\ UNCHANGED conn

\* telemetryShutdown has five seconds of its own.
ShutdownTelemetry ==
  /\ main = "flushing" /\ Step("exited")
  /\ open' = {} /\ UNCHANGED conn

\* After a failed New the process exits as it is.
Abort ==
  /\ main = "aborting" /\ StoppedAll
  /\ main' = "exited"
  /\ UNCHANGED <<ctxDone, broken, late, conn, open, consumers, calls>>

-----------------------------------------------------------------------------
(* The loops of the consumers                                              *)

Alive == main # "exited"

Deliver(c) ==
  /\ Alive /\ loop[c] = "waiting"
  /\ c \in told => Broker[c] = "kafka"
  /\ loop' = [loop EXCEPT ![c] = "handling"]
  /\ UNCHANGED <<server, started, told, calls>>

\* The handler returns; a kafka loop looks at ctx and stopCh before it fetches.
Handled(c) ==
  /\ Alive /\ loop[c] = "handling"
  /\ loop' = [loop EXCEPT ![c] =
       IF Broker[c] = "kafka" /\ (ctxDone \/ c \in told) THEN "ended" ELSE "waiting"]
  /\ UNCHANGED <<server, started, told, calls>>

\* mutant: FetchMessage is given a context of its own.
LoopEnds_OwnContext(c) ==
  /\ Alive /\ loop[c] = "waiting"
  /\ Broker[c] # "kafka" /\ (ctxDone \/ c \in told)
  /\ loop' = [loop EXCEPT ![c] = "ended"]
  /\ UNCHANGED <<server, started, told, calls>>

\* mutant: Stop neither closes rabbitmq's channels nor cancels pubsub's context.
LoopEnds_ContextOnly(c) ==
  /\ Alive /\ loop[c] = "waiting"
  /\ ctxDone
  /\ loop' = [loop EXCEPT ![c] = "ended"]
  /\ UNCHANGED <<server, started, told, calls>>

\* What ends a loop that waits for a delivery.
LoopEnds(c) ==
  /\ Alive /\ loop[c] = "waiting"
  /\ ctxDone \/ (c \in told /\ Broker[c] # "kafka")
  /\ loop' = [loop EXCEPT ![c] = "ended"]
  /\ UNCHANGED <<server, started, told, calls>>

\* FetchMessage fails for a reason of its own: back to the top of the loop.
FetchErrs(c) ==
  /\ Alive /\ loop[c] = "waiting" /\ Broker[c] = "kafka" /\ c \in told
  /\ loop' = [loop EXCEPT ![c] = "ended"]
  /\ UNCHANGED <<server, started, told, calls>>

-----------------------------------------------------------------------------
(* Requests                                                                *)

Become(q, state) ==
  /\ request' = [request EXCEPT ![q] = state]
  /\ UNCHANGED <<server, consumers, streams>>

\* Connections that are there outlive their listener.
ArriveHTTP(q) == request[q] = "none" /\ main = "serving" /\ Become(q, "gateway")

ArriveGRPC(q) == request[q] = "none" /\ main \in {"serving", "http"} /\ Become(q, "direct")

\* mutant: the gateway's calls wait for a connection (grpc.WaitForReady).
Forward_WaitsForReady(q) ==
  /\ request[q] = "gateway" /\ Alive
  /\ conn /\ main \in {"serving", "http"}
  /\ Become(q, "proxied")

\* The gateway forwards the request if its connection takes a new RPC.  It is
\* dialled at the first use, which needs the listener.
Forward(q) ==
  /\ request[q] = "gateway" /\ Alive
  /\ \/ conn /\ main \in {"serving", "http"} /\ Become(q, "proxied")
     \/ /\ ~conn \/ main \notin {"serving", "http"} \/ "grpc" \in broken
        /\ Become(q, "failed")

\* http.TimeoutHandler answers for the request and leaves the RPC it waits for.
TimesOut(q) ==
  /\ InHTTP(q) /\ Alive
  /\ Become(q, IF request[q] = "proxied" THEN "timedout" ELSE "done")

\* The handler has run its use case.
Serve(q) ==
  /\ Running(q) /\ Alive
  /\ Become(q, IF request[q] = "orphan" THEN "failed" ELSE "done")

\* mutant: the gateway's connection does not outlive Start.
CloseConn_AnyTime ==
  /\ conn /\ Alive
  /\ conn' = FALSE
  /\ request' = [q \in Requests |-> IF request[q] = "proxied" THEN "orphan" ELSE request[q]]
  /\ UNCHANGED <<main, ctxDone, broken, late, open, consumers, streams>>

\* RegisterUserGrpcServiceHandlerFromEndpoint: the connection closes when its
\* context is done, and the RPCs on it end with an error for their callers.
CloseConn ==
  /\ conn /\ ctxDone /\ Alive
  /\ conn' = FALSE
  /\ request' = [q \in Requests |-> IF request[q] = "proxied" THEN "orphan" ELSE request[q]]
  /\ UNCHANGED <<main, ctxDone, broken, late, open, consumers, streams>>

\* A client opens a stream or ends it; no interceptor and no deadline of the
\* server is on it.
OpenStream(x) ==
  /\ main \in {"serving", "http"} /\ x \notin streams
  /\ streams' = streams \cup {x}
  /\ UNCHANGED <<server, consumers, request>>

EndStream(x) ==
  /\ x \in streams /\ Alive
  /\ streams' = streams \ {x}
  /\ UNCHANGED <<server, consumers, request>>

-----------------------------------------------------------------------------
Init ==
  /\ main = "telemetry" /\ ctxDone = FALSE /\ broken = {} /\ late = FALSE
  /\ conn = FALSE /\ open = {}
  /\ started = {} /\ told = {}
  /\ loop = [c \in Consumers |-> "off"]
  /\ request = [q \in Requests |-> "none"] /\ streams = {}

\* What run(), New and Shutdown do.
Main ==
  \/ InitTelemetry \/ BuildDatabase \/ StoresBuilt \/ ClientsBuilt \/ Listen
  \/ \E store \in Stores : BuildCache(store)
  \/ \E t \in Publishers : BuildClient(t)
  \/ Started \/ BeginShutdown \/ HTTPShutdown \/ GracefulStop
  \/ ConsumersStopped \/ RepositoryClose \/ ShutdownTelemetry \/ Abort
  \/ \E c \in Consumers : StartConsumer(c) \/ StopConsumer(c)

Next ==
  \/ Main
  \/ AssemblyFails \/ Signal \/ DeadlinePasses \/ CloseConn
  \/ \E l \in Listeners : ListenerFails(l)
  \/ \E x \in Streams : OpenStream(x) \/ EndStream(x)
  \/ \E c \in Consumers : StartFails(c) \/ Deliver(c) \/ Handled(c) \/ LoopEnds(c) \/ FetchErrs(c)
  \/ \E q \in Requests : ArriveHTTP(q) \/ ArriveGRPC(q) \/ Forward(q) \/ TimesOut(q) \/ Serve(q)

Spec == Init /\ [][Next]_vars

\* run() goes on when it can (what it opens is pinged under a timeout, or times
\* out in its library); a use case and a handler end (every external call
\* has a timeout), while a stream need not; a loop whose wait is cut short again and again ends.
Fairness ==
  /\ WF_vars(Main) /\ WF_vars(CloseConn)
  /\ \A c \in Consumers : WF_vars(Handled(c)) /\ SF_vars(LoopEnds(c))
  /\ \A q \in Requests : WF_vars(Forward(q)) /\ WF_vars(Serve(q))

FairSpec == Spec /\ Fairness

-----------------------------------------------------------------------------
TypeOK ==
  /\ main \in Phases
  /\ ctxDone \in BOOLEAN /\ broken \subseteq Listeners /\ late \in BOOLEAN
  /\ conn \in BOOLEAN /\ open \subseteq Resources \cup {"telemetry"}
  /\ told \subseteq started /\ started \subseteq Consumers
  /\ loop \in [Consumers -> {"off", "waiting", "handling", "ended"}]
  /\ request \in [Requests -> States] /\ streams \subseteq Streams
  /\ \A c \in started : loop[c] # "off"

\* "a service should not start half-wired" and "close every repository connection
\* last so anything still finishing up above can still reach the database": whoever
\* runs a use case or waits for a delivery finds every configured store and client
\* open, whatever failed before, whatever ended the process and however late it is.
FullyWired ==
  (\E q \in Requests : Running(q)) \/ (\E c \in Consumers : ~Ended(c)) => Resources \subseteq open

\* A shutdown that no signal began (a listener failed) drops a request only
\* when the 30 seconds are over, or when it was gRPC's listener that failed; and
\* an RPC that runs is cut off by a signal only.
DropsOnlyWhenLate ==
  \A q \in Requests :
    /\ request[q] = "failed" => ctxDone \/ late \/ "grpc" \in broken
    /\ request[q] = "orphan" => ctxDone

\* A process that exits leaves no use case behind, and if it has ever taken a
\* request, nothing open.  A delivery it leaves only where New has failed, and only
\* with the consumer that failed to start: Stop has waited for every other.
CleanExit ==
  main = "exited" =>
    /\ \A q \in Requests : ~Running(q)
    /\ \A c \in Consumers : Ended(c) \/ (Broker[c] = "rabbitmq" /\ c \notin started)
    /\ (\E q \in Requests : request[q] # "none") =>
         open = {} /\ \A c \in Consumers : Ended(c)

\* A signal ends the process, at whatever point of its life it comes, unless a
\* client keeps a stream open for good.
SignalEnds == ctxDone ~> main = "exited" \/ [](streams # {})

\* Stop called of every consumer, after a failed start or in Shutdown, with a signal
\* or without, comes to its end or hangs for good in one place: on a kafka consumer
\* that waits for a message, under a context that nobody cancels.
StopEndsOrAwaitsKafka ==
  main \in {"aborting", "consumers"} ~>
    \/ main = "exited"
    \/ [](~ctxDone /\ \E c \in told : Broker[c] = "kafka" /\ loop[c] = "waiting")

\* Every request is answered, or the process ends first.
EveryRequestAnswered ==
  \A q \in Requests : request[q] # "none" ~> request[q] \in {"done", "failed"} \/ ~Alive

-----------------------------------------------------------------------------
(* What comments in the source say, and the code does not (runs that       *)
(* expect a violation).                                                    *)

\* server.go on Shutdown: "in the order that keeps zero-drop guarantees: [...]
\* stop gRPC (letting in-flight RPCs finish)": no RPC in flight is cut off
\* before the deadline.  The signal closes the connection that the RPCs of
\* HTTP requests are on.
ZeroDrop == \A q \in Requests : request[q] = "orphan" => late

\* messaging.go: a consumer runs "until Stop is called or ctx is cancelled", so
\* a shutdown that a failed listener begins comes to its end.  A kafka loop that
\* waits for a message does not see Stop.
ShutdownEnds == main = "http" ~> main = "exited"
=============================================================================
