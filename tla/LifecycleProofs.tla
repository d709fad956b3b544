---------------------------- MODULE LifecycleProofs ----------------------------
(***************************************************************************)
(* What Lifecycle promises for any number of requests and of consumers, on *)
(* any mix of brokers, proved with TLAPS.                                  *)
(***************************************************************************)
EXTENDS Lifecycle, TLAPS

USE DEF server, consumers, calls

\* A new process has the types.
LEMMA TypeInit == Init => TypeOK
<1> SUFFICES ASSUME Init PROVE TypeOK
  OBVIOUS
<1> USE DEF Init
<1>1. /\ ctxDone \in BOOLEAN /\ broken \subseteq Listeners /\ late \in BOOLEAN
      /\ conn \in BOOLEAN
  BY Zenon
<1>2. /\ main \in Phases /\ told \subseteq started /\ started \subseteq Consumers
      /\ open \subseteq Resources \cup {"telemetry"}
  BY DEF Phases, Assembly
<1>3. /\ loop \in [Consumers -> {"off", "waiting", "handling", "ended"}]
      /\ request \in [Requests -> States] /\ streams \subseteq Streams
      /\ \A c \in started : loop[c] # "off"
  BY DEF States
<1> QED
  BY <1>1, <1>2, <1>3 DEF TypeOK

\* A step before the first consumer.
Assembled ==
  \/ InitTelemetry \/ BuildDatabase \/ StoresBuilt \/ ClientsBuilt \/ Listen \/ AssemblyFails
  \/ \E store \in Stores : BuildCache(store)
  \/ \E t \in Publishers : BuildClient(t)

\* What a request's step may be.
LEMMA BecomeType ==
  ASSUME TypeOK, NEW q \in Requests, NEW state \in States, Become(q, state)
  PROVE  TypeOK'
BY DEF Become, TypeOK

\* Every action keeps the types.
LEMMA TypeNext == TypeOK /\ [Next]_vars => TypeOK'
<1> SUFFICES ASSUME TypeOK, [Next]_vars PROVE TypeOK'
  OBVIOUS
<1> USE DEF Phases, Assembly
<1>1. CASE Started \/ BeginShutdown \/ HTTPShutdown \/ GracefulStop \/ ConsumersStopped
           \/ Abort
  BY <1>1 DEF Started, BeginShutdown, HTTPShutdown, GracefulStop, ConsumersStopped,
              Abort, TypeOK
<1>2. CASE Assembled \/ RepositoryClose \/ ShutdownTelemetry
  <2>1. main' \in Phases /\ open' \subseteq Resources \cup {"telemetry"}
    BY <1>2, LifecycleAssumption DEF TypeOK, Assembled, InitTelemetry, BuildDatabase, BuildCache,
       StoresBuilt, BuildClient, ClientsBuilt, Listen, AssemblyFails, RepositoryClose,
       ShutdownTelemetry, Step, Resources
  <2>2. conn' \in BOOLEAN
    BY <1>2 DEF TypeOK, Assembled, InitTelemetry, BuildDatabase, BuildCache,
       StoresBuilt, BuildClient, ClientsBuilt, Listen, AssemblyFails, RepositoryClose,
       ShutdownTelemetry, Step
  <2>3. UNCHANGED <<ctxDone, broken, late, consumers, calls>>
    BY <1>2 DEF Assembled, InitTelemetry, BuildDatabase, BuildCache,
       StoresBuilt, BuildClient, ClientsBuilt, Listen, AssemblyFails, RepositoryClose,
       ShutdownTelemetry, Step
  <2> QED
    BY <2>1, <2>2, <2>3 DEF TypeOK
<1>3. CASE Signal \/ DeadlinePasses \/ \E l \in Listeners : ListenerFails(l)
  BY <1>3 DEF Signal, ListenerFails, DeadlinePasses, TypeOK
<1>4. CASE CloseConn
  BY <1>4 DEF CloseConn, TypeOK, States
<1>5. ASSUME NEW c \in Consumers, StartConsumer(c) PROVE TypeOK'
  BY <1>5 DEF StartConsumer, TypeOK
<1>11. ASSUME NEW c \in Consumers, StartFails(c) PROVE TypeOK'
  BY <1>11 DEF StartFails, TypeOK
<1>12. ASSUME NEW x \in Streams, OpenStream(x) \/ EndStream(x) PROVE TypeOK'
  BY <1>12 DEF OpenStream, EndStream, TypeOK
<1>6. ASSUME NEW c \in Consumers, StopConsumer(c) PROVE TypeOK'
  BY <1>6 DEF StopConsumer, TypeOK
<1>7. ASSUME NEW c \in Consumers, Deliver(c) \/ LoopEnds(c) \/ FetchErrs(c) PROVE TypeOK'
  BY <1>7 DEF Deliver, LoopEnds, FetchErrs, TypeOK
<1>8. ASSUME NEW c \in Consumers, Handled(c) PROVE TypeOK'
  BY <1>8 DEF Handled, TypeOK
<1>9. ASSUME NEW q \in Requests, ArriveHTTP(q) \/ ArriveGRPC(q) \/ Forward(q) \/ TimesOut(q) \/ Serve(q)
      PROVE TypeOK'
  BY <1>9, BecomeType DEF ArriveHTTP, ArriveGRPC, Forward, TimesOut, Serve, States
<1>10. CASE UNCHANGED vars
  BY <1>10 DEF vars, TypeOK
<1> QED
  BY <1>1, <1>2, <1>3, <1>4, <1>5, <1>6, <1>7, <1>8, <1>9, <1>10, <1>11, <1>12
     DEF Next, Main, Assembled

\* The types are right in every state of the process.
THEOREM TypeCorrect == Spec => []TypeOK
BY TypeInit, TypeNext, PTL DEF Spec

-----------------------------------------------------------------------------
(* What is open while somebody may need it                                 *)

NoHandler   == \A q \in Requests : ~Running(q)
NoLoop      == \A c \in Consumers : Ended(c)

\* What each phase leaves behind it stays so: nobody runs before everything is
\* open, no RPC after gRPC is stopped, no delivery after the consumers are.  Only a
\* consumer that failed to start may have loops that nobody stops, and then the
\* process exits with everything open.
Order ==
  /\ main \in Assembly \cup {"starting", "aborting", "consumers", "repo", "flushing", "exited"}
       => NoHandler
  /\ main \in Assembly \cup {"repo", "flushing"} => NoLoop
  /\ main = "exited" =>
       /\ NoLoop \/ Resources \subseteq open
       /\ \A c \in started : Ended(c)
  /\ \A c \in Consumers \ started :
       Ended(c) \/ (Broker[c] = "rabbitmq" /\ main \in {"aborting", "exited"})
  /\ main \notin Assembly \cup {"flushing", "exited"} => Resources \subseteq open
  /\ main \in {"clients", "listeners"} => Stores \subseteq open
  /\ main = "listeners" => Publishers \subseteq open

USE DEF NoHandler, NoLoop, Running, Ended

\* Every step keeps what the stages of Shutdown have left behind.
LEMMA OrderNext == TypeOK /\ Order /\ [Next]_vars => Order'
<1> SUFFICES ASSUME TypeOK, Order, [Next]_vars PROVE Order'
  OBVIOUS
<1> USE DEF Phases, Assembly
<1>1. CASE Started \/ BeginShutdown \/ HTTPShutdown \/ GracefulStop
  BY <1>1 DEF Started, BeginShutdown, HTTPShutdown, GracefulStop, Order
<1>2. CASE ConsumersStopped \/ Abort
  BY <1>2 DEF ConsumersStopped, Abort, StoppedAll, TypeOK, Order
<1>3. CASE Assembled \/ RepositoryClose \/ ShutdownTelemetry
  <2>1. UNCHANGED <<consumers, calls>>
    BY <1>3 DEF Assembled, InitTelemetry, BuildDatabase, BuildCache, StoresBuilt, BuildClient,
       ClientsBuilt, Listen, AssemblyFails, RepositoryClose, ShutdownTelemetry, Step
  <2>2. CASE RepositoryClose \/ ShutdownTelemetry \/ AssemblyFails
    BY <2>1, <2>2 DEF RepositoryClose, ShutdownTelemetry, AssemblyFails, Step, TypeOK, Order
  <2>3. CASE InitTelemetry \/ BuildDatabase \/ StoresBuilt
             \/ \E store \in Stores : BuildCache(store)
    BY <2>1, <2>3 DEF InitTelemetry, BuildDatabase, StoresBuilt, BuildCache, Step, Order
  <2>4. CASE ClientsBuilt \/ Listen \/ \E t \in Publishers : BuildClient(t)
    BY <2>1, <2>4 DEF ClientsBuilt, Listen, BuildClient, Step, Resources, Order
  <2> QED
    BY <1>3, <2>2, <2>3, <2>4 DEF Assembled
<1>4. CASE Signal \/ DeadlinePasses \/ \E l \in Listeners : ListenerFails(l)
  BY <1>4 DEF Signal, ListenerFails, DeadlinePasses, Order
<1>5. CASE CloseConn
  BY <1>5 DEF CloseConn, Alive, TypeOK, Order
<1>6. ASSUME NEW c \in Consumers, StartConsumer(c) PROVE Order'
  BY <1>6 DEF StartConsumer, TypeOK, Order
<1>13. ASSUME NEW c \in Consumers, StartFails(c) PROVE Order'
  BY <1>13 DEF StartFails, TypeOK, Order
<1>14. ASSUME NEW x \in Streams, OpenStream(x) \/ EndStream(x) PROVE Order'
  BY <1>14 DEF OpenStream, EndStream, Order
<1>7. ASSUME NEW c \in Consumers, StopConsumer(c) PROVE Order'
  BY <1>7 DEF StopConsumer, Order
<1>8. ASSUME NEW c \in Consumers, Deliver(c) \/ Handled(c) \/ LoopEnds(c) \/ FetchErrs(c)
      PROVE Order'
  BY <1>8 DEF Deliver, Handled, LoopEnds, FetchErrs, Alive, TypeOK, Order
<1>9. ASSUME NEW q \in Requests, ArriveHTTP(q) \/ ArriveGRPC(q) PROVE Order'
  BY <1>9 DEF ArriveHTTP, ArriveGRPC, Become, TypeOK, Order
<1>10. ASSUME NEW q \in Requests, Forward(q) \/ TimesOut(q) PROVE Order'
  BY <1>10 DEF Forward, TimesOut, InHTTP, Become, Alive, TypeOK, Order
<1>11. ASSUME NEW q \in Requests, Serve(q) PROVE Order'
  BY <1>11 DEF Serve, Become, Alive, TypeOK, Order
<1>12. CASE UNCHANGED vars
  BY <1>12 DEF vars, Order
<1> QED
  BY <1>1, <1>2, <1>3, <1>4, <1>5, <1>6, <1>7, <1>8, <1>9, <1>10, <1>11, <1>12,
     <1>13, <1>14 DEF Next, Main, Assembled

\* Whoever runs finds everything open that was configured: a request's use case,
\* that of an RPC whose caller is gone, a delivery, however the process began and
\* however it ends.
THEOREM AlwaysWired == Spec => []FullyWired
<1>1. Init => Order
  BY DEF Init, Order, Assembly
<1>2. TypeOK /\ Order => FullyWired
  BY DEF Order, FullyWired, TypeOK, Phases
<1> QED
  BY <1>1, <1>2, OrderNext, TypeInit, TypeNext, PTL DEF Spec

-----------------------------------------------------------------------------
(* Dropped requests                                                        *)

\* The connection closes on a signal only, and a request is still to be
\* forwarded after HTTP is shut down only if the deadline cut that short.
DropInv ==
  /\ conn \/ ctxDone \/ main \in Assembly \cup {"exited"}
  /\ DropsOnlyWhenLate
  /\ \A q \in Requests : request[q] = "gateway" => main \in {"serving", "http"} \/ late

\* Every step keeps the connection open until a signal.
LEMMA DropNext == TypeOK /\ DropInv /\ [Next]_vars => DropInv'
<1> SUFFICES ASSUME TypeOK, DropInv, [Next]_vars PROVE DropInv'
  OBVIOUS
<1> USE DEF DropInv, DropsOnlyWhenLate
<1> USE DEF Assembly
<1>1. CASE Started \/ BeginShutdown \/ GracefulStop \/ ConsumersStopped \/ Abort
  BY <1>1 DEF Started, BeginShutdown, GracefulStop, ConsumersStopped, Abort
<1>10. CASE Assembled \/ RepositoryClose \/ ShutdownTelemetry
  BY <1>10 DEF Assembled, InitTelemetry, BuildDatabase, BuildCache, StoresBuilt, BuildClient,
     ClientsBuilt, Listen, AssemblyFails, RepositoryClose, ShutdownTelemetry, Step
<1>2. CASE HTTPShutdown
  BY <1>2 DEF HTTPShutdown, InHTTP
<1>3. CASE Signal \/ DeadlinePasses \/ \E l \in Listeners : ListenerFails(l)
  BY <1>3 DEF Signal, ListenerFails, DeadlinePasses
<1>4. CASE CloseConn
  BY <1>4 DEF CloseConn, TypeOK
<1>5. ASSUME NEW c \in Consumers,
             StartConsumer(c) \/ StartFails(c) \/ StopConsumer(c) \/ Deliver(c) \/ Handled(c)
             \/ LoopEnds(c) \/ FetchErrs(c)
      PROVE  DropInv'
  BY <1>5 DEF StartConsumer, StartFails, StopConsumer, Deliver, Handled, LoopEnds, FetchErrs
<1>6. ASSUME NEW q \in Requests, ArriveHTTP(q) \/ ArriveGRPC(q) PROVE DropInv'
  BY <1>6 DEF ArriveHTTP, ArriveGRPC, Become, TypeOK
<1>7. ASSUME NEW q \in Requests, Forward(q) \/ TimesOut(q) PROVE DropInv'
  BY <1>7 DEF Forward, TimesOut, InHTTP, Become, TypeOK
<1>8. ASSUME NEW q \in Requests, Serve(q) PROVE DropInv'
  BY <1>8 DEF Serve, Become, TypeOK
<1>9. CASE UNCHANGED vars \/ \E x \in Streams : OpenStream(x) \/ EndStream(x)
  BY <1>9 DEF vars, OpenStream, EndStream
<1> QED
  BY <1>1, <1>2, <1>3, <1>4, <1>5, <1>6, <1>7, <1>8, <1>9, <1>10 DEF Next, Main, Assembled

\* Without a signal a request is dropped only when the deadline has passed or
\* gRPC's listener has failed, and no RPC is cut off.
THEOREM DropsLate == Spec => []DropsOnlyWhenLate
<1>1. Init => DropInv
  BY DEF Init, Assembly, DropInv, DropsOnlyWhenLate
<1>2. DropInv => DropsOnlyWhenLate
  BY DEF DropInv
<1> QED
  BY <1>1, <1>2, DropNext, TypeInit, TypeNext, PTL DEF Spec

-----------------------------------------------------------------------------
(* How the process exits                                                   *)

\* No request comes before the process serves; what exits after serving has gone
\* through the whole of Shutdown.
ExitInv ==
  /\ main \in Assembly \cup {"starting", "aborting"} => \A q \in Requests : request[q] = "none"
  /\ main = "exited" => (open = {} /\ NoLoop) \/ \A q \in Requests : request[q] = "none"

\* Only Shutdown's last step, or a failed New, leads to the exit.
LEMMA ExitNext == TypeOK /\ Order /\ ExitInv /\ [Next]_vars => ExitInv'
<1> SUFFICES ASSUME TypeOK, Order, ExitInv, [Next]_vars PROVE ExitInv'
  OBVIOUS
<1> USE DEF ExitInv, Assembly
<1>1. CASE Started \/ BeginShutdown \/ HTTPShutdown \/ GracefulStop
           \/ ConsumersStopped \/ Abort
  BY <1>1 DEF Started, BeginShutdown, HTTPShutdown, GracefulStop,
              ConsumersStopped, Abort
<1>2. CASE Assembled \/ RepositoryClose \/ ShutdownTelemetry
  BY <1>2 DEF Order, Assembled, InitTelemetry, BuildDatabase, BuildCache, StoresBuilt, BuildClient,
     ClientsBuilt, Listen, AssemblyFails, RepositoryClose, ShutdownTelemetry, Step
<1>3. CASE Signal \/ DeadlinePasses \/ \E l \in Listeners : ListenerFails(l)
  BY <1>3 DEF Signal, ListenerFails, DeadlinePasses
<1>4. CASE CloseConn
  BY <1>4 DEF CloseConn, Alive, TypeOK
<1>5. ASSUME NEW c \in Consumers,
             StartConsumer(c) \/ StartFails(c) \/ StopConsumer(c) \/ Deliver(c) \/ Handled(c)
             \/ LoopEnds(c) \/ FetchErrs(c)
      PROVE  ExitInv'
  BY <1>5 DEF Alive, StartConsumer, StartFails, StopConsumer, Deliver, Handled, LoopEnds, FetchErrs
<1>6. ASSUME NEW q \in Requests, ArriveHTTP(q) \/ ArriveGRPC(q) PROVE ExitInv'
  BY <1>6 DEF ArriveHTTP, ArriveGRPC, Become, TypeOK
<1>7. ASSUME NEW q \in Requests, Forward(q) \/ TimesOut(q) \/ Serve(q) PROVE ExitInv'
  BY <1>7 DEF Forward, TimesOut, InHTTP, Serve, Become, Alive, TypeOK
<1>8. CASE UNCHANGED vars \/ \E x \in Streams : OpenStream(x) \/ EndStream(x)
  BY <1>8 DEF vars, OpenStream, EndStream
<1> QED
  BY <1>1, <1>2, <1>3, <1>4, <1>5, <1>6, <1>7, <1>8 DEF Next, Main, Assembled

\* However the process ends (Shutdown after a signal or a failed listener, or a
\* New that fails halfway), the exit cuts off no use case, and no delivery but those
\* of a rabbitmq consumer whose Start has failed halfway; and a process that has served leaves no
\* delivery and nothing open.
THEOREM ExitsCleanly == Spec => []CleanExit
<1>1. Init => Order /\ ExitInv
  BY DEF Init, Order, ExitInv, Assembly
<1>2. Order /\ ExitInv => CleanExit
  BY DEF Order, ExitInv, CleanExit
<1> QED
  BY <1>1, <1>2, OrderNext, ExitNext, TypeInit, TypeNext, PTL DEF Spec
================================================================================
