----------------------------- MODULE RabbitConsumer -----------------------------
(***************************************************************************)
(* The RabbitMQ adapter (pkg/messaging/rabbitmq/consumer.go) with          *)
(* WithRetry (pkg/messaging/retry.go): the loops of one process, each on a *)
(* channel of its own over one connection, consuming one queue, which need *)
(* not be the one that the publisher of the topic declares and sends to.   *)
(*                                                                         *)
(* The broker and amqp091 are external: a channel holds at most            *)
(* PrefetchCount deliveries that are not acknowledged, closing it puts     *)
(* them back on the queue, acknowledging on a closed channel fails, and so *)
(* does declaring a queue on the channel that a passive declare of a       *)
(* missing one has closed.                                                 *)
(* Only channels of a live connection are ever opened: the adapter does    *)
(* not dial again, so a loop whose channel closes is gone until a restart. *)
(***************************************************************************)
EXTENDS Integers, FiniteSets, Handling

CONSTANTS
  Messages,
  Topic,          \* the queue published to: topic.Name
  Subscription,   \* the queue consumed: topic.Subscription, or Topic if that is empty
  Loops,          \* one per Policy.ConcurrentConsumers
  PrefetchCount,
  MaxRetries,     \* Policy.MaxRetries
  HasDLX,         \* the queue consumed was declared with a dead-letter exchange
  Results,        \* the outcomes an endpoint can have
  NoMessage,
  MaxFailures,    \* bound: times the connection is lost
  MaxRestarts     \* bound: restarts of the process

\* attempts := policy.MaxRetries + 1, at least one
Attempts == IF MaxRetries + 1 < 1 THEN 1 ELSE MaxRetries + 1

Queues == {Topic, Subscription}

ASSUME RabbitAssumption ==
  /\ NoMessage \notin Messages
  /\ IsFiniteSet(Messages)
  /\ PrefetchCount \in Nat \ {0}   \* zero becomes 10 in Start
  /\ MaxRetries \in Int
  /\ HasDLX \in BOOLEAN
  /\ Results \subseteq Outcomes
  /\ MaxFailures \in Nat /\ MaxRestarts \in Nat

VARIABLES
  declared,  \* the queues that exist
  sent,      \* messages published to the topic
  queue,     \* by queue: messages ready to be delivered
  unacked,   \* by channel: delivered and not acknowledged
  buffer,    \* by channel: delivered and not yet received by the loop
  open,      \* the channel of each loop is open
  at,        \* where each loop is
  msg,       \* the delivery a loop works on
  attempt,   \* failed attempts at it (WithRetry's i)
  ctxDone,   \* the context the consumer was started with is cancelled
  stopping,  \* Stop has been called
  failures, restarts,
  dead,      \* messages in the dead-letter queue
  dropped,   \* messages the broker discarded
  acked,     \* messages acknowledged
  (* history: no step of the program reads these *)
  settled    \* messages a handler has settled

broker  == <<declared, sent, queue, dead, dropped, acked>>
channels == <<unacked, buffer, open>>
loops   == <<at, msg, attempt>>
process == <<ctxDone, stopping, failures, restarts>>
vars    == <<broker, channels, loops, process, settled>>

Places == {"select", "retry", "backoff", "failed", "ack", "ended"}

Go(r, place) == at' = [at EXCEPT ![r] = place]

\* The next turn of the loop: the delivery and WithRetry's locals are gone.
NextDelivery(r) ==
  /\ Go(r, "select")
  /\ msg' = [msg EXCEPT ![r] = NoMessage]
  /\ attempt' = [attempt EXCEPT ![r] = 0]

-----------------------------------------------------------------------------
(* The broker                                                              *)

\* NewPublisher declares the topic's queue, with a dead-letter exchange or without.
NewPublisher ==
  /\ Topic \notin declared /\ declared' = declared \cup {Topic}
  /\ UNCHANGED <<sent, queue, dead, dropped, acked, channels, loops, process, settled>>

\* The default exchange routes by the name of the queue.
Publish(m) ==
  /\ Topic \in declared /\ m \notin sent
  /\ sent' = sent \cup {m}
  /\ queue' = [queue EXCEPT ![Topic] = @ \cup {m}]
  /\ UNCHANGED <<declared, dead, dropped, acked, channels, loops, process, settled>>

Deliver(r, m) ==
  /\ open[r] /\ m \in queue[Subscription] /\ Cardinality(unacked[r]) < PrefetchCount
  /\ queue' = [queue EXCEPT ![Subscription] = @ \ {m}]
  /\ unacked' = [unacked EXCEPT ![r] = @ \cup {m}]
  /\ buffer' = [buffer EXCEPT ![r] = @ \cup {m}]
  /\ UNCHANGED <<declared, sent, dead, dropped, acked, open, loops, process, settled>>

\* What the channels of closing have out is ready again.
Requeue(closing) ==
  queue' = [queue EXCEPT ![Subscription] = @ \cup UNION {unacked[r] : r \in closing}]

\* The channels of closing close.
Close(closing) ==
  /\ Requeue(closing)
  /\ unacked' = [r \in Loops |-> IF r \in closing THEN {} ELSE unacked[r]]
  /\ buffer' = [r \in Loops |-> IF r \in closing THEN {} ELSE buffer[r]]
  /\ open' = [r \in Loops |-> open[r] /\ r \notin closing]
  /\ UNCHANGED <<declared, sent, dead, dropped, acked>>

\* The connection is lost, and all its channels with it.
LoseConnection ==
  /\ failures < MaxFailures /\ \E r \in Loops : open[r]
  /\ failures' = failures + 1
  /\ Close(Loops)
  /\ UNCHANGED <<loops, ctxDone, stopping, restarts, settled>>

-----------------------------------------------------------------------------
(* consumeLoop                                                             *)

End(r) ==
  /\ Go(r, "ended")
  /\ UNCHANGED <<broker, channels, msg, attempt, process, settled>>

Receive(r, m) ==
  /\ m \in buffer[r]
  /\ buffer' = [buffer EXCEPT ![r] = @ \ {m}]
  /\ msg' = [msg EXCEPT ![r] = m]
  /\ Go(r, "retry")
  /\ UNCHANGED <<broker, unacked, open, attempt, process, settled>>

\* mutant: the closed deliveries channel is not noticed (d, ok not looked at).
Select_IgnoresClose(r) ==
  /\ at[r] = "select"
  /\ (ctxDone /\ End(r)) \/ \E m \in Messages : Receive(r, m)

\* select: when both a delivery and ctx.Done are ready, either is taken.
Select(r) ==
  /\ at[r] = "select"
  /\ \/ (ctxDone \/ ~open[r]) /\ End(r)
     \/ \E m \in Messages : Receive(r, m)

\* i == attempts-1
LastAttempt(r) == attempt[r] + 1 = Attempts

\* mutant: the handler's error is not handed on to WithRetry.
CallHandler_Swallows(r) ==
  /\ \E result \in Results :
       settled' = IF Acknowledges(result) THEN settled \cup {msg[r]} ELSE settled
  /\ Go(r, "ack")
  /\ UNCHANGED attempt

CallHandler(r) ==
  \E result \in Results :
    \/ /\ Acknowledges(result)
       /\ settled' = settled \cup {msg[r]}
       /\ Go(r, "ack")
       /\ UNCHANGED attempt
    \/ /\ ~Acknowledges(result)
       /\ attempt' = [attempt EXCEPT ![r] = @ + 1]
       /\ Go(r, IF LastAttempt(r) THEN "failed" ELSE "backoff")
       /\ UNCHANGED settled

\* The body of WithRetry's loop.
Attempt(r) ==
  /\ at[r] = "retry"
  /\ \/ ctxDone /\ Go(r, "failed") /\ UNCHANGED <<attempt, settled>>
     \/ ~ctxDone /\ CallHandler(r)
  /\ UNCHANGED <<broker, channels, msg, process>>

\* The wait between two attempts ends with the interval or with the context.
Backoff(r) ==
  /\ at[r] = "backoff"
  /\ \/ Go(r, "retry")
     \/ ctxDone /\ Go(r, "failed")
  /\ UNCHANGED <<broker, channels, msg, attempt, process, settled>>

\* Telling the broker about a delivery fails, unnoticed, on a closed channel.
Tell(r) == unacked' = [unacked EXCEPT ![r] = @ \ {msg[r]}]

\* mutant: the delivery is given back to the queue instead.
Ack_Requeues(r) ==
  /\ at[r] = "ack"
  /\ \/ /\ open[r] /\ Tell(r)
        /\ queue' = [queue EXCEPT ![Subscription] = @ \cup {msg[r]}]
     \/ /\ ~open[r]
        /\ UNCHANGED <<queue, unacked>>
  /\ NextDelivery(r)
  /\ UNCHANGED <<declared, sent, dead, dropped, acked, buffer, open, process, settled>>

\* mutant: the loop goes on without acknowledging.
Ack_Never(r) ==
  /\ at[r] = "ack"
  /\ NextDelivery(r)
  /\ UNCHANGED <<broker, channels, process, settled>>

Ack(r) ==
  /\ at[r] = "ack"
  /\ \/ /\ open[r] /\ Tell(r)
        /\ acked' = acked \cup {msg[r]}
     \/ /\ ~open[r]
        /\ UNCHANGED <<acked, unacked>>
  /\ NextDelivery(r)
  /\ UNCHANGED <<declared, sent, queue, dead, dropped, buffer, open, process, settled>>

\* Nack(multiple=false, requeue=false): dead-lettered, or discarded.
Nack(r) ==
  /\ at[r] = "failed"
  /\ \/ /\ open[r] /\ Tell(r)
        /\ IF HasDLX THEN dead' = dead \cup {msg[r]} /\ UNCHANGED dropped
                     ELSE dropped' = dropped \cup {msg[r]} /\ UNCHANGED dead
     \/ /\ ~open[r]
        /\ UNCHANGED <<dead, dropped, unacked>>
  /\ NextDelivery(r)
  /\ UNCHANGED <<declared, sent, queue, acked, buffer, open, process, settled>>

-----------------------------------------------------------------------------
(* The process                                                             *)

\* A signal cancels the context the consumer was started with.
Cancel ==
  /\ ~ctxDone /\ ctxDone' = TRUE
  /\ UNCHANGED <<broker, channels, loops, stopping, failures, restarts, settled>>

\* Server.Shutdown calls Stop.
Stop ==
  /\ ~stopping /\ stopping' = TRUE
  /\ UNCHANGED <<broker, channels, loops, ctxDone, failures, restarts, settled>>

\* Stop closes the channels one after the other, then waits for the loops.
StopCloses(r) ==
  /\ stopping /\ open[r]
  /\ Close({r})
  /\ UNCHANGED <<loops, process, settled>>

\* Start opens a channel for each loop and starts the loop on it, one after the
\* other.  Where one cannot be opened Start fails, and New with it: the loops
\* already started run until the process has exited.  When the queue is missing
\* the passive declare closes the first channel, and the declare after it fails.
CanStart == IF Subscription \in declared THEN SUBSET Loops ELSE {{}}

Started(running) == [r \in Loops |-> IF r \in running THEN "select" ELSE "ended"]

\* The process dies, or has ended, and a new one calls NewConsumer and Start.
Restart ==
  /\ restarts < MaxRestarts
  /\ restarts' = restarts + 1
  /\ Requeue(Loops)
  /\ unacked' = [r \in Loops |-> {}] /\ buffer' = [r \in Loops |-> {}]
  /\ \E running \in CanStart :
       open' = [r \in Loops |-> r \in running] /\ at' = Started(running)
  /\ msg' = [r \in Loops |-> NoMessage] /\ attempt' = [r \in Loops |-> 0]
  /\ ctxDone' = FALSE /\ stopping' = FALSE
  /\ UNCHANGED <<declared, sent, dead, dropped, acked, failures, settled>>

Init ==
  /\ declared \in SUBSET Queues
  /\ sent = {} /\ queue = [q \in Queues |-> {}]
  /\ dead = {} /\ dropped = {} /\ acked = {}
  /\ unacked = [r \in Loops |-> {}] /\ buffer = [r \in Loops |-> {}]
  /\ \E running \in CanStart :
       open = [r \in Loops |-> r \in running] /\ at = Started(running)
  /\ msg = [r \in Loops |-> NoMessage] /\ attempt = [r \in Loops |-> 0]
  /\ ctxDone = FALSE /\ stopping = FALSE
  /\ failures = 0 /\ restarts = 0
  /\ settled = {}

Step(r) == Select(r) \/ Attempt(r) \/ Backoff(r) \/ Ack(r) \/ Nack(r)

Next ==
  \/ \E m \in Messages : Publish(m)
  \/ \E r \in Loops, m \in Messages : Deliver(r, m)
  \/ NewPublisher \/ LoseConnection \/ Cancel \/ Stop \/ Restart
  \/ \E r \in Loops : StopCloses(r) \/ Step(r)

Spec == Init /\ [][Next]_vars

\* The broker delivers while a channel has room, every handler call and timer
\* ends, and Stop goes through its list of channels.
Fairness ==
  /\ WF_vars(\E r \in Loops, m \in Messages : Deliver(r, m))
  /\ \A r \in Loops : WF_vars(Step(r)) /\ WF_vars(StopCloses(r))

FairSpec == Spec /\ Fairness

-----------------------------------------------------------------------------
TypeOK ==
  /\ sent \subseteq Messages /\ queue \in [Queues -> SUBSET sent]
  /\ dead \subseteq sent /\ dropped \subseteq sent /\ acked \subseteq sent
  /\ settled \subseteq sent
  /\ declared \subseteq Queues /\ (sent # {} => Topic \in declared)
  /\ unacked \in [Loops -> SUBSET sent]
  /\ buffer \in [Loops -> SUBSET sent]
  /\ open \in [Loops -> BOOLEAN]
  /\ at \in [Loops -> Places]
  /\ msg \in [Loops -> sent \cup {NoMessage}]
  /\ \A r \in Loops : msg[r] = NoMessage <=> at[r] \in {"select", "ended"}
  /\ attempt \in [Loops -> 0 .. Attempts]
  /\ ctxDone \in BOOLEAN /\ stopping \in BOOLEAN
  /\ failures \in 0 .. MaxFailures /\ restarts \in 0 .. MaxRestarts

Gone == acked \cup dead \cup dropped

\* Until something closes a channel, a message is never in two hands, nor in
\* one again after it was settled: duplicates come from closed channels only.
OneHandWhileConnected ==
  failures = 0 /\ restarts = 0 /\ ~stopping =>
    /\ \A r, s \in Loops :
         msg[r] # NoMessage /\ msg[r] = msg[s] => r = s
    /\ \A r \in Loops :
         at[r] \in {"retry", "backoff", "failed"} => msg[r] \notin settled

\* A message that was sent is at one place of the broker: ready in one queue, with
\* one channel, or gone, in one way; whatever closes, and whoever answers too late.
OnePlaceEach ==
  \A m \in sent :
    /\ (\E q \in Queues : m \in queue[q]) \/ (\E r \in Loops : m \in unacked[r]) \/ m \in Gone
    /\ \A q \in Queues : m \in queue[q] =>
         /\ m \notin Gone /\ \A r \in Loops : m \notin unacked[r]
         /\ \A p \in Queues \ {q} : m \notin queue[p]
    /\ \A r \in Loops : m \in unacked[r] =>
         m \notin Gone /\ \A s \in Loops \ {r} : m \notin unacked[s]
    /\ m \in acked => m \notin dead \cup dropped
    /\ m \in dead => m \notin dropped

\* A loop never holds up more than its channel's prefetch, and what its channel
\* has out is what waits for the loop or is in its hand: nothing is forgotten.
NothingStuck ==
  \A r \in Loops :
    /\ Cardinality(unacked[r]) <= PrefetchCount
    /\ unacked[r] = IF open[r] THEN buffer[r] \cup ({msg[r]} \ {NoMessage}) ELSE {}

\* The loop lets go of a delivery for good, by Nack, only after all its
\* attempts or because the context is cancelled.
GivesUpAfterRetries ==
  \A r \in Loops : at[r] = "failed" => attempt[r] = Attempts \/ ctxDone

\* The steps loop r still makes at most with its delivery.
StepsLeft(r) ==
  CASE at[r] \in {"select", "ended"} -> 0
    [] at[r] \in {"ack", "failed"} -> 1
    [] at[r] = "retry" -> 2 * (Attempts - attempt[r])
    [] at[r] = "backoff" -> 2 * (Attempts - attempt[r]) + 1

\* A loop is back at its select after two steps for each attempt, whatever the
\* handler answers and whether or not its channel is still there.
HandlingRunsDown ==
  [][\A r \in Loops :
       at[r] \notin {"select", "ended"} =>
         /\ StepsLeft(r) \in 1 .. 2 * Attempts
         /\ Step(r) => StepsLeft(r)' < StepsLeft(r)
         /\ StepsLeft(r)' <= StepsLeft(r)]_vars

Consumed(m) == m \in Gone \/ ctxDone \/ stopping \/ \A r \in Loops : ~open[r]

\* Every message of the queue consumed is settled, or leaves it as a dead letter or
\* discarded, unless shutdown begins, the connection is lost or the process could
\* start no loop: no loop is left without room for a delivery, whatever the
\* prefetch count.
EventuallySettled == \A m \in Messages : m \in queue[Subscription] ~> Consumed(m)

\* Stop returns whether or not the context is cancelled, for a closed channel
\* ends its loop.
StopTerminates == stopping ~> ~stopping \/ \A r \in Loops : at[r] = "ended"

\* The adapter keeps the promise of at-least-once delivery when the queue has a
\* dead-letter exchange.
Promise == INSTANCE AtLeastOnce WITH
  settled  <- settled \cup dead,
  released <- Gone

KeepsPromise == Promise!Spec
=============================================================================
