----------------------------- MODULE PubSubConsumer -----------------------------
(***************************************************************************)
(* The Pub/Sub adapter (pkg/messaging/pubsub/consumer.go) with WithRetry   *)
(* (pkg/messaging/retry.go): one process that receives one subscription,   *)
(* with a callback for each message in hand.                               *)
(*                                                                         *)
(* Pub/Sub and its client are external: a message that is not acknowledged *)
(* is delivered again when it is nacked or its lease runs out;             *)
(* acknowledgements may be lost; Receive starts no callback once its       *)
(* context is done, cancels the context of those it has started, and       *)
(* returns when they have.  An error it cannot recover from ends it, too.  *)
(***************************************************************************)
EXTENDS Integers, FiniteSets, Handling, Settings

CONSTANTS
  Messages,
  Callbacks,           \* callbacks that can run at the same time
  General, Override,   \* the settings of general_mq_config and of the topic
  Results,             \* the outcomes an endpoint can have
  NoMessage,
  MaxDoubts,           \* bound: leases that run out in hand, lost answers
  MaxRestarts          \* bound: restarts of the process

Policy == Resolve(General, Override)

\* attempts := policy.MaxRetries + 1, at least one; intervals (in seconds) and
\* the multiplier have defaults of their own.
Attempts == IF Policy.MaxRetries + 1 < 1 THEN 1 ELSE Policy.MaxRetries + 1
FirstWait == IF Policy.InitialInterval <= 0 THEN 2 ELSE Policy.InitialInterval
LongestWait == IF Policy.MaxInterval <= 0 THEN 30 ELSE Policy.MaxInterval
Factor == IF Policy.Multiplier <= 1 THEN 2 ELSE Policy.Multiplier

ASSUME PubSubAssumption ==
  /\ NoMessage \notin Messages
  /\ Nil \notin BOOLEAN
  /\ General \in Configs /\ Override \in Overrides
  /\ Results \subseteq Outcomes
  /\ MaxDoubts \in Nat /\ MaxRestarts \in Nat

VARIABLES
  sent,       \* messages published to the topic
  ready,      \* messages the subscription may deliver
  acked,      \* messages acknowledged
  dead,       \* messages in the topic "<topic>-dlq"
  at,         \* where each callback is
  msg,        \* the message it is for
  attempt,    \* failed attempts at it (WithRetry's i)
  interval,   \* WithRetry's interval
  ctxDone,    \* the context of Receive, and so of every callback, is done
  receiving,  \* Receive has not returned (c.done is open)
  stopping,   \* Stop has been called
  doubts, restarts,
  (* history: no step of the program reads these *)
  settled,    \* messages a handler has settled
  doubted     \* messages that may be in two hands, or both handled and dead

broker    == <<sent, ready, acked, dead>>
callbacks == <<at, msg, attempt, interval>>
process   == <<ctxDone, receiving, stopping, restarts>>
vars      == <<broker, callbacks, process, doubts, settled, doubted>>

Places == {"idle", "retry", "backoff", "failed", "nack", "ack"}

Go(c, place) == at' = [at EXCEPT ![c] = place]

\* The callback returns.
Done(c) ==
  /\ Go(c, "idle")
  /\ msg' = [msg EXCEPT ![c] = NoMessage]
  /\ attempt' = [attempt EXCEPT ![c] = 0]
  /\ interval' = [interval EXCEPT ![c] = FirstWait]

InHand == {msg[c] : c \in Callbacks} \ {NoMessage}

\* Something is not known for sure of message m from here on.
Doubt(m) ==
  /\ doubts < MaxDoubts /\ doubts' = doubts + 1
  /\ doubted' = doubted \cup {m}

-----------------------------------------------------------------------------
(* The subscription                                                        *)

Publish(m) ==
  /\ m \notin sent
  /\ sent' = sent \cup {m} /\ ready' = ready \cup {m}
  /\ UNCHANGED <<acked, dead, callbacks, process, doubts, settled, doubted>>

Deliver(c, m) ==
  /\ receiving /\ ~ctxDone
  /\ at[c] = "idle" /\ m \in ready
  /\ ready' = ready \ {m}
  /\ msg' = [msg EXCEPT ![c] = m]
  /\ Go(c, "retry")
  /\ UNCHANGED <<sent, acked, dead, attempt, interval, process, doubts, settled, doubted>>

\* The lease of a message that nobody works on any more runs out.
LeaseEnds(m) ==
  /\ m \in sent \ (ready \cup acked \cup InHand)
  /\ ready' = ready \cup {m}
  /\ UNCHANGED <<sent, acked, dead, callbacks, process, doubts, settled, doubted>>

\* It may also run out in hand: the client extends a lease for an hour only.
LeaseEndsInHand(m) ==
  /\ m \in InHand \ (ready \cup acked)
  /\ Doubt(m)
  /\ ready' = ready \cup {m}
  /\ UNCHANGED <<sent, acked, dead, callbacks, process, settled>>

-----------------------------------------------------------------------------
(* The callback                                                            *)

\* i == attempts-1
LastAttempt(c) == attempt[c] + 1 = Attempts

\* mutant: the handler's error is not handed on to WithRetry.
CallHandler_Swallows(c) ==
  /\ \E result \in Results :
       settled' = IF Acknowledges(result) THEN settled \cup {msg[c]} ELSE settled
  /\ Go(c, "ack")
  /\ UNCHANGED attempt

\* mutant: attempts are not counted.
CallHandler_NoCount(c) ==
  /\ \E result \in Results :
       \/ Acknowledges(result) /\ settled' = settled \cup {msg[c]} /\ Go(c, "ack")
       \/ ~Acknowledges(result) /\ Go(c, "backoff") /\ UNCHANGED settled
  /\ UNCHANGED attempt

CallHandler(c) ==
  \E result \in Results :
    \/ /\ Acknowledges(result)
       /\ settled' = settled \cup {msg[c]}
       /\ Go(c, "ack")
       /\ UNCHANGED attempt
    \/ /\ ~Acknowledges(result)
       /\ attempt' = [attempt EXCEPT ![c] = @ + 1]
       /\ Go(c, IF LastAttempt(c) THEN "failed" ELSE "backoff")
       /\ UNCHANGED settled

\* The body of WithRetry's loop.
Attempt(c) ==
  /\ at[c] = "retry"
  /\ \/ ctxDone /\ Go(c, "failed") /\ UNCHANGED <<attempt, settled>>
     \/ ~ctxDone /\ CallHandler(c)
  /\ UNCHANGED <<broker, msg, interval, process, doubts, doubted>>

\* mutant: the next interval is not clamped.
NextWait_Unclamped(wait) == IF Policy.ExponentialBackoff THEN wait * Factor ELSE wait

NextWait(wait) ==
  IF ~Policy.ExponentialBackoff THEN wait
  ELSE IF wait * Factor > LongestWait THEN LongestWait ELSE wait * Factor

\* The wait between two attempts ends with the interval or with the context.
Backoff(c) ==
  /\ at[c] = "backoff"
  /\ \/ Go(c, "retry") /\ interval' = [interval EXCEPT ![c] = NextWait(@)]
     \/ ctxDone /\ Go(c, "failed") /\ UNCHANGED interval
  /\ UNCHANGED <<broker, msg, attempt, process, doubts, settled, doubted>>

\* mutant: the callback does not return after the dead letter, and nacks.
DeadLetter_Nacks(c) ==
  /\ at[c] = "failed" /\ Policy.EnableDLQ /\ ~ctxDone
  /\ dead' = dead \cup {msg[c]}
  /\ Go(c, "nack")
  /\ UNCHANGED <<sent, ready, acked, msg, attempt, interval, process, doubts, settled, doubted>>

\* The dead letter is published, and its publisher told so in time.
DeadLetter(c) ==
  /\ at[c] = "failed" /\ Policy.EnableDLQ /\ ~ctxDone
  /\ dead' = dead \cup {msg[c]}
  /\ Go(c, "ack")
  /\ UNCHANGED <<sent, ready, acked, msg, attempt, interval, process, doubts, settled, doubted>>

\* No dead letters, or an error: the message's own context is done, or the
\* topic fails.  With an error the dead letter may have gone through.
DeadLetterFails(c) ==
  /\ at[c] = "failed"
  /\ \/ UNCHANGED <<dead, doubts, doubted>>
     \/ /\ Policy.EnableDLQ
        /\ Doubt(msg[c])
        /\ dead' = dead \cup {msg[c]}
  /\ Go(c, "nack")
  /\ UNCHANGED <<sent, ready, acked, msg, attempt, interval, process, settled>>

\* An acknowledgement may be lost.
Ack(c) ==
  /\ at[c] = "ack"
  /\ \/ /\ acked' = acked \cup {msg[c]} /\ ready' = ready \ {msg[c]}
        /\ UNCHANGED <<doubts, doubted>>
     \/ /\ Doubt(msg[c])
        /\ UNCHANGED <<acked, ready>>
  /\ Done(c)
  /\ UNCHANGED <<sent, dead, process, settled>>

Nack(c) ==
  /\ at[c] = "nack"
  /\ ready' = IF msg[c] \in acked THEN ready ELSE ready \cup {msg[c]}
  /\ Done(c)
  /\ UNCHANGED <<sent, acked, dead, process, doubts, settled, doubted>>

-----------------------------------------------------------------------------
(* The process                                                             *)

\* A signal, or an error that ends Receive (which nobody looks at).
Cancel ==
  /\ ~ctxDone /\ ctxDone' = TRUE
  /\ UNCHANGED <<broker, callbacks, receiving, stopping, restarts, doubts, settled, doubted>>

\* Receive returns once no callback runs, and c.done is closed.
ReceiveReturns ==
  /\ receiving /\ ctxDone /\ InHand = {}
  /\ receiving' = FALSE
  /\ UNCHANGED <<broker, callbacks, ctxDone, stopping, restarts, doubts, settled, doubted>>

\* mutant: Stop waits for c.done without cancelling.
Stop_Waits ==
  /\ ~stopping /\ stopping' = TRUE
  /\ UNCHANGED <<broker, callbacks, ctxDone, receiving, restarts, doubts, settled, doubted>>

\* Stop cancels the context and waits for c.done.
Stop ==
  /\ ~stopping /\ stopping' = TRUE /\ ctxDone' = TRUE
  /\ UNCHANGED <<broker, callbacks, receiving, restarts, doubts, settled, doubted>>

\* The process dies, or has ended, and a new one calls NewConsumer and Start.
Restart ==
  /\ restarts < MaxRestarts /\ restarts' = restarts + 1
  /\ at' = [c \in Callbacks |-> "idle"] /\ msg' = [c \in Callbacks |-> NoMessage]
  /\ attempt' = [c \in Callbacks |-> 0] /\ interval' = [c \in Callbacks |-> FirstWait]
  /\ ctxDone' = FALSE /\ receiving' = TRUE /\ stopping' = FALSE
  /\ doubted' = doubted \cup InHand
  /\ UNCHANGED <<broker, doubts, settled>>

Init ==
  /\ sent = {} /\ ready = {} /\ acked = {} /\ dead = {}
  /\ at = [c \in Callbacks |-> "idle"] /\ msg = [c \in Callbacks |-> NoMessage]
  /\ attempt = [c \in Callbacks |-> 0] /\ interval = [c \in Callbacks |-> FirstWait]
  /\ ctxDone = FALSE /\ receiving = TRUE /\ stopping = FALSE
  /\ doubts = 0 /\ restarts = 0
  /\ settled = {} /\ doubted = {}

Step(c) ==
  Attempt(c) \/ Backoff(c) \/ DeadLetter(c) \/ DeadLetterFails(c) \/ Ack(c) \/ Nack(c)

Next ==
  \/ \E m \in Messages : Publish(m) \/ LeaseEnds(m) \/ LeaseEndsInHand(m)
  \/ \E c \in Callbacks : Step(c) \/ \E m \in Messages : Deliver(c, m)
  \/ Cancel \/ ReceiveReturns \/ Stop \/ Restart

Spec == Init /\ [][Next]_vars

\* Handlers, timers and publishes end, the subscription delivers what is ready,
\* leases run out, Receive returns; and a dead letter tried again and again is
\* taken in the end.
Fairness ==
  /\ \A c \in Callbacks : WF_vars(Step(c)) /\ SF_vars(DeadLetter(c))
  /\ WF_vars(\E c \in Callbacks, m \in Messages : Deliver(c, m))
  /\ \A m \in Messages : WF_vars(LeaseEnds(m))
  /\ WF_vars(ReceiveReturns)

FairSpec == Spec /\ Fairness

-----------------------------------------------------------------------------
TypeOK ==
  /\ sent \subseteq Messages /\ ready \subseteq sent /\ acked \subseteq sent
  /\ dead \subseteq sent /\ settled \subseteq sent /\ doubted \subseteq sent
  /\ at \in [Callbacks -> Places]
  /\ msg \in [Callbacks -> sent \cup {NoMessage}]
  /\ \A c \in Callbacks : msg[c] = NoMessage <=> at[c] = "idle"
  /\ attempt \in [Callbacks -> 0 .. Attempts]
  /\ interval \in [Callbacks -> Int]
  /\ ctxDone \in BOOLEAN /\ receiving \in BOOLEAN /\ stopping \in BOOLEAN
  /\ doubts \in 0 .. MaxDoubts /\ restarts \in 0 .. MaxRestarts

\* A message is handled or dead, and not both, nor in two hands, except when a
\* lease ran out in hand, an answer was lost or the process died: the code acks
\* a dead letter and nacks only what nobody has.
HandledOrDead ==
  \A m \in sent \ doubted :
    /\ m \notin settled \cap dead
    /\ \A c, d \in Callbacks : msg[c] = m /\ msg[d] = m => c = d

\* The callback gives a message up only after all its attempts or because the
\* context is done.
GivesUpAfterRetries ==
  \A c \in Callbacks : at[c] \in {"failed", "nack"} => attempt[c] = Attempts \/ ctxDone

Power[n \in Nat] == IF n = 0 THEN 1 ELSE Power[n - 1] * Factor

\* The waits between attempts are InitialInterval, and from then on
\* InitialInterval * Multiplier^n or MaxInterval, whichever is shorter.
WaitAfter(failures) ==
  IF failures = 1 \/ ~Policy.ExponentialBackoff THEN FirstWait
  ELSE LET wait == FirstWait * Power[failures - 1]
       IN  IF wait > LongestWait THEN LongestWait ELSE wait

WaitsFollowPolicy ==
  \A c \in Callbacks : at[c] = "backoff" => interval[c] = WaitAfter(attempt[c])

\* No wait is longer than the longer of the first and MaxInterval, nor zero.
WaitsBounded ==
  \A c \in Callbacks :
    interval[c] \in 1 .. (IF FirstWait > LongestWait THEN FirstWait ELSE LongestWait)

\* The steps that callback c still makes at most before it returns.
StepsLeft(c) ==
  CASE at[c] = "idle" -> 0
    [] at[c] \in {"ack", "nack"} -> 1
    [] at[c] = "failed" -> 2
    [] at[c] = "retry" -> 2 * (Attempts - attempt[c]) + 1
    [] at[c] = "backoff" -> 2 * (Attempts - attempt[c]) + 2

\* A callback returns after two steps for each attempt and one, whatever the
\* handler answers and whatever becomes of the subscription meanwhile.
CallbacksRunDown ==
  [][\A c \in Callbacks :
       at[c] # "idle" =>
         /\ StepsLeft(c) \in 1 .. 2 * Attempts + 1
         /\ Step(c) => StepsLeft(c)' < StepsLeft(c)
         /\ StepsLeft(c)' <= StepsLeft(c)]_vars

\* With no doubts (no lost answers, no lease that ran out in hand, no restart)
\* a message is acknowledged because it was handled or else is dead: exactly one.
SureIsExact ==
  MaxDoubts = 0 /\ MaxRestarts = 0 =>
    \A m \in acked : m \in settled <=> m \notin dead

\* Every message is acknowledged in the end, as long as Receive goes on.
EventuallySettled == \A m \in Messages : m \in sent ~> m \in acked \/ ctxDone

\* Stop returns, whatever the callbacks are doing.
StopTerminates == stopping ~> ~stopping \/ ~receiving

\* The adapter keeps the promise of at-least-once delivery, with or without
\* dead letters, for whatever is neither handled nor dead is nacked.
Promise == INSTANCE AtLeastOnce WITH
  settled  <- settled \cup dead,
  released <- acked

KeepsPromise == Promise!Spec
=============================================================================
