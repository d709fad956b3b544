-------------------------- MODULE RabbitConsumerProofs --------------------------
(***************************************************************************)
(* What RabbitConsumer promises for any number of loops, messages, retries *)
(* and restarts and any prefetch count, proved with TLAPS.                 *)
(*                                                                         *)
(* Beside the types, one invariant says where a message is for as long as  *)
(* no channel has closed, and one that only messages that were handled or  *)
(* dead-lettered have left the queue.                                      *)
(***************************************************************************)
EXTENDS RabbitConsumer, FiniteSetTheorems, TLAPS

\* A loop that will try again has an attempt left.
AttemptsLeft ==
  \A r \in Loops :
    /\ at[r] \in {"select", "ended"} => attempt[r] = 0
    /\ at[r] \in {"retry", "backoff"} => attempt[r] < Attempts
    /\ at[r] = "backoff" => attempt[r] > 0

TypeInv == TypeOK /\ AttemptsLeft

\* Attempts is a positive number, whatever MaxRetries is.
LEMMA AttemptsPositive == Attempts \in Nat \ {0}
BY RabbitAssumption DEF Attempts

\* A new behaviour starts with nothing sent and every loop waiting.
LEMMA TypeInit == Init => TypeInv
<1> SUFFICES ASSUME Init PROVE TypeInv
  OBVIOUS
<1> PICK running \in CanStart :
           open = [r \in Loops |-> r \in running] /\ at = Started(running)
  BY DEF Init
<1> USE RabbitAssumption, AttemptsPositive DEF Init, Started
<1>1. ctxDone \in BOOLEAN /\ stopping \in BOOLEAN /\ declared \subseteq Queues
  BY Zenon
<1>6. queue \in [Queues -> SUBSET sent]
  OBVIOUS
<1>2. /\ at \in [Loops -> Places] /\ attempt \in [Loops -> 0 .. Attempts]
      /\ msg \in [Loops -> sent \cup {NoMessage}]
      /\ open \in [Loops -> BOOLEAN]
      /\ unacked \in [Loops -> SUBSET sent] /\ buffer \in [Loops -> SUBSET sent]
  BY DEF Places
<1>3. AttemptsLeft
  BY DEF AttemptsLeft
<1>4. \A r \in Loops : msg[r] = NoMessage <=> at[r] \in {"select", "ended"}
  OBVIOUS
<1>5. failures \in 0 .. MaxFailures /\ restarts \in 0 .. MaxRestarts
  OBVIOUS
<1> QED
  BY <1>1, <1>2, <1>3, <1>4, <1>5, <1>6 DEF TypeInv, TypeOK

\* Every action keeps the types, and no action makes an attempt beyond the last.
LEMMA TypeNext == TypeInv /\ [Next]_vars => TypeInv'
<1> SUFFICES ASSUME TypeInv, [Next]_vars PROVE TypeInv'
  OBVIOUS
<1> USE RabbitAssumption, AttemptsPositive
    DEF TypeInv, TypeOK, AttemptsLeft, Places, Queues, broker, channels, loops, process, Go
<1>1. ASSUME NEW m \in Messages, Publish(m) PROVE TypeInv'
  BY <1>1 DEF Publish
<1>2. ASSUME NEW r \in Loops, NEW m \in Messages, Deliver(r, m) PROVE TypeInv'
  BY <1>2 DEF Deliver
<1>3. ASSUME NEW closing \in SUBSET Loops, Close(closing)
      PROVE  /\ sent' \subseteq Messages /\ queue' \in [Queues -> SUBSET sent']
             /\ dead' \subseteq sent' /\ dropped' \subseteq sent' /\ acked' \subseteq sent'
             /\ unacked' \in [Loops -> SUBSET sent'] /\ buffer' \in [Loops -> SUBSET sent']
             /\ open' \in [Loops -> BOOLEAN] /\ declared' = declared
  <2>1. open' \in [Loops -> BOOLEAN]
    BY <1>3, Zenon DEF Close
  <2>2. queue' \in [Queues -> SUBSET sent']
    BY <1>3 DEF Close, Requeue
  <2> QED
    BY <1>3, <2>1, <2>2 DEF Close
<1>4. CASE LoseConnection
  <2>1. Close(Loops) /\ UNCHANGED <<loops, ctxDone, stopping, restarts, settled>> /\ sent' = sent
    BY <1>4 DEF LoseConnection, Close
  <2>2. failures' \in 0 .. MaxFailures
    BY <1>4 DEF LoseConnection
  <2> QED
    BY <1>3, <2>1, <2>2
<1>5. ASSUME NEW r \in Loops, Select(r) PROVE TypeInv'
  BY <1>5 DEF Select, End, Receive
<1>6. ASSUME NEW r \in Loops, Attempt(r) PROVE TypeInv'
  <2>1. at[r] = "retry" /\ msg[r] \in sent
    BY <1>6 DEF Attempt
  <2>2. CASE ctxDone /\ Go(r, "failed") /\ UNCHANGED <<attempt, settled>>
    BY <1>6, <2>1, <2>2 DEF Attempt
  <2>3. CASE CallHandler(r)
    <3>1. UNCHANGED <<broker, channels, msg, process>>
      BY <1>6 DEF Attempt
    <3>2. CASE settled' = settled \cup {msg[r]} /\ Go(r, "ack") /\ UNCHANGED attempt
      BY <2>1, <3>1, <3>2
    <3>3. CASE /\ attempt' = [attempt EXCEPT ![r] = @ + 1]
               /\ Go(r, IF LastAttempt(r) THEN "failed" ELSE "backoff")
               /\ UNCHANGED settled
      <4>1. CASE LastAttempt(r)
        BY <2>1, <3>1, <3>3, <4>1 DEF LastAttempt
      <4>2. CASE ~LastAttempt(r)
        BY <2>1, <3>1, <3>3, <4>2 DEF LastAttempt
      <4> QED
        BY <4>1, <4>2
    <3> QED
      BY <2>3, <3>2, <3>3 DEF CallHandler
  <2> QED
    BY <1>6, <2>2, <2>3 DEF Attempt
<1>7. ASSUME NEW r \in Loops, Backoff(r) PROVE TypeInv'
  BY <1>7 DEF Backoff
<1>8. ASSUME NEW r \in Loops, Ack(r) \/ Nack(r) PROVE TypeInv'
  <2>1. msg[r] \in sent
    BY <1>8 DEF Ack, Nack
  <2>2. acked' \subseteq sent /\ dead' \subseteq sent /\ dropped' \subseteq sent
    BY <1>8, <2>1 DEF Ack, Nack
  <2>3. unacked' \in [Loops -> SUBSET sent]
    BY <1>8 DEF Ack, Nack, Tell
  <2>4. NextDelivery(r) /\ UNCHANGED <<declared, sent, queue, buffer, open, process, settled>>
    BY <1>8 DEF Ack, Nack
  <2> QED
    BY <2>2, <2>3, <2>4 DEF NextDelivery
<1>9. CASE Cancel
  BY <1>9 DEF Cancel
<1>10. CASE Stop
  BY <1>10 DEF Stop
<1>11. ASSUME NEW r \in Loops, StopCloses(r) PROVE TypeInv'
  <2>1. Close({r}) /\ {r} \in SUBSET Loops /\ UNCHANGED <<loops, process, settled>> /\ sent' = sent
    BY <1>11 DEF StopCloses, Close
  <2> QED
    BY <1>3, <2>1
<1>12. CASE Restart
  <2> USE <1>12 DEF Restart, Started
  <2> PICK running \in CanStart :
             open' = [r \in Loops |-> r \in running] /\ at' = Started(running)
    BY DEF Restart
  <2>1. ctxDone' \in BOOLEAN /\ stopping' \in BOOLEAN
    BY Zenon
  <2>2. /\ at' \in [Loops -> Places] /\ attempt' \in [Loops -> 0 .. Attempts]
        /\ msg' \in [Loops -> sent' \cup {NoMessage}]
        /\ open' \in [Loops -> BOOLEAN]
        /\ unacked' \in [Loops -> SUBSET sent'] /\ buffer' \in [Loops -> SUBSET sent']
    OBVIOUS
  <2>3. AttemptsLeft' /\ \A r \in Loops : msg'[r] = NoMessage <=> at'[r] \in {"select", "ended"}
    OBVIOUS
  <2>4. failures' \in 0 .. MaxFailures /\ restarts' \in 0 .. MaxRestarts
    OBVIOUS
  <2>5. /\ sent' \subseteq Messages /\ dead' \subseteq sent' /\ declared' = declared
        /\ dropped' \subseteq sent' /\ acked' \subseteq sent' /\ settled' \subseteq sent'
    OBVIOUS
  <2>6. queue' \in [Queues -> SUBSET sent']
    BY DEF Requeue
  <2> QED
    BY <2>1, <2>2, <2>3, <2>4, <2>5, <2>6
<1>13. CASE UNCHANGED vars
  BY <1>13 DEF vars
<1>14. CASE NewPublisher
  BY <1>14 DEF NewPublisher
<1> QED
  BY <1>1, <1>2, <1>4, <1>5, <1>6, <1>7, <1>8, <1>9, <1>10, <1>11, <1>12, <1>13, <1>14
     DEF Next, Step

\* The types are right in every state the consumer can reach.
THEOREM TypeCorrect == Spec => []TypeOK
<1>1. TypeInv => TypeOK
  BY DEF TypeInv
<1> QED
  BY <1>1, TypeInit, TypeNext, PTL DEF Spec

-----------------------------------------------------------------------------
(* Nothing is given up before its time                                     *)

\* A delivery is given up only after all its attempts, or because the context
\* is cancelled: WithRetry never returns an error early.
THEOREM NeverGivesUpEarly == Spec => []GivesUpAfterRetries
<1>1. Init => GivesUpAfterRetries
  BY DEF Init, Started, GivesUpAfterRetries
<1>2. TypeInv /\ GivesUpAfterRetries /\ [Next]_vars => GivesUpAfterRetries'
  <2> SUFFICES ASSUME TypeInv, GivesUpAfterRetries, [Next]_vars,
                      NEW r \in Loops, at'[r] = "failed"
               PROVE  attempt'[r] = Attempts \/ ctxDone'
    BY DEF GivesUpAfterRetries
  <2> USE DEF TypeInv, TypeOK, GivesUpAfterRetries, broker, channels, loops, process, Go
  <2>1. ASSUME NEW q \in Loops, NEW m \in Messages, Deliver(q, m)
        PROVE  attempt'[r] = Attempts \/ ctxDone'
    BY <2>1 DEF Deliver
  <2>2. CASE NewPublisher \/ LoseConnection \/ Cancel \/ Stop \/ Restart
    BY <2>2 DEF NewPublisher, LoseConnection, Cancel, Stop, Restart, Started, CanStart
  <2>3. ASSUME NEW q \in Loops, Attempt(q) PROVE attempt'[r] = Attempts \/ ctxDone'
    <3>1. CASE q = r
      BY <2>3, <3>1 DEF Attempt, CallHandler, LastAttempt
    <3>2. CASE q # r
      BY <2>3, <3>2 DEF Attempt, CallHandler
    <3> QED
      BY <3>1, <3>2
  <2>4. ASSUME NEW q \in Loops, Select(q) \/ Backoff(q) \/ Ack(q) \/ Nack(q) \/ StopCloses(q)
        PROVE  attempt'[r] = Attempts \/ ctxDone'
    BY <2>4 DEF Select, End, Receive, Backoff, Ack, Nack, NextDelivery, StopCloses
  <2>5. CASE UNCHANGED vars
    BY <2>5 DEF vars
  <2>6. ASSUME NEW m \in Messages, Publish(m) PROVE attempt'[r] = Attempts \/ ctxDone'
    BY <2>6 DEF Publish
  <2> QED
    BY <2>1, <2>2, <2>3, <2>4, <2>5, <2>6 DEF Next, Step
<1> QED
  BY <1>1, <1>2, TypeInit, TypeNext, PTL DEF Spec

-----------------------------------------------------------------------------
(* One hand while connected                                                *)

\* As long as nothing has closed a channel, a message the broker still has is
\* in one place: ready, or delivered to one channel, where it waits in the
\* buffer or is in the loop's hand; and it is handled only in that hand.
OnePlace ==
  /\ \A r \in Loops : unacked[r] # {} => open[r]
  /\ \A r \in Loops : (\A q \in Queues : unacked[r] \cap queue[q] = {}) /\ buffer[r] \subseteq unacked[r]
  /\ \A r, s \in Loops : r # s => unacked[r] \cap unacked[s] = {}
  /\ \A r \in Loops : msg[r] # NoMessage => msg[r] \in unacked[r] \ buffer[r]
  /\ \A q \in Queues : settled \cap queue[q] = {}
  /\ \A p, q \in Queues : p # q => queue[p] \cap queue[q] = {}
  /\ \A r \in Loops : settled \cap buffer[r] = {}
  /\ \A r \in Loops : at[r] \in {"retry", "backoff", "failed"} => msg[r] \notin settled

Connected == failures = 0 /\ restarts = 0 /\ ~stopping

OneHandInv == Connected => OnePlace

\* Until a channel is closed every step leaves a message in one place.
LEMMA OneHandNext == TypeInv /\ OneHandInv /\ [Next]_vars => OneHandInv'
<1> SUFFICES ASSUME TypeInv, OneHandInv, [Next]_vars, Connected' PROVE OnePlace'
  BY DEF OneHandInv
<1> USE RabbitAssumption DEF TypeInv, TypeOK, Connected, OneHandInv, OnePlace, Queues, broker, channels, loops, process, Go
<1>1. ASSUME NEW m \in Messages, Publish(m) PROVE OnePlace'
  BY <1>1 DEF Publish
<1>2. ASSUME NEW r \in Loops, NEW m \in Messages, Deliver(r, m) PROVE OnePlace'
  BY <1>2 DEF Deliver
<1>3. CASE LoseConnection \/ Stop \/ Restart
  BY <1>3 DEF LoseConnection, Stop, Restart
<1>4. ASSUME NEW r \in Loops, StopCloses(r) PROVE OnePlace'
  BY <1>4 DEF StopCloses
<1>5. CASE Cancel \/ NewPublisher
  BY <1>5 DEF Cancel, NewPublisher
<1>6. ASSUME NEW r \in Loops, Select(r) PROVE OnePlace'
  BY <1>6 DEF Select, End, Receive
<1>7. ASSUME NEW r \in Loops, Attempt(r) PROVE OnePlace'
  BY <1>7 DEF Attempt, CallHandler
<1>8. ASSUME NEW r \in Loops, Backoff(r) PROVE OnePlace'
  BY <1>8 DEF Backoff
<1>9. ASSUME NEW r \in Loops, Ack(r) \/ Nack(r) PROVE OnePlace'
  BY <1>9 DEF Ack, Nack, Tell, NextDelivery
<1>10. CASE UNCHANGED vars
  BY <1>10 DEF vars
<1> QED
  BY <1>1, <1>2, <1>3, <1>4, <1>5, <1>6, <1>7, <1>8, <1>9, <1>10 DEF Next, Step

\* A message is in two hands, or in one again after it was handled, only once
\* a channel has been closed under a delivery.
THEOREM OneHand == Spec => []OneHandWhileConnected
<1>1. Init => OneHandInv
  BY DEF Init, Started, OneHandInv, OnePlace
<1>2. OneHandInv /\ TypeInv => OneHandWhileConnected
  BY DEF OneHandInv, Connected, OnePlace, OneHandWhileConnected, TypeInv, TypeOK
<1> QED
  BY <1>1, <1>2, OneHandNext, TypeInit, TypeNext, PTL DEF Spec

-----------------------------------------------------------------------------
(* Handling ends: the half of the liveness properties without fairness     *)

\* A loop with a delivery has a step left to make, and a bounded number.
LEMMA StepsLeftType ==
  ASSUME TypeInv, NEW r \in Loops
  PROVE  /\ at[r] \in {"select", "ended"} => StepsLeft(r) = 0
         /\ at[r] \notin {"select", "ended"} => StepsLeft(r) \in 1 .. 2 * Attempts
<1>1. /\ at[r] \in Places /\ attempt[r] \in 0 .. Attempts /\ Attempts \in Nat \ {0}
      /\ at[r] \in {"retry", "backoff"} => attempt[r] < Attempts
      /\ at[r] = "backoff" => attempt[r] > 0
  BY AttemptsPositive DEF TypeInv, TypeOK, AttemptsLeft
<1> QED
  BY <1>1 DEF StepsLeft, Places

\* Each step it makes leaves it fewer.
LEMMA StepRunsDown ==
  ASSUME TypeInv, NEW r \in Loops, Step(r), at[r] \notin {"select", "ended"}
  PROVE  StepsLeft(r)' < StepsLeft(r)
<1>1. /\ at \in [Loops -> Places] /\ attempt \in [Loops -> 0 .. Attempts]
      /\ Attempts \in Nat \ {0} /\ attempt[r] \in 0 .. Attempts
      /\ at[r] \in {"retry", "backoff"} => attempt[r] < Attempts
  BY AttemptsPositive DEF TypeInv, TypeOK, AttemptsLeft
<1>2. CASE Attempt(r)
  <2>1. at[r] = "retry" /\ StepsLeft(r) = 2 * (Attempts - attempt[r])
    BY <1>2 DEF Attempt, StepsLeft
  <2>2. CASE UNCHANGED attempt /\ (Go(r, "failed") \/ Go(r, "ack"))
    <3>1. at'[r] \in {"failed", "ack"}
      BY <1>1, <2>2 DEF Go
    <3>2. StepsLeft(r)' \in 1 .. 1
      BY <3>1 DEF StepsLeft
    <3>3. 2 * (Attempts - attempt[r]) > 1
      BY <1>1, <2>1
    <3> QED
      BY <1>1, <2>1, <3>2, <3>3
  <2>3. CASE /\ attempt' = [attempt EXCEPT ![r] = @ + 1]
             /\ Go(r, IF LastAttempt(r) THEN "failed" ELSE "backoff")
    <3>1. attempt'[r] = attempt[r] + 1 /\ at'[r] \in {"failed", "backoff"}
      BY <1>1, <2>3 DEF Go
    <3>2. StepsLeft(r)' = 1 \/ StepsLeft(r)' = 2 * (Attempts - (attempt[r] + 1)) + 1
      BY <3>1 DEF StepsLeft
    <3> QED
      BY <1>1, <2>1, <3>2
  <2> QED
    BY <1>2, <2>2, <2>3 DEF Attempt, CallHandler
<1>3. CASE Backoff(r)
  <2>1. at[r] = "backoff" /\ StepsLeft(r) = 2 * (Attempts - attempt[r]) + 1
    BY <1>3 DEF Backoff, StepsLeft
  <2>2. attempt' = attempt /\ at'[r] \in {"retry", "failed"}
    BY <1>1, <1>3 DEF Backoff, Go
  <2>3. StepsLeft(r)' = 1 \/ StepsLeft(r)' = 2 * (Attempts - attempt[r])
    BY <2>2 DEF StepsLeft
  <2> QED
    BY <1>1, <2>1, <2>3
<1>4. CASE Ack(r) \/ Nack(r)
  <2>1. at[r] \in {"ack", "failed"} /\ at'[r] = "select"
    BY <1>1, <1>4 DEF Ack, Nack, NextDelivery, Go
  <2> QED
    BY <2>1 DEF StepsLeft
<1> QED
  BY <1>2, <1>3, <1>4 DEF Step, Select

\* A loop is through with a delivery after two steps for each attempt, whether its
\* channel is there or not: WithRetry's loop and what follows it cannot go on for ever.
THEOREM EveryHandlingRunsDown == Spec => HandlingRunsDown
<1> DEFINE Idle == {"select", "ended"}
           RunsDown(r) ==
             at[r] \notin {"select", "ended"} =>
               /\ StepsLeft(r) \in 1 .. 2 * Attempts
               /\ Step(r) => StepsLeft(r)' < StepsLeft(r)
               /\ StepsLeft(r)' <= StepsLeft(r)
<1>1. TypeInv /\ [Next]_vars => [\A r \in Loops : RunsDown(r)]_vars
  <2> SUFFICES ASSUME TypeInv, Next, NEW r \in Loops, at[r] \notin Idle
               PROVE  RunsDown(r)
    OBVIOUS
  <2>1. StepsLeft(r) \in 1 .. 2 * Attempts /\ Attempts \in Nat
    BY StepsLeftType, AttemptsPositive
  <2>2. TypeInv'
    BY TypeNext
  <2>3. StepsLeft(r)' \in Int
    <3>1. attempt'[r] \in Int /\ at'[r] \in Places
      BY <2>2 DEF TypeInv, TypeOK
    <3> QED
      BY <2>1, <3>1 DEF StepsLeft, Places
  <2>4. CASE Step(r)
    BY <2>1, <2>3, <2>4, StepRunsDown
  <2>5. CASE ~Step(r)
    <3>1. (at'[r] = at[r] /\ attempt'[r] = attempt[r]) \/ at'[r] \in Idle
      <4> USE DEF TypeInv, TypeOK, Go
      <4>1. ASSUME NEW q \in Loops, Step(q)
            PROVE  at'[r] = at[r] /\ attempt'[r] = attempt[r]
        <5>1. q # r
          BY <2>5, <4>1
        <5> QED
          BY <4>1, <5>1 DEF Step, Select, End, Receive, Attempt, CallHandler,
             Backoff, Ack, Nack, NextDelivery
      <4>2. ASSUME NEW q \in Loops, (\E m \in Messages : Deliver(q, m)) \/ StopCloses(q)
            PROVE  at'[r] = at[r] /\ attempt'[r] = attempt[r]
        BY <4>2 DEF Deliver, StopCloses, loops
      <4>3. CASE Restart
        BY <4>3 DEF Restart, Started
      <4>4. CASE \/ NewPublisher \/ LoseConnection \/ Cancel \/ Stop
                 \/ \E m \in Messages : Publish(m)
        BY <4>4 DEF NewPublisher, LoseConnection, Cancel, Stop, Publish, loops
      <4> QED
        BY <4>1, <4>2, <4>3, <4>4 DEF Next
    <3>2. at'[r] = at[r] /\ attempt'[r] = attempt[r] => StepsLeft(r)' = StepsLeft(r)
      BY DEF StepsLeft
    <3>3. at'[r] \in Idle => StepsLeft(r)' = 0
      BY DEF StepsLeft
    <3> QED
      BY <2>1, <2>5, <3>1, <3>2, <3>3
  <2> QED
    BY <2>4, <2>5
<1> QED
  BY <1>1, TypeInit, TypeNext, PTL DEF Spec, HandlingRunsDown

-----------------------------------------------------------------------------
(* The adapter implements AtLeastOnce                                      *)

Over == settled \cup dead

\* What has left the queue, or is about to by an Ack, was handled or is dead;
\* with a dead-letter exchange nothing is discarded.
GoneInv ==
  /\ acked \subseteq Over /\ dropped = {}
  /\ \A r \in Loops : at[r] = "ack" => msg[r] \in settled

\* At the start nothing has left the queue.
LEMMA GoneInit == Init => GoneInv
BY DEF Init, Started, GoneInv

\* A loop acknowledges only what its handler has answered nil to.
LEMMA GoneNext ==
  ASSUME HasDLX, TypeInv, GoneInv, [Next]_vars
  PROVE  GoneInv'
<1> USE RabbitAssumption DEF TypeInv, TypeOK, GoneInv, Over, broker, channels, loops, process, Go
<1>1. ASSUME NEW m \in Messages, Publish(m) PROVE GoneInv'
  BY <1>1 DEF Publish
<1>2. ASSUME NEW r \in Loops, NEW m \in Messages, Deliver(r, m) PROVE GoneInv'
  BY <1>2 DEF Deliver
<1>3. CASE NewPublisher \/ LoseConnection \/ Stop \/ Cancel \/ Restart
  BY <1>3 DEF NewPublisher, LoseConnection, Close, Stop, Cancel, Restart, Started
<1>4. ASSUME NEW r \in Loops, StopCloses(r) \/ Select(r) \/ Backoff(r) PROVE GoneInv'
  BY <1>4 DEF StopCloses, Close, Select, End, Receive, Backoff
<1>5. ASSUME NEW r \in Loops, Attempt(r) PROVE GoneInv'
  BY <1>5 DEF Attempt, CallHandler
<1>6. ASSUME NEW r \in Loops, Ack(r) \/ Nack(r) PROVE GoneInv'
  BY <1>6 DEF Ack, Nack, NextDelivery
<1>7. CASE UNCHANGED vars
  BY <1>7 DEF vars
<1> QED
  BY <1>1, <1>2, <1>3, <1>4, <1>5, <1>6, <1>7 DEF Next, Step

\* Every step sends, settles (a Nack lets go of the message at once), lets go
\* of a settled message, or changes nothing that AtLeastOnce speaks of.
LEMMA PromiseStep ==
  ASSUME HasDLX, TypeInv, GoneInv, [Next]_vars
  PROVE  \/ \E m \in Messages : sent' = sent \cup {m} /\ UNCHANGED <<Over, Gone>>
         \/ \E m \in sent : /\ Over' = Over \cup {m}
                             /\ Gone' \in {Gone, Gone \cup {m}}
                             /\ UNCHANGED sent
         \/ Gone' \subseteq Over /\ UNCHANGED <<sent, Over>>
<1> USE DEF TypeInv, TypeOK, GoneInv, Over, Gone, broker, channels, loops, process
<1>1. ASSUME NEW m \in Messages, Publish(m)
      PROVE  sent' = sent \cup {m} /\ UNCHANGED <<Over, Gone>>
  BY <1>1 DEF Publish
<1>2. ASSUME NEW r \in Loops, NEW m \in Messages, Deliver(r, m)
      PROVE  UNCHANGED <<sent, Over, Gone>>
  BY <1>2 DEF Deliver
<1>3. CASE NewPublisher \/ LoseConnection \/ Stop \/ Cancel \/ Restart \/ UNCHANGED vars
  <2>1. UNCHANGED <<sent, Over, Gone>>
    BY <1>3 DEF NewPublisher, LoseConnection, Close, Stop, Cancel, Restart, vars
  <2> QED
    BY <2>1
<1>4. ASSUME NEW r \in Loops, StopCloses(r) \/ Select(r) \/ Backoff(r)
      PROVE  UNCHANGED <<sent, Over, Gone>>
  BY <1>4 DEF StopCloses, Close, Select, End, Receive, Backoff
<1>5. ASSUME NEW r \in Loops, Attempt(r)
      PROVE  /\ UNCHANGED <<sent, Gone>>
             /\ UNCHANGED Over \/ \E m \in sent : Over' = Over \cup {m}
  <2>1. UNCHANGED <<sent, dead, Gone>> /\ msg[r] \in sent
    BY <1>5 DEF Attempt
  <2>2. settled' = settled \/ settled' = settled \cup {msg[r]}
    BY <1>5 DEF Attempt, CallHandler
  <2> QED
    BY <2>1, <2>2
<1>6. ASSUME NEW r \in Loops, Ack(r)
      PROVE  Gone' \subseteq Over /\ UNCHANGED <<sent, Over>>
  BY <1>6 DEF Ack
<1>7. ASSUME NEW r \in Loops, Nack(r)
      PROVE  \/ \E m \in sent : Over' = Over \cup {m} /\ Gone' = Gone \cup {m} /\ UNCHANGED sent
             \/ UNCHANGED <<sent, Over, Gone>>
  <2>1. msg[r] \in sent /\ UNCHANGED <<sent, settled, acked>>
    BY <1>7 DEF Nack
  <2>2. \/ dead' = dead \cup {msg[r]} /\ UNCHANGED dropped
        \/ UNCHANGED <<dead, dropped>>
    BY <1>7 DEF Nack
  <2>3. CASE dead' = dead \cup {msg[r]} /\ UNCHANGED dropped
    <3>1. Over' = Over \cup {msg[r]} /\ Gone' = Gone \cup {msg[r]}
      BY <2>1, <2>3
    <3> QED
      BY <2>1, <3>1
  <2> QED
    BY <2>1, <2>2, <2>3
<1> QED
  BY <1>1, <1>2, <1>3, <1>4, <1>5, <1>6, <1>7 DEF Next, Step

\* Every broker adapter owes at-least-once delivery; this one gives it, when
\* its queue was declared with a dead-letter exchange.
THEOREM ImplementsAtLeastOnce ==
  ASSUME HasDLX
  PROVE  Spec => KeepsPromise
<1>1. Init => Promise!Init
  BY DEF Init, Promise!Init, Gone
<1>2. TypeInv /\ GoneInv /\ [Next]_vars => [Promise!Next]_(Promise!vars)
  <2> SUFFICES ASSUME TypeInv, GoneInv, [Next]_vars
               PROVE  [Promise!Next]_(Promise!vars)
    OBVIOUS
  <2> USE DEF Promise!vars, Over
  <2>1. CASE \E m \in Messages : sent' = sent \cup {m} /\ UNCHANGED <<Over, Gone>>
    BY <2>1 DEF Promise!Send, Promise!Next
  <2>2. CASE \E m \in sent : /\ Over' = Over \cup {m}
                             /\ Gone' \in {Gone, Gone \cup {m}}
                             /\ UNCHANGED sent
    <3>1. PICK m \in sent : /\ Over' = Over \cup {m}
                            /\ Gone' \in {Gone, Gone \cup {m}}
                            /\ UNCHANGED sent
      BY <2>2
    <3>2. m \in Messages /\ Promise!Settle(m)
      BY <3>1 DEF Promise!Settle, TypeInv, TypeOK
    <3> QED
      BY <3>2 DEF Promise!Next
  <2>3. CASE Gone' \subseteq Over /\ UNCHANGED <<sent, Over>>
    BY <2>3 DEF Promise!Release, Promise!Next
  <2> QED
    BY <2>1, <2>2, <2>3, PromiseStep
<1>3. TypeInv /\ GoneInv /\ [Next]_vars => GoneInv'
  BY GoneNext
<1> QED
  BY <1>1, <1>2, <1>3, GoneInit, TypeInit, TypeNext, PTL
     DEF Spec, KeepsPromise, Promise!Spec

\* A message that is gone from the queue was handled, or is in the dead-letter
\* queue: none is acknowledged before its handler has answered nil, and the broker
\* discards none.
THEOREM LosesNothing ==
  ASSUME HasDLX
  PROVE  Spec => []Promise!NothingLost
<1>1. GoneInv => Promise!NothingLost
  BY DEF GoneInv, Over, Gone, Promise!NothingLost
<1>2. TypeInv /\ GoneInv /\ [Next]_vars => GoneInv'
  BY GoneNext
<1> QED
  BY <1>1, <1>2, GoneInit, TypeInit, TypeNext, PTL DEF Spec

-----------------------------------------------------------------------------
(* Where a delivery is                                                     *)

\* What a channel has out is what its loop has not received or holds; nothing
\* is out on a closed channel; and the broker has each message in one place.
PlaceInv ==
  /\ \A r \in Loops : open[r] =>
       /\ unacked[r] = buffer[r] \cup ({msg[r]} \ {NoMessage})
       /\ msg[r] \notin buffer[r]
  /\ \A r \in Loops : ~open[r] => unacked[r] = {} /\ buffer[r] = {}
  /\ OnePlaceEach

\* Closing channels makes what they have out ready, each message once.
LEMMA ClosePlaces ==
  ASSUME TypeInv, PlaceInv, NEW closing \in SUBSET Loops, Close(closing),
         msg' = msg, settled' = settled
  PROVE  PlaceInv'
<1> USE DEF TypeInv, TypeOK, PlaceInv, OnePlaceEach, Gone
<1>1. UNCHANGED <<sent, Gone, acked, dead, dropped>>
  BY DEF Close
<1>2. \A r \in Loops : open'[r] <=> open[r] /\ r \notin closing
  BY Zenon DEF Close
<1>3. \A r \in Loops : /\ unacked'[r] = IF r \in closing THEN {} ELSE unacked[r]
                       /\ buffer'[r] = IF r \in closing THEN {} ELSE buffer[r]
  BY DEF Close
<1>4. \A q \in Queues : \A m : m \in queue'[q] <=>
        m \in queue[q] \/ (q = Subscription /\ \E r \in closing : m \in unacked[r])
  BY DEF Close, Requeue, Queues
<1>5. OnePlaceEach'
  BY <1>1, <1>3, <1>4 DEF Queues
<1> QED
  BY <1>2, <1>3, <1>5

\* A loop that is told to let go of its delivery has nothing else in hand.
LEMMA PlaceNext == TypeInv /\ PlaceInv /\ [Next]_vars => PlaceInv'
<1> SUFFICES ASSUME TypeInv, PlaceInv, [Next]_vars PROVE PlaceInv'
  OBVIOUS
<1> USE RabbitAssumption
    DEF TypeInv, TypeOK, PlaceInv, OnePlaceEach, Queues, Gone, broker, channels, loops, process, Go
<1>1. ASSUME NEW m \in Messages, Publish(m) PROVE PlaceInv'
  BY <1>1 DEF Publish
<1>2. ASSUME NEW r \in Loops, NEW m \in Messages, Deliver(r, m) PROVE PlaceInv'
  <2>1. m \in sent /\ m \in queue[Subscription] /\ open[r] /\ m # msg[r]
    BY <1>2 DEF Deliver
  <2>2. OnePlaceEach'
    BY <1>2, <2>1 DEF Deliver
  <2>3. \A q \in Loops : open'[q] =>
          /\ unacked'[q] = buffer'[q] \cup ({msg'[q]} \ {NoMessage})
          /\ msg'[q] \notin buffer'[q]
    BY <1>2, <2>1 DEF Deliver
  <2> QED
    BY <1>2, <2>1, <2>2, <2>3 DEF Deliver
<1>3. CASE LoseConnection
  BY <1>3, ClosePlaces DEF LoseConnection
<1>4. ASSUME NEW r \in Loops, StopCloses(r) PROVE PlaceInv'
  BY <1>4, ClosePlaces DEF StopCloses
<1>5. CASE Cancel \/ NewPublisher \/ Stop
  BY <1>5 DEF Cancel, NewPublisher, Stop
<1>6. CASE Restart
  <2>1. \A q \in Queues : \A m : m \in queue'[q] <=>
          m \in queue[q] \/ (q = Subscription /\ \E r \in Loops : m \in unacked[r])
    BY <1>6 DEF Restart, Requeue
  <2>2. \A r \in Loops : unacked'[r] = {} /\ buffer'[r] = {} /\ msg'[r] = NoMessage
    BY <1>6 DEF Restart
  <2>3. UNCHANGED <<sent, acked, dead, dropped>>
    BY <1>6 DEF Restart
  <2> QED
    BY <2>1, <2>2, <2>3
<1>7. ASSUME NEW r \in Loops, Select(r) PROVE PlaceInv'
  <2>1. CASE End(r)
    BY <2>1 DEF End
  <2>2. ASSUME NEW m \in Messages, Receive(r, m), at[r] = "select" PROVE PlaceInv'
    <3>1. open[r] /\ msg[r] = NoMessage /\ m \in sent /\ m # NoMessage
      BY <2>2 DEF Receive
    <3> QED
      BY <2>2, <3>1 DEF Receive
  <2> QED
    BY <1>7, <2>1, <2>2 DEF Select
<1>8. ASSUME NEW r \in Loops, Attempt(r) \/ Backoff(r) PROVE PlaceInv'
  BY <1>8 DEF Attempt, Backoff
<1>9. ASSUME NEW r \in Loops, Ack(r) \/ Nack(r) PROVE PlaceInv'
  <2>1. msg[r] \in sent /\ msg[r] # NoMessage
    BY <1>9 DEF Ack, Nack
  <2>2. UNCHANGED <<sent, queue, buffer, open>> /\ msg' = [msg EXCEPT ![r] = NoMessage]
    BY <1>9 DEF Ack, Nack, NextDelivery
  <2>3. CASE ~open[r] /\ UNCHANGED <<unacked, acked, dead, dropped>>
    BY <2>2, <2>3
  <2>4. CASE /\ open[r] /\ Tell(r)
             /\ \/ acked' = acked \cup {msg[r]} /\ UNCHANGED <<dead, dropped>>
                \/ dead' = dead \cup {msg[r]} /\ UNCHANGED <<acked, dropped>>
                \/ dropped' = dropped \cup {msg[r]} /\ UNCHANGED <<acked, dead>>
    <3>1. /\ msg[r] \in unacked[r]
          /\ \A q \in Loops : unacked'[q] = IF q = r THEN unacked[r] \ {msg[r]} ELSE unacked[q]
      BY <2>1, <2>4 DEF Tell
    <3>2. (\A q \in Queues : msg[r] \notin queue[q]) /\ msg[r] \notin Gone /\ \A q \in Loops \ {r} : msg[r] \notin unacked[q]
      BY <2>1, <3>1
    <3>3. Gone' = Gone \cup {msg[r]}
      BY <2>4
    <3>4. OnePlaceEach'
      BY <2>1, <2>2, <2>4, <3>1, <3>2, <3>3
    <3> QED
      BY <2>1, <2>2, <2>4, <3>1, <3>4
  <2> QED
    BY <1>9, <2>3, <2>4 DEF Ack, Nack
<1>10. CASE UNCHANGED vars
  BY <1>10 DEF vars
<1> QED
  BY <1>1, <1>2, <1>3, <1>4, <1>5, <1>6, <1>7, <1>8, <1>9, <1>10 DEF Next, Step

\* At the start nothing was sent and no channel has anything out.
LEMMA PlaceInit == Init => PlaceInv
BY RabbitAssumption DEF Init, PlaceInv, OnePlaceEach

\* Whatever closes, and whoever acknowledges too late for it, the broker has a
\* message in one place or has let go of it in one way: none is lost between
\* two channels, none is both acknowledged and dead-lettered.
THEOREM OnePlaceAlways == Spec => []OnePlaceEach
<1>1. PlaceInv => OnePlaceEach
  BY DEF PlaceInv
<1> QED
  BY <1>1, PlaceInit, PlaceNext, TypeInit, TypeNext, PTL DEF Spec

\* A channel may have the deliveries of S out.
Fits(S) == IsFiniteSet(S) /\ Cardinality(S) <= PrefetchCount

\* One delivery less fits, and so does one more where there is room.
LEMMA RoomForOne ==
  ASSUME NEW S, Fits(S), NEW x
  PROVE  /\ Fits(S \ {x})
         /\ Cardinality(S) < PrefetchCount => Fits(S \cup {x})
<1>1. PrefetchCount \in Nat /\ Cardinality(S) \in Nat /\ Cardinality(S) <= PrefetchCount
  BY RabbitAssumption, FS_CardinalityType DEF Fits
<1>2. /\ IsFiniteSet(S \cup {x}) /\ IsFiniteSet(S \ {x})
      /\ Cardinality(S \cup {x}) \in {Cardinality(S), Cardinality(S) + 1}
      /\ Cardinality(S \ {x}) \in {Cardinality(S), Cardinality(S) - 1}
  BY FS_AddElement, FS_RemoveElement DEF Fits
<1>3. Cardinality(S) < PrefetchCount => Cardinality(S \cup {x}) <= PrefetchCount
  BY <1>1, <1>2
<1>4. Cardinality(S \ {x}) <= PrefetchCount
  BY <1>1, <1>2
<1> QED
  BY <1>2, <1>3, <1>4 DEF Fits

\* No channel has more out than it may.
WithinPrefetch == \A r \in Loops : Fits(unacked[r])

\* Only a delivery adds to what a channel has out, and only where there is room.
LEMMA PrefetchNext == TypeInv /\ WithinPrefetch /\ [Next]_vars => WithinPrefetch'
<1> SUFFICES ASSUME TypeInv, WithinPrefetch, [Next]_vars, NEW q \in Loops
             PROVE  Fits(unacked'[q])
  BY DEF WithinPrefetch, Fits
<1> USE DEF TypeInv, TypeOK, broker, channels, loops, process
<1>1. Fits(unacked[q])
  BY DEF WithinPrefetch
<1>2. Fits({})
  BY RabbitAssumption, FS_EmptySet DEF Fits
<1>3. ASSUME NEW r \in Loops, NEW m \in Messages, Deliver(r, m) PROVE Fits(unacked'[q])
  <2>1. unacked' = [unacked EXCEPT ![r] = @ \cup {m}] /\ Cardinality(unacked[r]) < PrefetchCount
    BY <1>3 DEF Deliver
  <2>2. unacked'[q] = IF q = r THEN unacked[q] \cup {m} ELSE unacked[q]
    BY <2>1
  <2> QED
    BY <1>1, <2>1, <2>2, RoomForOne
<1>4. CASE LoseConnection \/ Restart \/ \E r \in Loops : StopCloses(r)
  <2>1. unacked'[q] \in {{}, unacked[q]}
    BY <1>4 DEF LoseConnection, Restart, StopCloses, Close
  <2> QED
    BY <1>1, <1>2, <2>1
<1>5. ASSUME NEW r \in Loops, Ack(r) \/ Nack(r) PROVE Fits(unacked'[q])
  <2>1. unacked'[q] = unacked[q] \/ unacked'[q] = unacked[q] \ {msg[r]}
    BY <1>5 DEF Ack, Nack, Tell
  <2>2. Fits(unacked[q] \ {msg[r]})
    BY <1>1, RoomForOne
  <2> QED
    BY <1>1, <2>1, <2>2
<1>6. ASSUME NEW r \in Loops, Select(r) \/ Attempt(r) \/ Backoff(r) PROVE Fits(unacked'[q])
  BY <1>1, <1>6 DEF Select, End, Receive, Attempt, Backoff
<1>7. CASE Cancel \/ NewPublisher \/ Stop \/ UNCHANGED vars \/ \E m \in Messages : Publish(m)
  BY <1>1, <1>7 DEF Cancel, NewPublisher, Stop, vars, Publish
<1> QED
  BY <1>3, <1>4, <1>5, <1>6, <1>7 DEF Next, Step

\* The broker never waits for an acknowledgement that no loop is going to give:
\* what a channel has out is in its loop's buffer or hand, within the prefetch.
THEOREM NothingIsStuck == Spec => []NothingStuck
<1>1. Init => WithinPrefetch
  BY RabbitAssumption, FS_EmptySet DEF Init, WithinPrefetch, Fits
<1>2. PlaceInv /\ WithinPrefetch => NothingStuck
  <2> SUFFICES ASSUME PlaceInv, WithinPrefetch, NEW r \in Loops
               PROVE  /\ Cardinality(unacked[r]) <= PrefetchCount
                      /\ unacked[r] = IF open[r] THEN buffer[r] \cup ({msg[r]} \ {NoMessage}) ELSE {}
    BY DEF NothingStuck
  <2>1. Cardinality(unacked[r]) <= PrefetchCount
    BY DEF WithinPrefetch, Fits
  <2>2. unacked[r] = IF open[r] THEN buffer[r] \cup ({msg[r]} \ {NoMessage}) ELSE {}
    BY DEF PlaceInv
  <2> QED
    BY <2>1, <2>2
<1> QED
  BY <1>1, <1>2, PrefetchNext, PlaceInit, PlaceNext, TypeInit, TypeNext, PTL DEF Spec
=================================================================================
