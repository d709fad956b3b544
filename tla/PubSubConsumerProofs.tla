-------------------------- MODULE PubSubConsumerProofs --------------------------
(***************************************************************************)
(* What PubSubConsumer promises for any number of callbacks, messages,     *)
(* retries, lost answers and restarts, proved with TLAPS.                  *)
(*                                                                         *)
(* Two inductive invariants build on the types: what is known of every     *)
(* message that nothing has cast doubt on, and that only messages that     *)
(* were handled or dead-lettered are acknowledged.                         *)
(***************************************************************************)
EXTENDS PubSubConsumer, WellFoundedInduction, TLAPS

\* A callback that will try again has an attempt left.
AttemptsLeft ==
  \A c \in Callbacks :
    /\ at[c] = "idle" => attempt[c] = 0
    /\ at[c] \in {"retry", "backoff"} => attempt[c] < Attempts

TypeInv == TypeOK /\ AttemptsLeft

\* Resolving two sets of settings gives a set of settings, nothing left unset.
LEMMA ResolveIsConfig ==
  ASSUME NEW g \in Configs, NEW ov \in Overrides
  PROVE  Resolve(g, ov) \in Configs
BY DEF Configs, Overrides, Resolve, OrInt, OrBool

\* Attempts is a positive number, whatever MaxRetries is.
LEMMA AttemptsPositive == Attempts \in Nat \ {0}
BY PubSubAssumption, ResolveIsConfig DEF Attempts, Policy, Configs

\* The intervals are numbers, whatever the policy says.
LEMMA WaitsAreNumbers == FirstWait \in Int /\ \A wait \in Int : NextWait(wait) \in Int
<1>1. FirstWait \in Int /\ LongestWait \in Int /\ Factor \in Int
  BY PubSubAssumption, ResolveIsConfig DEF FirstWait, LongestWait, Factor, Policy, Configs
<1>2. ASSUME NEW wait \in Int PROVE NextWait(wait) \in Int
  <2>1. wait * Factor \in Int
    BY <1>1
  <2> QED
    BY <1>1, <2>1 DEF NextWait
<1> QED
  BY <1>1, <1>2

\* A new behaviour starts with nothing sent and every callback idle.
LEMMA TypeInit == Init => TypeInv
<1> SUFFICES ASSUME Init PROVE TypeInv
  OBVIOUS
<1> USE PubSubAssumption, AttemptsPositive DEF Init
<1>1. ctxDone \in BOOLEAN /\ receiving \in BOOLEAN /\ stopping \in BOOLEAN
  BY Zenon
<1>2. /\ at \in [Callbacks -> Places] /\ attempt \in [Callbacks -> 0 .. Attempts]
      /\ msg \in [Callbacks -> sent \cup {NoMessage}]
      /\ interval \in [Callbacks -> Int]
  BY WaitsAreNumbers DEF Places
<1>3. AttemptsLeft
  BY DEF AttemptsLeft
<1>4. \A c \in Callbacks : msg[c] = NoMessage <=> at[c] = "idle"
  OBVIOUS
<1>5. doubts \in 0 .. MaxDoubts /\ restarts \in 0 .. MaxRestarts
  OBVIOUS
<1> QED
  BY <1>1, <1>2, <1>3, <1>4, <1>5 DEF TypeInv, TypeOK

\* Every action keeps the types, and no action makes an attempt beyond the last.
LEMMA TypeNext == TypeInv /\ [Next]_vars => TypeInv'
<1> SUFFICES ASSUME TypeInv, [Next]_vars PROVE TypeInv'
  OBVIOUS
<1> USE PubSubAssumption, AttemptsPositive
    DEF TypeInv, TypeOK, AttemptsLeft, Places, broker, callbacks, process, Go
<1>1. ASSUME NEW m \in Messages, Publish(m) PROVE TypeInv'
  BY <1>1 DEF Publish
<1>2. ASSUME NEW m \in Messages, LeaseEnds(m) PROVE TypeInv'
  BY <1>2 DEF LeaseEnds
<1>3. ASSUME NEW m \in Messages, LeaseEndsInHand(m) PROVE TypeInv'
  BY <1>3 DEF LeaseEndsInHand, Doubt, InHand
<1>4. ASSUME NEW c \in Callbacks, NEW m \in Messages, Deliver(c, m) PROVE TypeInv'
  BY <1>4 DEF Deliver
<1>5. ASSUME NEW c \in Callbacks, Attempt(c) PROVE TypeInv'
  <2>1. at[c] = "retry" /\ msg[c] \in sent
    BY <1>5 DEF Attempt
  <2>2. CASE ctxDone /\ Go(c, "failed") /\ UNCHANGED <<attempt, settled>>
    BY <1>5, <2>1, <2>2 DEF Attempt
  <2>3. CASE CallHandler(c)
    <3>1. UNCHANGED <<broker, msg, interval, process, doubts, doubted>>
      BY <1>5 DEF Attempt
    <3>2. CASE settled' = settled \cup {msg[c]} /\ Go(c, "ack") /\ UNCHANGED attempt
      BY <2>1, <3>1, <3>2
    <3>3. CASE /\ attempt' = [attempt EXCEPT ![c] = @ + 1]
               /\ Go(c, IF LastAttempt(c) THEN "failed" ELSE "backoff")
               /\ UNCHANGED settled
      <4>1. CASE LastAttempt(c)
        BY <2>1, <3>1, <3>3, <4>1 DEF LastAttempt
      <4>2. CASE ~LastAttempt(c)
        BY <2>1, <3>1, <3>3, <4>2 DEF LastAttempt
      <4> QED
        BY <4>1, <4>2
    <3> QED
      BY <2>3, <3>2, <3>3 DEF CallHandler
  <2> QED
    BY <1>5, <2>2, <2>3 DEF Attempt
<1>6. ASSUME NEW c \in Callbacks, Backoff(c) PROVE TypeInv'
  <2>1. interval' \in [Callbacks -> Int]
    BY <1>6, WaitsAreNumbers DEF Backoff
  <2> QED
    BY <1>6, <2>1 DEF Backoff
<1>7. ASSUME NEW c \in Callbacks, DeadLetter(c) PROVE TypeInv'
  BY <1>7 DEF DeadLetter
<1>8. ASSUME NEW c \in Callbacks, DeadLetterFails(c) PROVE TypeInv'
  <2>1. msg[c] \in sent
    BY <1>8 DEF DeadLetterFails
  <2>2. dead' \subseteq sent /\ doubted' \subseteq sent /\ doubts' \in 0 .. MaxDoubts
    BY <1>8, <2>1 DEF DeadLetterFails, Doubt
  <2>3. UNCHANGED <<sent, ready, acked, msg, attempt, interval, process, settled>> /\ Go(c, "nack")
    BY <1>8 DEF DeadLetterFails
  <2> QED
    BY <1>8, <2>2, <2>3 DEF DeadLetterFails
<1>9. ASSUME NEW c \in Callbacks, Ack(c) PROVE TypeInv'
  <2>1. msg[c] \in sent
    BY <1>9 DEF Ack
  <2>2. /\ acked' \subseteq sent /\ ready' \subseteq sent
        /\ doubted' \subseteq sent /\ doubts' \in 0 .. MaxDoubts
    BY <1>9, <2>1 DEF Ack, Doubt
  <2>3. Done(c) /\ UNCHANGED <<sent, dead, process, settled>>
    BY <1>9 DEF Ack
  <2> QED
    BY <2>2, <2>3, WaitsAreNumbers DEF Done
<1>10. ASSUME NEW c \in Callbacks, Nack(c) PROVE TypeInv'
  <2>1. msg[c] \in sent
    BY <1>10 DEF Nack
  <2>2. ready' \subseteq sent
    BY <1>10, <2>1 DEF Nack
  <2>3. Done(c) /\ UNCHANGED <<sent, acked, dead, process, doubts, settled, doubted>>
    BY <1>10 DEF Nack
  <2> QED
    BY <2>2, <2>3, WaitsAreNumbers DEF Done
<1>11. CASE Cancel
  BY <1>11 DEF Cancel
<1>12. CASE ReceiveReturns
  BY <1>12 DEF ReceiveReturns
<1>13. CASE Stop
  BY <1>13 DEF Stop
<1>14. CASE Restart
  <2> USE <1>14 DEF Restart
  <2>1. ctxDone' \in BOOLEAN /\ receiving' \in BOOLEAN /\ stopping' \in BOOLEAN
    BY Zenon
  <2>2. /\ at' \in [Callbacks -> Places] /\ attempt' \in [Callbacks -> 0 .. Attempts]
        /\ msg' \in [Callbacks -> sent' \cup {NoMessage}]
        /\ interval' \in [Callbacks -> Int]
    BY WaitsAreNumbers
  <2>3. AttemptsLeft' /\ \A c \in Callbacks : msg'[c] = NoMessage <=> at'[c] = "idle"
    OBVIOUS
  <2>4. doubted' \subseteq sent'
    BY DEF InHand
  <2>5. doubts' \in 0 .. MaxDoubts /\ restarts' \in 0 .. MaxRestarts
    OBVIOUS
  <2>6. /\ sent' \subseteq Messages /\ ready' \subseteq sent' /\ acked' \subseteq sent'
        /\ dead' \subseteq sent' /\ settled' \subseteq sent'
    OBVIOUS
  <2> QED
    BY <2>1, <2>2, <2>3, <2>4, <2>5, <2>6
<1>15. CASE UNCHANGED vars
  BY <1>15 DEF vars
<1> QED
  BY <1>1, <1>2, <1>3, <1>4, <1>5, <1>6, <1>7, <1>8, <1>9, <1>10, <1>11, <1>12,
     <1>13, <1>14, <1>15 DEF Next, Step

\* The types are right in every state the consumer can reach.
THEOREM TypeCorrect == Spec => []TypeOK
<1>1. TypeInv => TypeOK
  BY DEF TypeInv
<1> QED
  BY <1>1, TypeInit, TypeNext, PTL DEF Spec

-----------------------------------------------------------------------------
(* Nothing is given up before its time                                     *)

\* A message is given up only after all its attempts, or because the context
\* is done: WithRetry never returns an error early.
THEOREM NeverGivesUpEarly == Spec => []GivesUpAfterRetries
<1>1. Init => GivesUpAfterRetries
  BY DEF Init, GivesUpAfterRetries
<1>2. TypeInv /\ GivesUpAfterRetries /\ [Next]_vars => GivesUpAfterRetries'
  <2> SUFFICES ASSUME TypeInv, GivesUpAfterRetries, [Next]_vars,
                      NEW c \in Callbacks, at'[c] \in {"failed", "nack"}
               PROVE  attempt'[c] = Attempts \/ ctxDone'
    BY DEF GivesUpAfterRetries
  <2> USE DEF TypeInv, TypeOK, GivesUpAfterRetries, broker, callbacks, process, Go
  <2>1. ASSUME NEW m \in Messages, Publish(m) \/ LeaseEnds(m) \/ LeaseEndsInHand(m)
        PROVE  attempt'[c] = Attempts \/ ctxDone'
    BY <2>1 DEF Publish, LeaseEnds, LeaseEndsInHand
  <2>2. ASSUME NEW d \in Callbacks, NEW m \in Messages, Deliver(d, m)
        PROVE  attempt'[c] = Attempts \/ ctxDone'
    BY <2>2 DEF Deliver
  <2>3. ASSUME NEW d \in Callbacks, Attempt(d) PROVE attempt'[c] = Attempts \/ ctxDone'
    <3>1. CASE d = c
      BY <2>3, <3>1 DEF Attempt, CallHandler, LastAttempt
    <3>2. CASE d # c
      BY <2>3, <3>2 DEF Attempt, CallHandler
    <3> QED
      BY <3>1, <3>2
  <2>4. ASSUME NEW d \in Callbacks,
               Backoff(d) \/ DeadLetter(d) \/ DeadLetterFails(d) \/ Ack(d) \/ Nack(d)
        PROVE  attempt'[c] = Attempts \/ ctxDone'
    BY <2>4 DEF Backoff, DeadLetter, DeadLetterFails, Ack, Nack, Done
  <2>5. CASE Cancel \/ ReceiveReturns \/ Stop \/ Restart
    BY <2>5 DEF Cancel, ReceiveReturns, Stop, Restart
  <2>6. CASE UNCHANGED vars
    BY <2>6 DEF vars
  <2> QED
    BY <2>1, <2>2, <2>3, <2>4, <2>5, <2>6 DEF Next, Step
<1> QED
  BY <1>1, <1>2, TypeInit, TypeNext, PTL DEF Spec

-----------------------------------------------------------------------------
(* Handled or dead, in one hand                                            *)

\* What is known of a message nothing has cast doubt on: it is in one place,
\* and until its callback acknowledges it, it is neither handled nor dead;
\* once it is either, it is acknowledged or about to be.
Sure(m) ==
  /\ m \notin settled \cap dead
  /\ \A c, d \in Callbacks : msg[c] = m /\ msg[d] = m => c = d
  /\ \A c \in Callbacks : msg[c] = m => m \notin ready \cup acked
  /\ m \in acked => m \notin ready
  /\ \A c \in Callbacks : msg[c] = m /\ at[c] # "ack" => m \notin settled \cup dead
  /\ m \in settled \cup dead => m \in acked \/ \E c \in Callbacks : msg[c] = m

SureInv == \A m \in sent \ doubted : Sure(m)

\* What a callback does to its own message leaves it known.
LEMMA SureStep ==
  ASSUME TypeInv, SureInv, NEW c \in Callbacks, Step(c),
         NEW m \in sent \ doubted', m \notin doubted
  PROVE  Sure(m)'
<1> USE PubSubAssumption DEF TypeInv, TypeOK, SureInv, Sure, broker, callbacks, process, Go
<1>1. CASE Attempt(c)
  BY <1>1 DEF Attempt, CallHandler
<1>2. CASE Backoff(c)
  BY <1>2 DEF Backoff
<1>3. CASE DeadLetter(c)
  BY <1>3 DEF DeadLetter
<1>4. CASE DeadLetterFails(c)
  BY <1>4 DEF DeadLetterFails, Doubt
<1>5. CASE Ack(c)
  BY <1>5 DEF Ack, Done, Doubt
<1>6. CASE Nack(c)
  BY <1>6 DEF Nack, Done
<1> QED
  BY <1>1, <1>2, <1>3, <1>4, <1>5, <1>6 DEF Step

\* So does everything else: a message leaves SureInv only by a doubt.
LEMMA SureNext == TypeInv /\ SureInv /\ [Next]_vars => SureInv'
<1> SUFFICES ASSUME TypeInv, SureInv, [Next]_vars PROVE SureInv'
  OBVIOUS
<1> USE PubSubAssumption DEF TypeInv, TypeOK, broker, callbacks, process, Go
<1>1. ASSUME NEW n \in Messages, Publish(n) PROVE SureInv'
  BY <1>1 DEF Publish, SureInv, Sure
<1>2. ASSUME NEW n \in Messages, LeaseEnds(n) PROVE SureInv'
  BY <1>2 DEF LeaseEnds, SureInv, Sure, InHand
<1>3. ASSUME NEW n \in Messages, LeaseEndsInHand(n) PROVE SureInv'
  BY <1>3 DEF LeaseEndsInHand, Doubt, SureInv, Sure
<1>4. ASSUME NEW c \in Callbacks, NEW n \in Messages, Deliver(c, n) PROVE SureInv'
  BY <1>4 DEF Deliver, SureInv, Sure
<1>5. ASSUME NEW c \in Callbacks, Step(c) PROVE SureInv'
  <2>1. sent' = sent /\ doubted \subseteq doubted'
    BY <1>5 DEF Step, Attempt, Backoff, DeadLetter, DeadLetterFails, Ack, Nack, Doubt
  <2> QED
    BY <1>5, <2>1, SureStep DEF SureInv
<1>6. CASE Cancel \/ ReceiveReturns \/ Stop
  BY <1>6 DEF Cancel, ReceiveReturns, Stop, SureInv, Sure
<1>7. CASE Restart
  BY <1>7 DEF Restart, SureInv, Sure, InHand
<1>8. CASE UNCHANGED vars
  BY <1>8 DEF vars, SureInv, Sure
<1> QED
  BY <1>1, <1>2, <1>3, <1>4, <1>5, <1>6, <1>7, <1>8 DEF Next

\* A message is handled or dead, never both, and in one hand, unless a lease
\* ran out in hand, an answer was lost or the process died with it.
THEOREM HandledOrDeadHolds == Spec => []HandledOrDead
<1>1. Init => SureInv
  BY DEF Init, SureInv
<1>2. SureInv => HandledOrDead
  BY DEF SureInv, Sure, HandledOrDead
<1> QED
  BY <1>1, <1>2, SureNext, TypeInit, TypeNext, PTL DEF Spec

-----------------------------------------------------------------------------
(* The adapter implements AtLeastOnce                                      *)

Over == settled \cup dead

\* What is acknowledged, or about to be, was handled or is dead.
AckInv ==
  /\ acked \subseteq Over
  /\ \A c \in Callbacks : at[c] = "ack" => msg[c] \in Over

\* At the start nothing is acknowledged.
LEMMA AckInit == Init => AckInv
BY DEF Init, AckInv

\* A callback acknowledges on no other way than after the handler's nil or
\* after the dead letter.
LEMMA AckNext == TypeInv /\ AckInv /\ [Next]_vars => AckInv'
<1> SUFFICES ASSUME TypeInv, AckInv, [Next]_vars PROVE AckInv'
  OBVIOUS
<1> USE PubSubAssumption DEF TypeInv, TypeOK, AckInv, Over, broker, callbacks, process, Go
<1>1. ASSUME NEW m \in Messages, Publish(m) \/ LeaseEnds(m) \/ LeaseEndsInHand(m)
      PROVE  AckInv'
  BY <1>1 DEF Publish, LeaseEnds, LeaseEndsInHand
<1>2. ASSUME NEW c \in Callbacks, NEW m \in Messages, Deliver(c, m) PROVE AckInv'
  BY <1>2 DEF Deliver
<1>3. ASSUME NEW c \in Callbacks, Attempt(c) PROVE AckInv'
  BY <1>3 DEF Attempt, CallHandler
<1>4. ASSUME NEW c \in Callbacks, Backoff(c) \/ DeadLetter(c) \/ DeadLetterFails(c)
      PROVE  AckInv'
  BY <1>4 DEF Backoff, DeadLetter, DeadLetterFails
<1>5. ASSUME NEW c \in Callbacks, Ack(c) \/ Nack(c) PROVE AckInv'
  BY <1>5 DEF Ack, Nack, Done
<1>6. CASE Cancel \/ ReceiveReturns \/ Stop \/ Restart
  BY <1>6 DEF Cancel, ReceiveReturns, Stop, Restart
<1>7. CASE UNCHANGED vars
  BY <1>7 DEF vars
<1> QED
  BY <1>1, <1>2, <1>3, <1>4, <1>5, <1>6, <1>7 DEF Next, Step

\* Every step sends, settles, lets go of settled messages, or changes nothing
\* that AtLeastOnce speaks of.
LEMMA PromiseStep ==
  ASSUME TypeInv, AckInv, AckInv', [Next]_vars
  PROVE  \/ \E m \in Messages : sent' = sent \cup {m} /\ UNCHANGED <<Over, acked>>
         \/ \E m \in sent : Over' = Over \cup {m} /\ UNCHANGED <<sent, acked>>
         \/ acked' \subseteq Over /\ UNCHANGED <<sent, Over>>
<1> USE DEF TypeInv, TypeOK, AckInv, Over, broker, callbacks, process
<1>1. ASSUME NEW m \in Messages, Publish(m)
      PROVE  sent' = sent \cup {m} /\ UNCHANGED <<Over, acked>>
  BY <1>1 DEF Publish
<1>2. ASSUME NEW m \in Messages, LeaseEnds(m) \/ LeaseEndsInHand(m)
      PROVE  UNCHANGED <<sent, Over, acked>>
  BY <1>2 DEF LeaseEnds, LeaseEndsInHand
<1>3. ASSUME NEW c \in Callbacks, NEW m \in Messages, Deliver(c, m)
      PROVE  UNCHANGED <<sent, Over, acked>>
  BY <1>3 DEF Deliver
<1>4. ASSUME NEW c \in Callbacks, Attempt(c) \/ DeadLetter(c) \/ DeadLetterFails(c)
      PROVE  /\ UNCHANGED <<sent, acked>>
             /\ UNCHANGED Over \/ \E m \in sent : Over' = Over \cup {m}
  <2>1. UNCHANGED <<sent, acked>> /\ msg[c] \in sent
    BY <1>4 DEF Attempt, DeadLetter, DeadLetterFails
  <2>2. UNCHANGED <<settled, dead>> \/ Over' = Over \cup {msg[c]}
    BY <1>4 DEF Attempt, CallHandler, DeadLetter, DeadLetterFails
  <2> QED
    BY <2>1, <2>2
<1>5. ASSUME NEW c \in Callbacks, Backoff(c) \/ Nack(c) PROVE UNCHANGED <<sent, Over, acked>>
  BY <1>5 DEF Backoff, Nack
<1>6. ASSUME NEW c \in Callbacks, Ack(c)
      PROVE  acked' \subseteq Over /\ UNCHANGED <<sent, Over>>
  BY <1>6 DEF Ack
<1>7. CASE Cancel \/ ReceiveReturns \/ Stop \/ Restart \/ UNCHANGED vars
  BY <1>7 DEF Cancel, ReceiveReturns, Stop, Restart, vars
<1> QED
  BY <1>1, <1>2, <1>3, <1>4, <1>5, <1>6, <1>7 DEF Next, Step

\* Every broker adapter owes at-least-once delivery; this one gives it, with or
\* without dead letters.
THEOREM ImplementsAtLeastOnce == Spec => KeepsPromise
<1>1. Init => Promise!Init
  BY DEF Init, Promise!Init
<1>2. TypeInv /\ AckInv /\ AckInv' /\ [Next]_vars => [Promise!Next]_(Promise!vars)
  <2> SUFFICES ASSUME TypeInv, AckInv, AckInv', [Next]_vars
               PROVE  [Promise!Next]_(Promise!vars)
    OBVIOUS
  <2> USE DEF Promise!vars, Over
  <2>1. CASE \E m \in Messages : sent' = sent \cup {m} /\ UNCHANGED <<Over, acked>>
    BY <2>1 DEF Promise!Send, Promise!Next
  <2>2. CASE \E m \in sent : Over' = Over \cup {m} /\ UNCHANGED <<sent, acked>>
    <3>1. PICK m \in sent : Over' = Over \cup {m} /\ UNCHANGED <<sent, acked>>
      BY <2>2
    <3>2. m \in Messages /\ Promise!Settle(m)
      BY <3>1 DEF Promise!Settle, TypeInv, TypeOK
    <3> QED
      BY <3>2 DEF Promise!Next
  <2>3. CASE acked' \subseteq Over /\ UNCHANGED <<sent, Over>>
    BY <2>3 DEF Promise!Release, Promise!Next
  <2> QED
    BY <2>1, <2>2, <2>3, PromiseStep
<1> QED
  BY <1>1, <1>2, AckInit, AckNext, TypeInit, TypeNext, PTL
     DEF Spec, KeepsPromise, Promise!Spec

\* A message acknowledged was handled, or is on the dead-letter topic, whatever
\* became of leases and answers.
THEOREM LosesNothing == Spec => []Promise!NothingLost
<1>1. AckInv => Promise!NothingLost
  BY DEF AckInv, Over, Promise!NothingLost
<1> QED
  BY <1>1, AckInit, AckNext, TypeInit, TypeNext, PTL DEF Spec

-----------------------------------------------------------------------------
(* The waits between attempts.  Power is a recursive function, and what it *)
(* computes follows by induction over a set of numbers: the library's      *)
(* theorem on least elements speaks of sets, where its induction theorems  *)
(* speak of operators.                                                     *)

\* A set of natural numbers that is not empty has a least element.
LEMMA LeastNumber ==
  ASSUME NEW S, S \subseteq Nat, S # {}
  PROVE  \E x \in S : \A y \in S : x <= y
<1> DEFINE less == OpToRel(<, Nat)
<1>1. IsWellFoundedOn(less, Nat)
  BY NatLessThanWellFounded
<1>2. \A x, y \in Nat : <<y, x>> \in less <=> y < x
  BY DEF OpToRel
<1> HIDE DEF less
<1>3. PICK x \in S : \A y \in S : ~(<<y, x>> \in less)
  BY <1>1, WFMin
<1>4. ASSUME NEW y \in S PROVE x <= y
  <2>1. x \in Nat /\ y \in Nat /\ ~(y < x)
    BY <1>2, <1>3
  <2> QED
    BY <2>1
<1> QED
  BY <1>4

\* Induction, for a property given as the set of numbers that have it.
LEMMA Induction ==
  ASSUME NEW S, 0 \in S, \A n \in Nat : n \in S => n + 1 \in S
  PROVE  Nat \subseteq S
<1> SUFFICES ASSUME Nat \ S # {} PROVE FALSE
  OBVIOUS
<1>1. PICK x \in Nat \ S : \A y \in Nat \ S : x <= y
  BY LeastNumber
<1>2. x - 1 \in Nat /\ x - 1 \notin Nat \ S
  BY <1>1
<1>3. (x - 1) + 1 \in S
  BY <1>2
<1> QED
  BY <1>1, <1>3

\* The settings of the wait are positive, and the multiplier multiplies.
LEMMA PositiveWaits ==
  /\ FirstWait \in Nat \ {0} /\ LongestWait \in Nat \ {0}
  /\ Factor \in Nat /\ Factor >= 2
BY PubSubAssumption, ResolveIsConfig DEF FirstWait, LongestWait, Factor, Policy, Configs

\* h has the powers of Factor up to the nth.
Powers(h, n) ==
  /\ h \in [0 .. n -> Nat \ {0}]
  /\ h[0] = 1
  /\ \A i \in 1 .. n : h[i] = h[i - 1] * Factor

\* There are powers up to any n.
LEMMA PowersExist == \A n \in Nat : \E h : Powers(h, n)
<1> DEFINE S == {n \in Nat : \E h : Powers(h, n)}
<1>1. 0 \in S
  <2>1. Powers([i \in 0 .. 0 |-> 1], 0)
    BY DEF Powers
  <2> QED
    BY <2>1
<1>2. ASSUME NEW n \in Nat, n \in S PROVE n + 1 \in S
  <2>1. PICK h : Powers(h, n)
    BY <1>2
  <2> DEFINE g == [i \in 0 .. n + 1 |-> IF i = n + 1 THEN h[n] * Factor ELSE h[i]]
  <2>2. h[n] \in Nat \ {0} /\ \A i \in 0 .. n : h[i] \in Nat \ {0}
    BY <2>1 DEF Powers
  <2>3. h[n] * Factor \in Nat \ {0}
    BY <2>2, PositiveWaits
  <2>4. g \in [0 .. n + 1 -> Nat \ {0}]
    <3>1. \A i \in 0 .. n + 1 : i = n + 1 \/ i \in 0 .. n
      OBVIOUS
    <3> QED
      BY <2>2, <2>3, <3>1
  <2>5. g[0] = 1
    BY <2>1 DEF Powers
  <2>6. ASSUME NEW i \in 1 .. n + 1 PROVE g[i] = g[i - 1] * Factor
    <3>1. i - 1 \in 0 .. n /\ i - 1 # n + 1 /\ i \in 0 .. n + 1 /\ i - 1 \in 0 .. n + 1
      OBVIOUS
    <3>2. g[i - 1] = h[i - 1]
      BY <3>1
    <3>3. CASE i = n + 1
      <4>1. g[i] = h[n] * Factor /\ i - 1 = n
        BY <3>1, <3>3
      <4> QED
        BY <3>2, <4>1
    <3>4. CASE i # n + 1
      <4>1. i \in 1 .. n /\ g[i] = h[i]
        BY <3>1, <3>4
      <4> QED
        BY <2>1, <3>2, <4>1 DEF Powers
    <3> QED
      BY <3>3, <3>4
  <2>7. Powers(g, n + 1)
    <3> HIDE DEF g
    <3> QED
      BY <2>4, <2>5, <2>6 DEF Powers
  <2> QED
    BY <2>7
<1> HIDE DEF S
<1>3. Nat \subseteq S
  BY <1>1, <1>2, Induction
<1> QED
  BY <1>3 DEF S

\* Powers that go further agree with those that do not.
LEMMA PowersAgree ==
  ASSUME NEW n \in Nat, NEW m \in Nat, n <= m, NEW g, Powers(g, n), NEW h, Powers(h, m)
  PROVE  g[n] = h[n]
<1> DEFINE S == {i \in Nat : i <= n => g[i] = h[i]}
<1>1. 0 \in S
  BY DEF Powers
<1>2. ASSUME NEW i \in Nat, i \in S PROVE i + 1 \in S
  <2>1. CASE i + 1 <= n
    <3>1. i + 1 \in 1 .. n /\ i + 1 \in 1 .. m /\ (i + 1) - 1 = i
      BY <2>1
    <3>2. g[i + 1] = g[i] * Factor /\ h[i + 1] = h[i] * Factor
      BY <3>1 DEF Powers
    <3>3. g[i] = h[i]
      BY <1>2, <2>1
    <3> QED
      BY <3>2, <3>3
  <2>2. CASE ~(i + 1 <= n)
    BY <2>2
  <2> QED
    BY <2>1, <2>2
<1> HIDE DEF S
<1>3. Nat \subseteq S
  BY <1>1, <1>2, Induction
<1> QED
  BY <1>3 DEF S

\* The recursive definition of Power has a solution, so that it is one.
LEMMA PowerSteps ==
  /\ Power[0] = 1
  /\ \A n \in Nat : Power[n] \in Nat \ {0} /\ Power[n + 1] = Power[n] * Factor
<1> DEFINE pick(n) == CHOOSE h : Powers(h, n)
           f == [n \in Nat |-> pick(n)[n]]
<1>1. \A n \in Nat : Powers(pick(n), n)
  BY PowersExist
<1> HIDE DEF pick
<1>2. f[0] = 1 /\ \A n \in Nat : f[n] \in Nat \ {0}
  BY <1>1 DEF Powers
<1>3. ASSUME NEW n \in Nat PROVE f[n + 1] = f[n] * Factor
  <2>1. Powers(pick(n), n) /\ Powers(pick(n + 1), n + 1) /\ n <= n + 1 /\ n + 1 \in Nat
    BY <1>1
  <2>2. pick(n)[n] = pick(n + 1)[n]
    BY <2>1, PowersAgree
  <2>3. n + 1 \in 1 .. n + 1 /\ (n + 1) - 1 = n
    OBVIOUS
  <2>4. pick(n + 1)[n + 1] = pick(n + 1)[n] * Factor
    BY <2>1, <2>3 DEF Powers
  <2> QED
    BY <2>2, <2>4
<1>4. f = [n \in Nat |-> IF n = 0 THEN 1 ELSE f[n - 1] * Factor]
  <2>1. ASSUME NEW n \in Nat PROVE f[n] = IF n = 0 THEN 1 ELSE f[n - 1] * Factor
    <3>1. CASE n = 0
      BY <1>2, <3>1
    <3>2. CASE n # 0
      <4>1. n - 1 \in Nat /\ (n - 1) + 1 = n
        BY <3>2
      <4> HIDE DEF f
      <4> QED
        BY <1>3, <3>2, <4>1
    <3> QED
      BY <3>1, <3>2
  <2> QED
    BY <2>1
<1> HIDE DEF f
<1>5. Power = [n \in Nat |-> IF n = 0 THEN 1 ELSE Power[n - 1] * Factor]
  BY <1>4 DEF Power
<1> DEFINE S == {n \in Nat : Power[n] \in Nat \ {0}}
<1>6. Power[0] = 1
  BY <1>5
<1>7. ASSUME NEW n \in Nat PROVE Power[n + 1] = Power[n] * Factor
  <2>1. n + 1 \in Nat /\ n + 1 # 0 /\ (n + 1) - 1 = n
    OBVIOUS
  <2> QED
    BY <1>5, <2>1
<1>8. ASSUME NEW n \in Nat, n \in S PROVE n + 1 \in S
  <2>1. Power[n] * Factor \in Nat \ {0}
    BY <1>8, PositiveWaits
  <2> QED
    BY <1>7, <2>1
<1>9. 0 \in S
  BY <1>6
<1> HIDE DEF S
<1>10. Nat \subseteq S
  BY <1>8, <1>9, Induction
<1> QED
  BY <1>6, <1>7, <1>10 DEF S

\* A product by two or more is greater.
LEMMA Product ==
  ASSUME NEW a \in Nat \ {0}, NEW b \in Nat, b >= 2
  PROVE  a * b \in Nat /\ a * b > a
OBVIOUS

\* The wait that follows one in agreement with the policy agrees with it: once a
\* wait is clamped, every later one is.
LEMMA NextWaitFollows ==
  ASSUME NEW n \in Nat \ {0}
  PROVE  NextWait(WaitAfter(n)) = WaitAfter(n + 1)
<1> DEFINE grown == FirstWait * Power[n - 1]
<1>1. /\ n - 1 \in Nat /\ (n + 1) - 1 = n /\ (n - 1) + 1 = n /\ n + 1 # 1
      /\ FirstWait \in Nat \ {0} /\ LongestWait \in Nat \ {0}
      /\ Factor \in Nat /\ Factor >= 2
  BY PositiveWaits
<1>2. /\ Power[n - 1] \in Nat \ {0} /\ Power[n] = Power[n - 1] * Factor
      /\ n = 1 => Power[n - 1] = 1
  BY <1>1, PowerSteps
<1>3. grown \in Nat \ {0} /\ FirstWait * Power[n] = grown * Factor
  BY <1>1, <1>2
<1>4. n = 1 => grown = FirstWait
  BY <1>1, <1>2
<1> HIDE DEF grown
<1>5. /\ grown * Factor > grown /\ LongestWait * Factor > LongestWait
      /\ grown * Factor \in Nat /\ LongestWait * Factor \in Nat
  BY <1>1, <1>3, Product
<1>6. CASE ~Policy.ExponentialBackoff
  BY <1>6 DEF NextWait, WaitAfter
<1>7. CASE Policy.ExponentialBackoff
  <2>1. WaitAfter(n + 1) = IF grown * Factor > LongestWait THEN LongestWait ELSE grown * Factor
    BY <1>1, <1>3, <1>7 DEF WaitAfter
  <2>2. \A wait : NextWait(wait) = IF wait * Factor > LongestWait THEN LongestWait
                                   ELSE wait * Factor
    BY <1>7 DEF NextWait
  <2>3. WaitAfter(n) = IF n # 1 /\ grown > LongestWait THEN LongestWait ELSE grown
    BY <1>4, <1>7 DEF WaitAfter, grown
  <2>4. CASE WaitAfter(n) = grown
    BY <2>1, <2>2, <2>4
  <2>5. CASE grown > LongestWait /\ WaitAfter(n) = LongestWait
    <3>1. grown * Factor > LongestWait
      BY <1>1, <1>3, <1>5, <2>5
    <3> QED
      BY <1>5, <2>1, <2>2, <2>5, <3>1
  <2> QED
    BY <2>3, <2>4, <2>5
<1> QED
  BY <1>6, <1>7

\* A callback that is about to try has waited, or will wait, what the policy says.
WaitInv ==
  \A c \in Callbacks :
    /\ at[c] = "idle" => interval[c] = FirstWait
    /\ at[c] = "retry" => interval[c] = WaitAfter(attempt[c] + 1)
    /\ at[c] = "backoff" => attempt[c] > 0 /\ interval[c] = WaitAfter(attempt[c])

LEMMA WaitInit == Init => WaitInv
BY DEF Init, WaitInv

\* The first wait is InitialInterval, which is not clamped.
LEMMA FirstWaitIs == WaitAfter(1) = FirstWait
BY DEF WaitAfter

\* Every action keeps them.
LEMMA WaitNext == TypeInv /\ WaitInv /\ [Next]_vars => WaitInv'
<1> SUFFICES ASSUME TypeInv, WaitInv, [Next]_vars PROVE WaitInv'
  OBVIOUS
<1>1. /\ at \in [Callbacks -> Places] /\ attempt \in [Callbacks -> 0 .. Attempts]
      /\ interval \in [Callbacks -> Int] /\ Attempts \in Nat
  BY AttemptsPositive DEF TypeInv, TypeOK
<1>2. \A c \in Callbacks : at[c] = "idle" => attempt[c] = 0
  BY DEF TypeInv, AttemptsLeft
<1> USE DEF WaitInv, Go
<1>3. CASE UNCHANGED <<at, attempt, interval>>
  BY <1>3
<1>4. ASSUME NEW c \in Callbacks, NEW m \in Messages, Deliver(c, m) PROVE WaitInv'
  <2>1. at[c] = "idle" /\ at' = [at EXCEPT ![c] = "retry"] /\ UNCHANGED <<attempt, interval>>
    BY <1>4 DEF Deliver
  <2>2. interval[c] = WaitAfter(attempt[c] + 1)
    BY <1>2, <2>1, FirstWaitIs
  <2> QED
    BY <1>1, <2>1, <2>2
<1>5. ASSUME NEW c \in Callbacks, Attempt(c) PROVE WaitInv'
  <2>1. at[c] = "retry" /\ UNCHANGED interval
    BY <1>5 DEF Attempt
  <2>2. CASE UNCHANGED attempt /\ (Go(c, "failed") \/ Go(c, "ack"))
    BY <1>1, <2>1, <2>2
  <2>3. CASE /\ attempt' = [attempt EXCEPT ![c] = @ + 1]
             /\ Go(c, IF LastAttempt(c) THEN "failed" ELSE "backoff")
    <3>1. attempt'[c] = attempt[c] + 1 /\ attempt[c] + 1 > 0
          /\ \A d \in Callbacks \ {c} : attempt'[d] = attempt[d] /\ at'[d] = at[d]
      BY <1>1, <2>3
    <3>2. at'[c] \in {"failed", "backoff"}
      BY <1>1, <2>3
    <3> QED
      BY <2>1, <3>1, <3>2
  <2> QED
    BY <1>5, <2>2, <2>3 DEF Attempt, CallHandler
<1>6. ASSUME NEW c \in Callbacks, Backoff(c) PROVE WaitInv'
  <2>1. at[c] = "backoff" /\ UNCHANGED attempt
    BY <1>6 DEF Backoff
  <2>2. CASE Go(c, "failed") /\ UNCHANGED interval
    BY <1>1, <2>1, <2>2
  <2>3. CASE Go(c, "retry") /\ interval' = [interval EXCEPT ![c] = NextWait(@)]
    <3>1. attempt[c] \in Nat \ {0} /\ interval[c] = WaitAfter(attempt[c])
      BY <1>1, <2>1
    <3>2. interval'[c] = WaitAfter(attempt[c] + 1)
      BY <1>1, <2>3, <3>1, NextWaitFollows
    <3>3. at'[c] = "retry"
          /\ \A d \in Callbacks \ {c} : interval'[d] = interval[d] /\ at'[d] = at[d]
      BY <1>1, <2>3
    <3> QED
      BY <2>1, <3>2, <3>3
  <2> QED
    BY <1>6, <2>2, <2>3 DEF Backoff
<1>7. ASSUME NEW c \in Callbacks, DeadLetter(c) \/ DeadLetterFails(c) PROVE WaitInv'
  BY <1>1, <1>7 DEF DeadLetter, DeadLetterFails
<1>8. ASSUME NEW c \in Callbacks, Ack(c) \/ Nack(c) PROVE WaitInv'
  BY <1>1, <1>8 DEF Ack, Nack, Done
<1>9. CASE Restart
  BY <1>9 DEF Restart
<1>10. CASE \/ \E m \in Messages : Publish(m) \/ LeaseEnds(m) \/ LeaseEndsInHand(m)
            \/ Cancel \/ ReceiveReturns \/ Stop \/ UNCHANGED vars
  BY <1>3, <1>10
     DEF Publish, LeaseEnds, LeaseEndsInHand, Cancel, ReceiveReturns, Stop, vars, callbacks
<1> QED
  BY <1>4, <1>5, <1>6, <1>7, <1>8, <1>9, <1>10 DEF Next, Step

\* Whatever a topic's settings resolve to, the waits between the attempts at a
\* message are the first one and its multiples by the multiplier, the first of
\* them as it is and the others clamped to the longest.
THEOREM WaitsFollow == Spec => []WaitsFollowPolicy
<1>1. WaitInv => WaitsFollowPolicy
  BY DEF WaitInv, WaitsFollowPolicy
<1> QED
  BY <1>1, WaitInit, WaitNext, TypeInit, TypeNext, PTL DEF Spec

\* The longest wait there can be.
Longest == IF FirstWait > LongestWait THEN FirstWait ELSE LongestWait

\* A wait within the bounds is followed by one within them.
LEMMA NextWaitBounded ==
  ASSUME NEW wait \in 1 .. Longest
  PROVE  NextWait(wait) \in 1 .. Longest
<1>1. /\ FirstWait \in Nat \ {0} /\ LongestWait \in Nat \ {0} /\ Longest \in Nat
      /\ LongestWait <= Longest /\ Factor \in Nat /\ Factor >= 2
  BY PositiveWaits DEF Longest
<1>2. wait * Factor \in Nat \ {0}
  BY <1>1, Product
<1> QED
  BY <1>1, <1>2 DEF NextWait

\* Every wait is at least a second (never a busy loop) and none is longer than
\* InitialInterval or MaxInterval, however many attempts there are.
THEOREM WaitsHaveBounds == Spec => []WaitsBounded
<1>1. FirstWait \in 1 .. Longest
  BY PositiveWaits DEF Longest
<1>2. Init => WaitsBounded
  BY <1>1 DEF Init, WaitsBounded, Longest
<1>3. TypeInv /\ WaitsBounded /\ [Next]_vars => WaitsBounded'
  <2> SUFFICES ASSUME TypeInv, WaitsBounded, [Next]_vars, NEW c \in Callbacks
               PROVE  interval'[c] \in 1 .. Longest
    BY DEF WaitsBounded, Longest
  <2>1. interval \in [Callbacks -> Int] /\ interval[c] \in 1 .. Longest
    BY DEF TypeInv, TypeOK, WaitsBounded, Longest
  <2>2. ASSUME NEW d \in Callbacks, Step(d) PROVE interval'[c] \in 1 .. Longest
    <3>1. \/ UNCHANGED interval
          \/ interval' = [interval EXCEPT ![d] = NextWait(@)]
          \/ interval' = [interval EXCEPT ![d] = FirstWait]
      BY <2>2 DEF Step, Attempt, Backoff, DeadLetter, DeadLetterFails, Ack, Nack, Done
    <3>2. NextWait(interval[c]) \in 1 .. Longest
      BY <2>1, NextWaitBounded
    <3> QED
      BY <1>1, <2>1, <3>1, <3>2
  <2>3. CASE Restart
    BY <1>1, <2>3 DEF Restart
  <2>4. ASSUME UNCHANGED interval PROVE interval'[c] \in 1 .. Longest
    BY <2>1, <2>4
  <2> QED
    BY <2>2, <2>3, <2>4 DEF Next, Publish, LeaseEnds, LeaseEndsInHand, Deliver, Cancel,
       ReceiveReturns, Stop, vars, callbacks
<1> QED
  BY <1>2, <1>3, TypeInit, TypeNext, PTL DEF Spec

-----------------------------------------------------------------------------
(* Callbacks end: the half of the liveness properties without fairness     *)

\* A callback has a step left to make while it has a message, and a bounded number.
LEMMA StepsLeftType ==
  ASSUME TypeInv, WaitInv, NEW c \in Callbacks
  PROVE  /\ at[c] = "idle" => StepsLeft(c) = 0
         /\ at[c] # "idle" => StepsLeft(c) \in 1 .. 2 * Attempts + 1
<1>1. /\ at[c] \in Places /\ attempt[c] \in 0 .. Attempts /\ Attempts \in Nat \ {0}
      /\ at[c] \in {"retry", "backoff"} => attempt[c] < Attempts
      /\ at[c] = "backoff" => attempt[c] > 0
  BY AttemptsPositive DEF TypeInv, TypeOK, AttemptsLeft, WaitInv
<1> QED
  BY <1>1 DEF StepsLeft, Places

\* Each step of a callback leaves it fewer.
LEMMA StepRunsDown ==
  ASSUME TypeInv, WaitInv, NEW c \in Callbacks, Step(c)
  PROVE  StepsLeft(c)' < StepsLeft(c)
<1>1. /\ at \in [Callbacks -> Places] /\ attempt \in [Callbacks -> 0 .. Attempts]
      /\ Attempts \in Nat \ {0} /\ attempt[c] \in 0 .. Attempts
      /\ at[c] \in {"retry", "backoff"} => attempt[c] < Attempts
  BY AttemptsPositive DEF TypeInv, TypeOK, AttemptsLeft
<1>2. CASE Attempt(c)
  <2>1. at[c] = "retry" /\ StepsLeft(c) = 2 * (Attempts - attempt[c]) + 1
    BY <1>2 DEF Attempt, StepsLeft
  <2>2. CASE UNCHANGED attempt /\ (Go(c, "failed") \/ Go(c, "ack"))
    <3>1. at'[c] \in {"failed", "ack"}
      BY <1>1, <2>2 DEF Go
    <3>2. StepsLeft(c)' <= 2
      BY <3>1 DEF StepsLeft
    <3>3. 2 * (Attempts - attempt[c]) + 1 > 2
      BY <1>1, <2>1
    <3>4. StepsLeft(c)' \in Int
      BY <3>1 DEF StepsLeft
    <3> QED
      BY <1>1, <2>1, <3>2, <3>3, <3>4
  <2>3. CASE /\ attempt' = [attempt EXCEPT ![c] = @ + 1]
             /\ Go(c, IF LastAttempt(c) THEN "failed" ELSE "backoff")
    <3>1. attempt'[c] = attempt[c] + 1 /\ at'[c] \in {"failed", "backoff"}
      BY <1>1, <2>3 DEF Go
    <3>2. StepsLeft(c)' = 2 \/ StepsLeft(c)' = 2 * (Attempts - (attempt[c] + 1)) + 2
      BY <3>1 DEF StepsLeft
    <3> QED
      BY <1>1, <2>1, <3>2
  <2> QED
    BY <1>2, <2>2, <2>3 DEF Attempt, CallHandler
<1>3. CASE Backoff(c)
  <2>1. at[c] = "backoff" /\ StepsLeft(c) = 2 * (Attempts - attempt[c]) + 2
    BY <1>3 DEF Backoff, StepsLeft
  <2>2. attempt' = attempt /\ at'[c] \in {"retry", "failed"}
    BY <1>1, <1>3 DEF Backoff, Go
  <2>3. StepsLeft(c)' = 2 \/ StepsLeft(c)' = 2 * (Attempts - attempt[c]) + 1
    BY <2>2 DEF StepsLeft
  <2> QED
    BY <1>1, <2>1, <2>3
<1>4. CASE DeadLetter(c) \/ DeadLetterFails(c)
  <2>1. at[c] = "failed" /\ at'[c] \in {"ack", "nack"}
    BY <1>1, <1>4 DEF DeadLetter, DeadLetterFails, Go
  <2> QED
    BY <2>1 DEF StepsLeft
<1>5. CASE Ack(c) \/ Nack(c)
  <2>1. at[c] \in {"ack", "nack"} /\ at'[c] = "idle"
    BY <1>1, <1>5 DEF Ack, Nack, Done, Go
  <2> QED
    BY <2>1 DEF StepsLeft
<1> QED
  BY <1>2, <1>3, <1>4, <1>5 DEF Step

\* A callback returns after two steps for each attempt and one more, whatever the
\* handler answers and whatever becomes of context, lease and topic meanwhile:
\* WithRetry's loop cannot go on for ever, and what returns lets Receive return.
THEOREM EveryCallbackRunsDown == Spec => CallbacksRunDown
<1> DEFINE RunsDown(c) ==
      at[c] # "idle" =>
        /\ StepsLeft(c) \in 1 .. 2 * Attempts + 1
        /\ Step(c) => StepsLeft(c)' < StepsLeft(c)
        /\ StepsLeft(c)' <= StepsLeft(c)
<1>1. TypeInv /\ WaitInv /\ [Next]_vars => [\A c \in Callbacks : RunsDown(c)]_vars
  <2> SUFFICES ASSUME TypeInv, WaitInv, Next, NEW c \in Callbacks, at[c] # "idle"
               PROVE  RunsDown(c)
    OBVIOUS
  <2>1. StepsLeft(c) \in 1 .. 2 * Attempts + 1 /\ Attempts \in Nat
    BY StepsLeftType, AttemptsPositive
  <2>2. TypeInv' /\ WaitInv'
    BY TypeNext, WaitNext
  <2>3. StepsLeft(c)' \in Int
    <3>1. at'[c] = "idle" => StepsLeft(c)' = 0
      BY DEF StepsLeft
    <3>2. attempt'[c] \in Int /\ at'[c] \in Places
      BY <2>2 DEF TypeInv, TypeOK
    <3> QED
      BY <2>1, <3>1, <3>2 DEF StepsLeft, Places
  <2>4. CASE Step(c)
    BY <2>1, <2>3, <2>4, StepRunsDown
  <2>5. CASE ~Step(c)
    <3>1. \/ at'[c] = at[c] /\ attempt'[c] = attempt[c]
          \/ at'[c] = "idle"
      <4> USE DEF TypeInv, TypeOK, Go
      <4>1. ASSUME NEW d \in Callbacks, Step(d)
            PROVE  at'[c] = at[c] /\ attempt'[c] = attempt[c]
        <5>1. d # c
          BY <2>5, <4>1
        <5> QED
          BY <4>1, <5>1 DEF Step, Attempt, CallHandler, Backoff, DeadLetter, DeadLetterFails,
             Ack, Nack, Done
      <4>2. ASSUME NEW d \in Callbacks, NEW m \in Messages, Deliver(d, m)
            PROVE  at'[c] = at[c] /\ attempt'[c] = attempt[c]
        BY <4>2 DEF Deliver
      <4>3. CASE Restart
        BY <4>3 DEF Restart
      <4>4. CASE \/ \E m \in Messages : Publish(m) \/ LeaseEnds(m) \/ LeaseEndsInHand(m)
                 \/ Cancel \/ ReceiveReturns \/ Stop
        BY <4>4 DEF Publish, LeaseEnds, LeaseEndsInHand, Cancel, ReceiveReturns, Stop, callbacks
      <4> QED
        BY <4>1, <4>2, <4>3, <4>4 DEF Next
    <3>2. at'[c] = at[c] /\ attempt'[c] = attempt[c] => StepsLeft(c)' = StepsLeft(c)
      BY DEF StepsLeft
    <3>3. at'[c] = "idle" => StepsLeft(c)' = 0
      BY DEF StepsLeft
    <3> QED
      BY <2>1, <2>5, <3>1, <3>2, <3>3
  <2> QED
    BY <2>4, <2>5
<1> QED
  BY <1>1, TypeInit, TypeNext, WaitInit, WaitNext, PTL DEF Spec, CallbacksRunDown

-----------------------------------------------------------------------------
(* With no doubts                                                          *)

\* Nothing but a lost answer, a lease that ran out in hand or a restart casts doubt.
NoDoubt == MaxDoubts = 0 /\ MaxRestarts = 0

\* Then no message is ever doubted.
LEMMA NoDoubtNext == TypeInv /\ NoDoubt /\ doubted = {} /\ [Next]_vars => doubted' = {}
<1> SUFFICES ASSUME TypeInv, NoDoubt, doubted = {}, [Next]_vars PROVE doubted' = {}
  OBVIOUS
<1>1. doubts = 0 /\ restarts = 0
  BY DEF TypeInv, TypeOK, NoDoubt
<1>2. \A m : ~Doubt(m)
  BY <1>1 DEF Doubt, NoDoubt
<1>3. ~Restart
  BY <1>1 DEF Restart, NoDoubt
<1> QED
  BY <1>2, <1>3 DEF Next, Publish, LeaseEnds, LeaseEndsInHand, Deliver, Step, Attempt, Backoff,
     DeadLetter, DeadLetterFails, Ack, Nack, Cancel, ReceiveReturns, Stop, vars

\* Then an acknowledged message was handled or is a dead letter, and one only: what
\* HandledOrDead excepts has no other cause.
THEOREM ExactWhenSure == Spec => []SureIsExact
<1>1. Init => (NoDoubt => doubted = {})
  BY DEF Init
<1>2. TypeInv /\ (NoDoubt => doubted = {}) /\ [Next]_vars => (NoDoubt => doubted = {})'
  BY NoDoubtNext DEF NoDoubt
<1>3. TypeInv /\ HandledOrDead /\ AckInv /\ (NoDoubt => doubted = {}) => SureIsExact
  BY DEF TypeInv, TypeOK, HandledOrDead, AckInv, Over, SureIsExact, NoDoubt
<1> QED
  BY <1>1, <1>2, <1>3, HandledOrDeadHolds, AckInit, AckNext, TypeInit, TypeNext, PTL DEF Spec
=================================================================================
