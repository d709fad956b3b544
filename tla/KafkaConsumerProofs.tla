-------------------------- MODULE KafkaConsumerProofs --------------------------
(***************************************************************************)
(* What KafkaConsumer promises for any number of readers, messages,        *)
(* retries, rebalances and restarts, proved with TLAPS.                    *)
(*                                                                         *)
(* Three inductive invariants build on one another: types with what is     *)
(* left of the attempts; that everything in front of an owner and behind a *)
(* message in hand is accounted for (settled or given up); and, when the   *)
(* dead-letter topic takes what it is given, that it is settled.           *)
(***************************************************************************)
EXTENDS KafkaConsumer, TLAPS

\* The loop of r holds a message.
Busy(r) == at[r] \in {"retry", "backoff", "failed", "commit"}

AttemptsLeft ==
  \A r \in Readers :
    /\ at[r] \in {"top", "fetch", "ended"} => attempt[r] = 0
    /\ at[r] \in {"retry", "backoff"} => attempt[r] < Attempts
    /\ at[r] = "backoff" => attempt[r] > 0

TypeInv == TypeOK /\ AttemptsLeft

\* Attempts is a positive number, whatever MaxRetries is.
LEMMA AttemptsPositive == Attempts \in Nat \ {0}
BY KafkaAssumption DEF Attempts

\* A new behaviour starts with everything empty.
LEMMA TypeInit == Init => TypeInv
<1> SUFFICES ASSUME Init PROVE TypeInv
  OBVIOUS
<1> USE KafkaAssumption, AttemptsPositive DEF Init
<1>1. ctxDone \in BOOLEAN /\ stopCh \in BOOLEAN
  BY Zenon
<1>2. /\ at \in [Readers -> Places]
      /\ offset \in [Readers -> Nat] /\ attempt \in [Readers -> 0 .. Attempts]
  BY DEF Places
<1>3. AttemptsLeft
  BY DEF AttemptsLeft
<1>4. \A r \in Readers : at[r] \notin {"retry", "backoff", "failed", "commit"}
  OBVIOUS
<1>5. /\ rebalances \in 0 .. MaxRebalances /\ restarts \in 0 .. MaxRestarts
      /\ produced \in 0 .. MaxMessages /\ committed \in 0 .. produced /\ position \in 0 .. produced
  OBVIOUS
<1> QED
  BY <1>1, <1>2, <1>3, <1>4, <1>5 DEF TypeInv, TypeOK

\* Every action keeps the types, and no action makes an attempt beyond the last.
LEMMA TypeNext == TypeInv /\ [Next]_vars => TypeInv'
<1> SUFFICES ASSUME TypeInv, [Next]_vars PROVE TypeInv'
  OBVIOUS
<1> USE KafkaAssumption, AttemptsPositive
    DEF TypeInv, TypeOK, AttemptsLeft, Places, Offsets, broker, process, history
<1>1. CASE Produce
  BY <1>1 DEF Produce
<1>2. CASE Revoke
  BY <1>2 DEF Revoke
<1>3. CASE Cancel
  BY <1>3 DEF Cancel
<1>4. CASE Stop
  BY <1>4 DEF Stop
<1>5. CASE Restart
  <2> USE <1>5 DEF Restart
  <2>1. ctxDone' \in BOOLEAN /\ stopCh' \in BOOLEAN
    BY Zenon
  <2>2. /\ at' \in [Readers -> Places]
        /\ offset' \in [Readers -> Nat] /\ attempt' \in [Readers -> 0 .. Attempts]
    OBVIOUS
  <2>3. AttemptsLeft'
    OBVIOUS
  <2>4. \A r \in Readers : at'[r] \notin {"retry", "backoff", "failed", "commit"}
    OBVIOUS
  <2>5. rebalances' \in 0 .. MaxRebalances /\ restarts' \in 0 .. MaxRestarts
    OBVIOUS
  <2> QED
    BY <2>1, <2>2, <2>3, <2>4, <2>5
<1>6. ASSUME NEW r \in Readers, Assign(r) PROVE TypeInv'
  BY <1>6 DEF Assign
<1>7. ASSUME NEW r \in Readers, FetchErrs(r) PROVE TypeInv'
  BY <1>7 DEF FetchErrs, Go
<1>8. ASSUME NEW r \in Readers, Top(r) PROVE TypeInv'
  BY <1>8 DEF Top, End, Go
<1>9. ASSUME NEW r \in Readers, Fetch(r) PROVE TypeInv'
  BY <1>9 DEF Fetch, Go
<1>10. ASSUME NEW r \in Readers, FetchCancelled(r) PROVE TypeInv'
  BY <1>10 DEF FetchCancelled, End, Go
<1>11. ASSUME NEW r \in Readers, Attempt(r) PROVE TypeInv'
  <2>1. offset[r] \in Offsets
    BY <1>11 DEF Attempt
  <2>2. CASE ctxDone /\ Go(r, "failed") /\ UNCHANGED <<attempt, history>>
    BY <1>11, <2>2 DEF Attempt, Go
  <2>3. CASE CallHandler(r)
    <3>1. UNCHANGED <<broker, offset, process>> /\ at[r] = "retry"
      BY <1>11 DEF Attempt
    <3>2. CASE Settle(r) /\ Go(r, "commit") /\ UNCHANGED <<attempt, abandoned>>
      BY <2>1, <3>1, <3>2 DEF Settle, Go
    <3>3. CASE /\ attempt' = [attempt EXCEPT ![r] = @ + 1]
               /\ Go(r, IF LastAttempt(r) THEN "failed" ELSE "backoff")
               /\ UNCHANGED history
      <4>1. CASE LastAttempt(r)
        BY <3>1, <3>3, <4>1 DEF LastAttempt, Go
      <4>2. CASE ~LastAttempt(r)
        BY <3>1, <3>3, <4>2 DEF LastAttempt, Go
      <4> QED
        BY <4>1, <4>2
    <3> QED
      BY <2>3, <3>2, <3>3 DEF CallHandler
  <2> QED
    BY <1>11, <2>2, <2>3 DEF Attempt
<1>12. ASSUME NEW r \in Readers, Backoff(r) PROVE TypeInv'
  BY <1>12 DEF Backoff, Go
<1>13. ASSUME NEW r \in Readers, GiveUp(r) PROVE TypeInv'
  <2>1. offset[r] \in Offsets
    BY <1>13 DEF GiveUp
  <2>2. settled' \subseteq Offsets /\ abandoned' \subseteq Offsets
    BY <1>13, <2>1 DEF GiveUp, Settle
  <2>3. \/ /\ Go(r, "commit") /\ UNCHANGED <<offset, attempt>>
        \/ Leave(r, "top")
    BY <1>13 DEF GiveUp
  <2>4. UNCHANGED <<broker, process>>
    BY <1>13 DEF GiveUp
  <2>5. CASE Go(r, "commit") /\ UNCHANGED <<offset, attempt>>
    BY <1>13, <2>2, <2>4, <2>5 DEF GiveUp, Go
  <2>6. CASE Leave(r, "top")
    BY <2>2, <2>4, <2>6 DEF Leave, Go
  <2> QED
    BY <2>3, <2>5, <2>6
<1>14. ASSUME NEW r \in Readers, Commit(r) PROVE TypeInv'
  BY <1>14 DEF Commit, Leave, Go
<1>15. CASE UNCHANGED vars
  BY <1>15 DEF vars
<1> QED
  BY <1>1, <1>2, <1>3, <1>4, <1>5, <1>6, <1>7, <1>8, <1>9, <1>10, <1>11, <1>12,
     <1>13, <1>14, <1>15 DEF Next, Step

\* The types are right in every state the consumer can reach.
THEOREM TypeCorrect == Spec => []TypeOK
<1>1. TypeInv => TypeOK
  BY DEF TypeInv
<1> QED
  BY <1>1, TypeInit, TypeNext, PTL DEF Spec

-----------------------------------------------------------------------------
(* Nothing is given up before its time                                     *)

\* A delivery is given up only after all its attempts, or because the
\* context is cancelled: WithRetry never returns an error early.
THEOREM NeverGivesUpEarly == Spec => []GivesUpAfterRetries
<1>1. Init => GivesUpAfterRetries
  BY DEF Init, GivesUpAfterRetries
<1>2. TypeInv /\ GivesUpAfterRetries /\ [Next]_vars => GivesUpAfterRetries'
  <2> SUFFICES ASSUME TypeInv, GivesUpAfterRetries, [Next]_vars,
                      NEW r \in Readers, at'[r] = "failed"
               PROVE  attempt'[r] = Attempts \/ ctxDone'
    BY DEF GivesUpAfterRetries
  <2> USE DEF TypeInv, TypeOK, GivesUpAfterRetries, broker, process, history, Go
  <2>1. CASE Produce \/ Revoke \/ Cancel \/ Stop \/ Restart
    BY <2>1 DEF Produce, Revoke, Cancel, Stop, Restart
  <2>2. ASSUME NEW q \in Readers, Assign(q) \/ FetchErrs(q) \/ Top(q) \/ Fetch(q)
                                   \/ FetchCancelled(q)
        PROVE  attempt'[r] = Attempts \/ ctxDone'
    BY <2>2 DEF Assign, FetchErrs, Top, Fetch, FetchCancelled, End
  <2>3. ASSUME NEW q \in Readers, Attempt(q) PROVE attempt'[r] = Attempts \/ ctxDone'
    <3>1. CASE q = r
      BY <2>3, <3>1 DEF Attempt, CallHandler, LastAttempt
    <3>2. CASE q # r
      BY <2>3, <3>2 DEF Attempt, CallHandler
    <3> QED
      BY <3>1, <3>2
  <2>4. ASSUME NEW q \in Readers, Backoff(q) \/ GiveUp(q) \/ Commit(q)
        PROVE  attempt'[r] = Attempts \/ ctxDone'
    BY <2>4 DEF Backoff, GiveUp, Commit, Leave
  <2>5. CASE UNCHANGED vars
    BY <2>5 DEF vars
  <2> QED
    BY <2>1, <2>2, <2>3, <2>4, <2>5 DEF Next, Step
<1> QED
  BY <1>1, <1>2, TypeInit, TypeNext, PTL DEF Spec

-----------------------------------------------------------------------------
(* Every offset is accounted for, with S as what accounts for it           *)

\* Nothing is missing from S below the committed offset, below the message a
\* loop holds, or below what the owner fetches next; the exceptions are the
\* message in the owner's own hands, and an owner that is bound to end.
Accounted(S) ==
  /\ \A o \in Offsets : o < committed => o \in S
  /\ owner # NoReader =>
       \A o \in Offsets : o < position =>
         \/ o \in S
         \/ Busy(owner) /\ o = offset[owner]
         \/ ctxDone /\ at[owner] = "top"
  /\ \A r \in Readers : Busy(r) => \A o \in Offsets : o < offset[r] => o \in S
  /\ \A r \in Readers : at[r] = "commit" => offset[r] \in S

\* A loop takes its message to the commit only when it is accounted for, and
\* drops it unaccounted for only when its context is cancelled.
Honest(T) ==
  \A r \in Readers :
    /\ (Attempt(r) \/ GiveUp(r)) /\ at'[r] = "commit" => offset[r] \in T
    /\ GiveUp(r) /\ at'[r] = "top" => offset[r] \in T \/ ctxDone

\* Under that condition every step keeps the account.
LEMMA AccountedNext ==
  ASSUME NEW S, NEW T, S \subseteq T, TypeInv, Accounted(S), Honest(T), [Next]_vars
  PROVE  Accounted(T)'
<1> USE KafkaAssumption DEF TypeInv, TypeOK, Places, Offsets, broker, process, history, Go, Busy
<1>1. CASE Produce
  BY <1>1 DEF Produce, Accounted
<1>2. CASE Revoke
  BY <1>2 DEF Revoke, Accounted
<1>3. CASE Cancel
  BY <1>3 DEF Cancel, Accounted
<1>4. CASE Stop
  BY <1>4 DEF Stop, Accounted
<1>5. CASE Restart
  BY <1>5 DEF Restart, Accounted
<1>6. ASSUME NEW r \in Readers, Assign(r) PROVE Accounted(T)'
  BY <1>6 DEF Assign, Accounted
<1>7. ASSUME NEW r \in Readers, FetchErrs(r) PROVE Accounted(T)'
  BY <1>7 DEF FetchErrs, Accounted
<1>8. ASSUME NEW r \in Readers, Top(r) PROVE Accounted(T)'
  BY <1>8 DEF Top, End, Accounted
<1>9. ASSUME NEW r \in Readers, Fetch(r) PROVE Accounted(T)'
  BY <1>9 DEF Fetch, Accounted
<1>10. ASSUME NEW r \in Readers, FetchCancelled(r) PROVE Accounted(T)'
  BY <1>10 DEF FetchCancelled, End, Accounted
<1>11. ASSUME NEW r \in Readers, Attempt(r) PROVE Accounted(T)'
  BY <1>11 DEF Attempt, CallHandler, Accounted, Honest
<1>12. ASSUME NEW r \in Readers, Backoff(r) PROVE Accounted(T)'
  BY <1>12 DEF Backoff, Accounted
<1>13. ASSUME NEW r \in Readers, GiveUp(r) PROVE Accounted(T)'
  BY <1>13 DEF GiveUp, Leave, Accounted, Honest
<1>14. ASSUME NEW r \in Readers, Commit(r) PROVE Accounted(T)'
  BY <1>14 DEF Commit, Leave, Accounted
<1>15. CASE UNCHANGED vars
  BY <1>15 DEF vars, Accounted
<1> QED
  BY <1>1, <1>2, <1>3, <1>4, <1>5, <1>6, <1>7, <1>8, <1>9, <1>10, <1>11, <1>12,
     <1>13, <1>14, <1>15 DEF Next, Step

-----------------------------------------------------------------------------
(* What was skipped was given up; what was committed was settled           *)

Handled == settled \cup abandoned

\* A loop that moves to the commit has settled its message.
LEMMA CommitsSettled ==
  ASSUME NEW r \in Readers, TypeInv, Attempt(r) \/ GiveUp(r), at'[r] = "commit"
  PROVE  offset[r] \in settled'
<1> USE DEF TypeInv, TypeOK, Go, Settle
<1>1. CASE Attempt(r)
  BY <1>1 DEF Attempt, CallHandler
<1>2. CASE GiveUp(r)
  BY <1>2 DEF GiveUp, Leave
<1> QED
  BY <1>1, <1>2

\* The history variables only grow.
LEMMA HistoryGrows ==
  ASSUME TypeInv, [Next]_vars
  PROVE  settled \subseteq settled' /\ abandoned \subseteq abandoned'
<1> USE DEF history
<1>1. CASE Produce \/ Revoke \/ Cancel \/ Stop \/ Restart
  BY <1>1 DEF Produce, Revoke, Cancel, Stop, Restart
<1>2. ASSUME NEW r \in Readers,
             Assign(r) \/ FetchErrs(r) \/ Top(r) \/ Fetch(r) \/ FetchCancelled(r)
      PROVE  settled \subseteq settled' /\ abandoned \subseteq abandoned'
  BY <1>2 DEF Assign, FetchErrs, Top, Fetch, FetchCancelled, End
<1>3. ASSUME NEW r \in Readers, Attempt(r) \/ Backoff(r) \/ GiveUp(r) \/ Commit(r)
      PROVE  settled \subseteq settled' /\ abandoned \subseteq abandoned'
  BY <1>3 DEF Attempt, CallHandler, Settle, Backoff, GiveUp, Commit
<1>4. CASE UNCHANGED vars
  BY <1>4 DEF vars
<1> QED
  BY <1>1, <1>2, <1>3, <1>4 DEF Next, Step

\* An offset the group has committed past was settled, or failed all its attempts:
\* neither a rebalance nor a restart nor a second reader nor a cancelled context
\* skips a message, with dead letters or without.
THEOREM SkipsNothing == Spec => []NothingSkipped
<1>1. Init => Accounted(Handled)
  BY DEF Init, Accounted, Busy, Offsets
<1>2. TypeInv /\ GivesUpAfterRetries /\ Accounted(Handled) /\ [Next]_vars => Accounted(Handled)'
  <2> SUFFICES ASSUME TypeInv, GivesUpAfterRetries, Accounted(Handled), [Next]_vars
               PROVE  Accounted(Handled)'
    OBVIOUS
  <2>1. PICK S, T : S = Handled /\ T = Handled'
    OBVIOUS
  <2>2. S \subseteq T
    BY <2>1, HistoryGrows DEF Handled
  <2>3. ASSUME NEW r \in Readers, GiveUp(r), at'[r] = "top" PROVE offset[r] \in T \/ ctxDone
    <3>1. attempt[r] = Attempts \/ ctxDone
      BY <2>3 DEF GiveUp, GivesUpAfterRetries
    <3>2. attempt[r] = Attempts => offset[r] \in abandoned'
      BY <2>3 DEF GiveUp, Go, TypeInv, TypeOK
    <3> QED
      BY <2>1, <3>1, <3>2 DEF Handled
  <2>4. Honest(T)
    BY <2>1, <2>3, CommitsSettled DEF Honest, Handled
  <2>5. Accounted(S)
    BY <2>1
  <2>6. Accounted(T)'
    BY <2>2, <2>4, <2>5, AccountedNext
  <2> QED
    BY <2>1, <2>6
<1>3. Accounted(Handled) => NothingSkipped
  BY DEF Accounted, Handled, NothingSkipped
<1> QED
  BY <1>1, <1>2, <1>3, NeverGivesUpEarly, TypeInit, TypeNext, PTL DEF Spec

Reliable == EnableDLQ /\ ~DlqMayFail

\* With dead letters that their topic takes, only a cancelled context makes a
\* loop drop a message, and such a loop ends before it commits anything else.
LEMMA SettledNext ==
  ASSUME Reliable, TypeInv, Accounted(settled), [Next]_vars
  PROVE  Accounted(settled)'
<1>1. PICK S, T : S = settled /\ T = settled'
  OBVIOUS
<1>2. S \subseteq T
  BY <1>1, HistoryGrows
<1>3. ASSUME NEW r \in Readers, GiveUp(r), at'[r] = "top" PROVE ctxDone
  BY <1>3 DEF GiveUp, Go, TypeInv, TypeOK, Reliable
<1>4. Honest(T)
  BY <1>1, <1>3, CommitsSettled DEF Honest
<1>5. Accounted(S)
  BY <1>1
<1>6. Accounted(T)'
  BY <1>2, <1>4, <1>5, AccountedNext
<1> QED
  BY <1>1, <1>6

\* At the start no offset is committed.
LEMMA SettledInit == Init => Accounted(settled)
BY DEF Init, Accounted, Busy, Offsets

\* No message is lost: what the group has committed past, somebody settled.
THEOREM LosesNothing == Spec => []NothingLost
<1>1. CASE Reliable
  <2>1. TypeInv /\ Accounted(settled) /\ [Next]_vars => Accounted(settled)'
    BY <1>1, SettledNext
  <2>2. Accounted(settled) => NothingLost
    BY DEF Accounted, NothingLost
  <2> QED
    BY <2>1, <2>2, SettledInit, TypeInit, TypeNext, PTL DEF Spec
<1>2. CASE ~Reliable
  <2>1. NothingLost
    BY <1>2 DEF Reliable, NothingLost
  <2> QED
    BY <2>1, PTL
<1> QED
  BY <1>1, <1>2

-----------------------------------------------------------------------------
(* One hand while assigned                                                 *)

Assigned == rebalances = 0 /\ restarts = 0 /\ ~ctxDone /\ ~stopCh

\* As long as the partition is not taken from its owner, only that reader holds
\* a message, the last it has fetched; everything settled or given up is behind it,
\* and before there is an owner nothing is.
InOneHand ==
  /\ owner = NoReader => position = 0 /\ settled = {} /\ abandoned = {} /\ \A r \in Readers : ~Busy(r)
  /\ \A r \in Readers : Busy(r) => owner = r /\ offset[r] + 1 = position
  /\ \A o \in settled \cup abandoned : o < position
  /\ \A r \in Readers : at[r] \in {"retry", "backoff", "failed"} =>
       \A o \in settled \cup abandoned : o < offset[r]
  /\ committed <= position

AssignedInv == Assigned => InOneHand

\* What the one reader does with its message leaves that in one hand: it is not
\* settled and given up before it is on its way to the commit or let go.
LEMMA InHandStep ==
  ASSUME InOneHand, position \in Nat, NEW r \in Readers, offset[r] \in Nat,
         at[r] \in {"retry", "backoff", "failed"},
         UNCHANGED <<owner, position, committed>>,
         \A q \in Readers : q # r => at'[q] = at[q] /\ offset'[q] = offset[q],
         settled' \cup abandoned' \subseteq settled \cup abandoned \cup {offset[r]},
         Busy(r)' => offset'[r] = offset[r],
         at'[r] \in {"retry", "backoff", "failed"} => UNCHANGED <<settled, abandoned>>
  PROVE  InOneHand'
<1>1. /\ owner = r /\ owner # NoReader /\ offset[r] + 1 = position /\ offset[r] < position
      /\ \A o \in settled \cup abandoned : o < offset[r]
      /\ \A q \in Readers : Busy(q) => q = r
  BY KafkaAssumption DEF InOneHand, Busy
<1>2. \A o \in settled' \cup abandoned' : o < position
  BY <1>1 DEF InOneHand
<1>3. \A q \in Readers : Busy(q)' => q = r /\ offset'[q] = offset[q]
  BY <1>1 DEF Busy
<1>4. ASSUME NEW q \in Readers, at'[q] \in {"retry", "backoff", "failed"}
      PROVE  \A o \in settled' \cup abandoned' : o < offset'[q]
  BY <1>1, <1>3, <1>4 DEF Busy
<1> QED
  BY <1>1, <1>2, <1>3, <1>4 DEF InOneHand

\* What has taken the partition away is not undone.
LEMMA AssignedBefore ==
  ASSUME TypeInv, [Next]_vars, Assigned'
  PROVE  Assigned
<1> USE DEF TypeInv, TypeOK, Assigned, broker, process
<1>1. CASE Produce \/ Revoke \/ Cancel \/ Stop \/ Restart
  BY <1>1 DEF Produce, Revoke, Cancel, Stop, Restart
<1>2. ASSUME NEW r \in Readers,
             Assign(r) \/ FetchErrs(r) \/ Top(r) \/ Fetch(r) \/ FetchCancelled(r)
      PROVE  Assigned
  BY <1>2 DEF Assign, FetchErrs, Top, Fetch, FetchCancelled, End
<1>3. ASSUME NEW r \in Readers, Attempt(r) \/ Backoff(r) \/ GiveUp(r) \/ Commit(r)
      PROVE  Assigned
  BY <1>3 DEF Attempt, Backoff, GiveUp, Commit
<1>4. CASE UNCHANGED vars
  BY <1>4 DEF vars
<1> QED
  BY <1>1, <1>2, <1>3, <1>4 DEF Next, Step

\* Until then every step leaves one reader with one message.
LEMMA AssignedNext == TypeInv /\ AssignedInv /\ [Next]_vars => AssignedInv'
<1> SUFFICES ASSUME TypeInv, InOneHand, [Next]_vars, Assigned' PROVE InOneHand'
  BY AssignedBefore DEF AssignedInv
<1> USE KafkaAssumption DEF TypeInv, TypeOK, Assigned, broker, process, history, Go
<1>1. CASE Produce
  BY <1>1 DEF InOneHand, Busy, Produce
<1>2. CASE Revoke \/ Restart \/ Cancel \/ Stop
  BY <1>2 DEF Revoke, Restart, Cancel, Stop
<1>3. ASSUME NEW r \in Readers, Assign(r) PROVE InOneHand'
  BY <1>3 DEF InOneHand, Busy, Assign
<1>4. ASSUME NEW r \in Readers, FetchErrs(r) PROVE InOneHand'
  BY <1>4 DEF InOneHand, Busy, FetchErrs
<1>5. ASSUME NEW r \in Readers, Top(r) \/ FetchCancelled(r) PROVE InOneHand'
  BY <1>5 DEF InOneHand, Busy, Top, FetchCancelled, End
<1>6. ASSUME NEW r \in Readers, Fetch(r) PROVE InOneHand'
  <2>1. /\ owner = r /\ owner # NoReader /\ at' = [at EXCEPT ![r] = "retry"]
        /\ offset' = [offset EXCEPT ![r] = position] /\ position' = position + 1
        /\ position \in Nat /\ committed \in Nat
        /\ UNCHANGED <<owner, committed, settled, abandoned>>
    BY <1>6 DEF Fetch
  <2>2. \A q \in Readers : ~Busy(q)
    BY <1>6, <2>1 DEF InOneHand, Busy, Fetch
  <2>3. \A o \in settled \cup abandoned : o < position /\ o < position + 1
    BY <2>1 DEF InOneHand, Offsets
  <2>4. \A q \in Readers : at'[q] = IF q = r THEN "retry" ELSE at[q]
    BY <2>1
  <2>5. \A q \in Readers : Busy(q)' => q = r
    BY <2>2, <2>4 DEF Busy
  <2> QED
    BY <2>1, <2>3, <2>4, <2>5 DEF InOneHand, Busy
<1>7. ASSUME NEW r \in Readers, Attempt(r) PROVE InOneHand'
  <2>1. /\ UNCHANGED <<owner, position, committed, offset>>
        /\ \A q \in Readers : q # r => at'[q] = at[q] /\ offset'[q] = offset[q]
    BY <1>7 DEF Attempt, CallHandler
  <2>2. \/ at'[r] = "commit" /\ settled' = settled \cup {offset[r]} /\ UNCHANGED abandoned
        \/ UNCHANGED <<settled, abandoned>>
    BY <1>7 DEF Attempt, CallHandler, Settle
  <2>3. at[r] \in {"retry", "backoff", "failed"} /\ offset[r] \in Nat /\ position \in Nat
    BY <1>7 DEF Attempt
  <2> QED
    BY <2>1, <2>2, <2>3, InHandStep
<1>8. ASSUME NEW r \in Readers, Backoff(r) PROVE InOneHand'
  BY <1>8 DEF InOneHand, Busy, Backoff
<1>9. ASSUME NEW r \in Readers, GiveUp(r) PROVE InOneHand'
  <2>1. /\ UNCHANGED <<owner, position, committed>>
        /\ \A q \in Readers : q # r => at'[q] = at[q] /\ offset'[q] = offset[q]
    BY <1>9 DEF GiveUp, Leave
  <2>2. settled' \cup abandoned' \subseteq settled \cup abandoned \cup {offset[r]}
    BY <1>9 DEF GiveUp, Settle
  <2>3. at'[r] = "top" \/ (at'[r] = "commit" /\ offset'[r] = offset[r])
    <3>1. Leave(r, "top") \/ (Go(r, "commit") /\ UNCHANGED offset)
      BY <1>9 DEF GiveUp
    <3> QED
      BY <3>1 DEF Leave
  <2>4. at[r] \in {"retry", "backoff", "failed"} /\ offset[r] \in Nat /\ position \in Nat
    BY <1>9 DEF GiveUp
  <2>5. Busy(r)' => offset'[r] = offset[r]
    BY <2>3 DEF Busy
  <2>6. at'[r] \notin {"retry", "backoff", "failed"}
    BY <2>3
  <2> QED
    BY <2>1, <2>2, <2>4, <2>5, <2>6, InHandStep
<1>10. ASSUME NEW r \in Readers, Commit(r) PROVE InOneHand'
  BY <1>10 DEF InOneHand, Busy, Commit, Leave
<1>11. CASE UNCHANGED vars
  BY <1>11 DEF InOneHand, Busy, vars
<1> QED
  BY <1>1, <1>2, <1>3, <1>4, <1>5, <1>6, <1>7, <1>8, <1>9, <1>10, <1>11 DEF Next, Step

\* A message is in a second hand, handled out of order or handled again after it
\* was settled or given up, only once the partition has been taken from a reader.
THEOREM OneHand == Spec => []OneHandWhileAssigned
<1>1. Init => AssignedInv
  BY DEF Init, AssignedInv, InOneHand, Busy
<1>2. AssignedInv => OneHandWhileAssigned
  BY DEF AssignedInv, Assigned, InOneHand, Busy, OneHandWhileAssigned
<1> QED
  BY <1>1, <1>2, AssignedNext, TypeInit, TypeNext, PTL DEF Spec

-----------------------------------------------------------------------------
(* Handling ends: the half of the liveness properties without fairness     *)

\* A reader with a message has a step left to make, and a bounded number.
LEMMA StepsLeftType ==
  ASSUME TypeInv, NEW r \in Readers
  PROVE  /\ at[r] \in {"top", "fetch", "ended"} => StepsLeft(r) = 0
         /\ at[r] \notin {"top", "fetch", "ended"} => StepsLeft(r) \in 1 .. 2 * Attempts + 1
<1>1. /\ at[r] \in Places /\ attempt[r] \in 0 .. Attempts /\ Attempts \in Nat \ {0}
      /\ at[r] \in {"retry", "backoff"} => attempt[r] < Attempts
      /\ at[r] = "backoff" => attempt[r] > 0
  BY AttemptsPositive DEF TypeInv, TypeOK, AttemptsLeft
<1> QED
  BY <1>1 DEF StepsLeft, Places

\* Each step it makes leaves it fewer.
LEMMA StepRunsDown ==
  ASSUME TypeInv, NEW r \in Readers, Step(r), at[r] \notin {"top", "fetch", "ended"}
  PROVE  StepsLeft(r)' < StepsLeft(r)
<1>1. /\ at \in [Readers -> Places] /\ attempt \in [Readers -> 0 .. Attempts]
      /\ Attempts \in Nat \ {0} /\ attempt[r] \in 0 .. Attempts
      /\ at[r] \in {"retry", "backoff"} => attempt[r] < Attempts
  BY AttemptsPositive DEF TypeInv, TypeOK, AttemptsLeft
<1>2. CASE Attempt(r)
  <2>1. at[r] = "retry" /\ StepsLeft(r) = 2 * (Attempts - attempt[r]) + 1
    BY <1>2 DEF Attempt, StepsLeft
  <2>2. CASE UNCHANGED attempt /\ (Go(r, "failed") \/ Go(r, "commit"))
    <3>1. at'[r] \in {"failed", "commit"}
      BY <1>1, <2>2 DEF Go
    <3>2. StepsLeft(r)' \in 1 .. 2
      BY <3>1 DEF StepsLeft
    <3>3. 2 * (Attempts - attempt[r]) + 1 > 2
      BY <1>1, <2>1
    <3> QED
      BY <1>1, <2>1, <3>2, <3>3
  <2>3. CASE /\ attempt' = [attempt EXCEPT ![r] = @ + 1]
             /\ Go(r, IF LastAttempt(r) THEN "failed" ELSE "backoff")
    <3>1. attempt'[r] = attempt[r] + 1 /\ at'[r] \in {"failed", "backoff"}
      BY <1>1, <2>3 DEF Go
    <3>2. StepsLeft(r)' = 2 \/ StepsLeft(r)' = 2 * (Attempts - (attempt[r] + 1)) + 2
      BY <3>1 DEF StepsLeft
    <3> QED
      BY <1>1, <2>1, <3>2
  <2> QED
    BY <1>2, <2>2, <2>3 DEF Attempt, CallHandler
<1>3. CASE Backoff(r)
  <2>1. at[r] = "backoff" /\ StepsLeft(r) = 2 * (Attempts - attempt[r]) + 2
    BY <1>3 DEF Backoff, StepsLeft
  <2>2. attempt' = attempt /\ at'[r] \in {"retry", "failed"}
    BY <1>1, <1>3 DEF Backoff, Go
  <2>3. StepsLeft(r)' = 2 \/ StepsLeft(r)' = 2 * (Attempts - attempt[r]) + 1
    BY <2>2 DEF StepsLeft
  <2> QED
    BY <1>1, <2>1, <2>3
<1>4. CASE GiveUp(r)
  <2>1. at[r] = "failed" /\ (Go(r, "commit") \/ Go(r, "top"))
    BY <1>4 DEF GiveUp, Leave
  <2>2. at'[r] \in {"commit", "top"}
    BY <1>1, <2>1 DEF Go
  <2> QED
    BY <2>1, <2>2 DEF StepsLeft
<1>5. CASE Commit(r)
  <2>1. at[r] = "commit" /\ at'[r] = "top"
    BY <1>1, <1>5 DEF Commit, Leave, Go
  <2> QED
    BY <2>1 DEF StepsLeft
<1> QED
  BY <1>2, <1>3, <1>4, <1>5 DEF Step, Top, Fetch, FetchCancelled

\* A reader is done with a message after two steps for each attempt and one, however
\* often the partition changes hands meanwhile: WithRetry's loop and what follows it
\* cannot go on for ever.
THEOREM EveryHandlingRunsDown == Spec => HandlingRunsDown
<1> DEFINE Idle == {"top", "fetch", "ended"}
           RunsDown(r) ==
             at[r] \notin {"top", "fetch", "ended"} =>
               /\ StepsLeft(r) \in 1 .. 2 * Attempts + 1
               /\ Step(r) => StepsLeft(r)' < StepsLeft(r)
               /\ StepsLeft(r)' <= StepsLeft(r)
<1>1. TypeInv /\ [Next]_vars => [\A r \in Readers : RunsDown(r)]_vars
  <2> SUFFICES ASSUME TypeInv, Next, NEW r \in Readers, at[r] \notin Idle
               PROVE  RunsDown(r)
    OBVIOUS
  <2>1. StepsLeft(r) \in 1 .. 2 * Attempts + 1 /\ Attempts \in Nat
    BY StepsLeftType, AttemptsPositive
  <2>2. TypeInv'
    BY TypeNext
  <2>3. StepsLeft(r)' \in Int
    <3>1. attempt'[r] \in Int /\ at'[r] \in Places
      BY <2>2 DEF TypeInv, TypeOK
    <3> QED
      BY <2>1, <3>1 DEF StepsLeft, Places
  <2>4. CASE Step(r)
    BY <2>1, <2>3, <2>4, StepRunsDown
  <2>5. CASE ~Step(r)
    <3>1. (at'[r] = at[r] /\ attempt'[r] = attempt[r]) \/ at'[r] \in Idle
      <4> USE DEF TypeInv, TypeOK, Go
      <4>1. ASSUME NEW q \in Readers, Step(q)
            PROVE  at'[r] = at[r] /\ attempt'[r] = attempt[r]
        <5>1. q # r
          BY <2>5, <4>1
        <5> QED
          BY <4>1, <5>1 DEF Step, Top, End, Fetch, FetchCancelled, Attempt, CallHandler,
             Backoff, GiveUp, Commit, Leave
      <4>2. ASSUME NEW q \in Readers, Assign(q) \/ FetchErrs(q)
            PROVE  at'[r] = at[r] /\ attempt'[r] = attempt[r]
        BY <4>2 DEF Assign, FetchErrs
      <4>3. CASE Restart
        BY <4>3 DEF Restart
      <4>4. CASE Produce \/ Revoke \/ Cancel \/ Stop
        BY <4>4 DEF Produce, Revoke, Cancel, Stop
      <4> QED
        BY <4>1, <4>2, <4>3, <4>4 DEF Next
    <3>2. at'[r] = at[r] /\ attempt'[r] = attempt[r] => StepsLeft(r)' = StepsLeft(r)
      BY DEF StepsLeft
    <3>3. at'[r] \in Idle => StepsLeft(r)' = 0
      BY DEF StepsLeft
    <3> QED
      BY <2>1, <2>5, <3>1, <3>2, <3>3
  <2> QED
    BY <2>4, <2>5
<1> QED
  BY <1>1, TypeInit, TypeNext, PTL DEF Spec, HandlingRunsDown

-----------------------------------------------------------------------------
(* The adapter implements AtLeastOnce                                      *)

Sent     == {o \in Offsets : o < produced}
Released == {o \in Offsets : o < committed}

\* A message a loop holds was sent.
LEMMA HeldWasSent ==
  ASSUME TypeInv, NEW r \in Readers, Busy(r)
  PROVE  offset[r] \in Sent
BY KafkaAssumption DEF TypeInv, TypeOK, Busy, Sent, Offsets

\* Every step of the consumer sends, settles, releases, or changes nothing
\* that AtLeastOnce speaks of.
LEMMA PromiseStep ==
  ASSUME TypeInv, Accounted(settled), Accounted(settled)', [Next]_vars
  PROVE  \/ produced < MaxMessages /\ produced' = produced + 1 /\ UNCHANGED <<settled, committed>>
         \/ /\ \E o \in Sent : settled' = settled \cup {o}
            /\ UNCHANGED <<produced, committed>>
         \/ Released' \subseteq settled /\ UNCHANGED <<produced, settled>>
         \/ UNCHANGED <<produced, settled, committed>>
<1> USE DEF broker, history, Busy
<1>1. CASE Produce
  BY <1>1 DEF Produce
<1>2. CASE Revoke \/ Cancel \/ Stop \/ Restart
  BY <1>2 DEF Revoke, Cancel, Stop, Restart
<1>3. ASSUME NEW r \in Readers,
             Assign(r) \/ FetchErrs(r) \/ Top(r) \/ Fetch(r) \/ FetchCancelled(r) \/ Backoff(r)
      PROVE  UNCHANGED <<produced, settled, committed>>
  BY <1>3 DEF Assign, FetchErrs, Top, Fetch, FetchCancelled, End, Backoff
<1>4. ASSUME NEW r \in Readers, Attempt(r) \/ GiveUp(r)
      PROVE  /\ UNCHANGED <<produced, committed>>
             /\ UNCHANGED settled \/ \E o \in Sent : settled' = settled \cup {o}
  <2>1. UNCHANGED <<produced, committed>>
    BY <1>4 DEF Attempt, GiveUp
  <2>2. offset[r] \in Sent
    BY <1>4, HeldWasSent DEF Attempt, GiveUp
  <2>3. UNCHANGED settled \/ Settle(r)
    BY <1>4 DEF Attempt, CallHandler, GiveUp
  <2> QED
    BY <2>1, <2>2, <2>3 DEF Settle
<1>5. ASSUME NEW r \in Readers, Commit(r)
      PROVE  Released' \subseteq settled /\ UNCHANGED <<produced, settled>>
  BY <1>5 DEF Commit, Accounted, Released, Offsets
<1>6. CASE UNCHANGED vars
  BY <1>6 DEF vars
<1> QED
  BY <1>1, <1>2, <1>3, <1>4, <1>5, <1>6 DEF Next, Step

\* Every broker adapter owes at-least-once delivery; this one gives it, when a
\* dead letter never fails but for a cancelled context.
THEOREM ImplementsAtLeastOnce ==
  ASSUME EnableDLQ, ~DlqMayFail
  PROVE  Spec => KeepsPromise
<1> USE KafkaAssumption
<1>1. Init => Promise!Init
  BY DEF Init, Promise!Init, Offsets
<1>2. /\ TypeInv /\ Accounted(settled)
      /\ TypeInv' /\ Accounted(settled)'
      /\ [Next]_vars
      => [Promise!Next]_(Promise!vars)
  <2> SUFFICES ASSUME TypeInv, Accounted(settled), TypeInv', Accounted(settled)', [Next]_vars
               PROVE  [Promise!Next]_(Promise!vars)
    OBVIOUS
  <2> USE DEF Promise!vars
  <2>1. CASE /\ produced < MaxMessages /\ produced' = produced + 1
             /\ UNCHANGED <<settled, committed>>
    <3>1. PICK o \in Offsets : o = produced
      BY <2>1 DEF TypeInv, TypeOK, Offsets
    <3>2. Promise!Send(o)
      BY <2>1, <3>1 DEF Promise!Send, TypeInv, TypeOK, Offsets
    <3> QED
      BY <3>1, <3>2 DEF Promise!Next
  <2>2. CASE /\ \E o \in Sent : settled' = settled \cup {o}
             /\ UNCHANGED <<produced, committed>>
    <3>1. PICK o \in Sent : settled' = settled \cup {o}
      BY <2>2
    <3>2. Promise!Settle(o)
      BY <2>2, <3>1 DEF Promise!Settle, Sent
    <3> QED
      BY <3>1, <3>2 DEF Sent, Promise!Next
  <2>3. CASE Released' \subseteq settled /\ UNCHANGED <<produced, settled>>
    BY <2>3 DEF Promise!Release, Promise!Next, Released
  <2>4. CASE UNCHANGED <<produced, settled, committed>>
    BY <2>4
  <2> QED
    BY <2>1, <2>2, <2>3, <2>4, PromiseStep
<1>3. TypeInv /\ Accounted(settled) /\ [Next]_vars => Accounted(settled)'
  BY SettledNext DEF Reliable
<1> QED
  BY <1>1, <1>2, <1>3, SettledInit, TypeInit, TypeNext, PTL
     DEF Spec, KeepsPromise, Promise!Spec
================================================================================
