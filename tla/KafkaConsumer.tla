----------------------------- MODULE KafkaConsumer -----------------------------
(***************************************************************************)
(* The Kafka adapter (pkg/messaging/kafka/consumer.go) with WithRetry      *)
(* (pkg/messaging/retry.go): the readers of one process, all of one        *)
(* consumer group, on one partition of the topic.                          *)
(*                                                                         *)
(* kafka-go and the broker are external: a partition has one owner at a    *)
(* time, a new owner starts at the committed offset, committing an offset  *)
(* covers every smaller one, and a commit may fail (its error is ignored). *)
(***************************************************************************)
EXTENDS Integers, Handling

CONSTANTS
  Readers,        \* one per Policy.ConcurrentConsumers
  MaxRetries,     \* Policy.MaxRetries
  EnableDLQ,      \* Policy.EnableDLQ
  DlqMayFail,     \* whether writing to the dead-letter topic can fail by itself
  Results,        \* the outcomes an endpoint can have
  NoReader,
  MaxMessages,    \* bound: messages produced
  MaxRebalances,  \* bound: times the partition is revoked
  MaxRestarts     \* bound: restarts of the process

Offsets == 0 .. MaxMessages - 1

\* attempts := policy.MaxRetries + 1, at least one
Attempts == IF MaxRetries + 1 < 1 THEN 1 ELSE MaxRetries + 1

ASSUME KafkaAssumption ==
  /\ NoReader \notin Readers
  /\ MaxRetries \in Int
  /\ EnableDLQ \in BOOLEAN /\ DlqMayFail \in BOOLEAN
  /\ Results \subseteq Outcomes
  /\ MaxMessages \in Nat /\ MaxRebalances \in Nat /\ MaxRestarts \in Nat

VARIABLES
  produced,    \* how many messages the partition holds
  committed,   \* the group's committed offset
  owner,       \* the reader the partition is assigned to
  position,    \* the next offset the owner fetches
  at,          \* where the loop of each reader is
  offset,      \* the message a reader works on
  attempt,     \* failed attempts at it (WithRetry's i)
  ctxDone,     \* the context the consumer was started with is cancelled
  stopCh,      \* Stop has closed stopCh
  rebalances, restarts,
  (* history: no step of the program reads these *)
  settled,     \* messages the handler has settled, or the dead-letter topic has
  abandoned    \* messages that failed all their attempts and had no dead letter confirmed

vars == <<produced, committed, owner, position, at, offset, attempt, ctxDone,
          stopCh, rebalances, restarts, settled, abandoned>>
broker == <<produced, committed, owner, position, rebalances>>
process == <<ctxDone, stopCh, restarts>>
history == <<settled, abandoned>>

Places == {"top", "fetch", "retry", "backoff", "failed", "commit", "ended"}

Go(r, place) == at' = [at EXCEPT ![r] = place]

\* The loop starts over, or returns: the message and WithRetry's locals are gone.
Leave(r, place) ==
  /\ Go(r, place)
  /\ offset' = [offset EXCEPT ![r] = 0]
  /\ attempt' = [attempt EXCEPT ![r] = 0]

-----------------------------------------------------------------------------
(* The broker                                                              *)

Produce ==
  /\ produced < MaxMessages
  /\ produced' = produced + 1
  /\ UNCHANGED <<committed, owner, position, at, offset, attempt, process, rebalances, history>>

Assign(r) ==
  /\ owner = NoReader /\ at[r] # "ended"
  /\ owner' = r
  /\ position' = committed
  /\ UNCHANGED <<produced, committed, at, offset, attempt, process, rebalances, history>>

\* A rebalance takes the partition from a reader, which may be in mid-message.
Revoke ==
  /\ owner # NoReader /\ rebalances < MaxRebalances
  /\ owner' = NoReader
  /\ rebalances' = rebalances + 1
  /\ UNCHANGED <<produced, committed, position, at, offset, attempt, process, history>>

-----------------------------------------------------------------------------
(* consumeLoop                                                             *)

\* The loop returns, and closing the reader gives the partition back.
End(r) ==
  /\ Go(r, "ended")
  /\ owner' = IF owner = r THEN NoReader ELSE owner
  /\ UNCHANGED <<produced, committed, position, offset, attempt, process, rebalances, history>>

\* mutant: the loop does not look at ctx and stopCh before it fetches again.
Top_LooksAtNothing(r) ==
  /\ at[r] = "top"
  /\ Go(r, "fetch")
  /\ UNCHANGED <<broker, offset, attempt, process, history>>

Top(r) ==
  /\ at[r] = "top"
  /\ \/ /\ ctxDone \/ stopCh
        /\ End(r)
     \/ /\ ~ctxDone /\ ~stopCh
        /\ Go(r, "fetch")
        /\ UNCHANGED <<broker, offset, attempt, process, history>>

\* FetchMessage waits for a message or for the context, not for stopCh.
Fetch(r) ==
  /\ at[r] = "fetch" /\ owner = r /\ position < produced
  /\ offset' = [offset EXCEPT ![r] = position]
  /\ position' = position + 1
  /\ Go(r, "retry")
  /\ UNCHANGED <<produced, committed, owner, attempt, process, rebalances, history>>

FetchCancelled(r) == at[r] = "fetch" /\ ctxDone /\ End(r)

\* mutant: any error of FetchMessage ends the loop.
FetchErrs_Ends(r) == at[r] = "fetch" /\ End(r)

\* Any other error of FetchMessage: continue.
FetchErrs(r) ==
  /\ at[r] = "fetch"
  /\ Go(r, "top")
  /\ UNCHANGED <<broker, offset, attempt, process, history>>

Settle(r) == settled' = settled \cup {offset[r]}

\* mutant: i == attempts.
LastAttempt_OneTooMany(r) == attempt[r] = Attempts

\* i == attempts-1
LastAttempt(r) == attempt[r] + 1 = Attempts

\* mutant: an attempt that succeeds is not the last.
CallHandler_TriesAgain(r) ==
  \E result \in Results :
    /\ IF Acknowledges(result) THEN Settle(r) ELSE UNCHANGED settled
    /\ attempt' = [attempt EXCEPT ![r] = @ + 1]
    /\ Go(r, IF ~LastAttempt(r) THEN "backoff" ELSE IF Acknowledges(result) THEN "commit" ELSE "failed")
    /\ UNCHANGED abandoned

CallHandler(r) ==
  \E result \in Results :
    \/ /\ Acknowledges(result)
       /\ Settle(r)
       /\ Go(r, "commit")
       /\ UNCHANGED <<attempt, abandoned>>
    \/ /\ ~Acknowledges(result)
       /\ attempt' = [attempt EXCEPT ![r] = @ + 1]
       /\ Go(r, IF LastAttempt(r) THEN "failed" ELSE "backoff")
       /\ UNCHANGED history

\* mutant: WithRetry returns lastErr, nil so far, when the context is done.
Attempt_NilWhenDone(r) ==
  /\ at[r] = "retry"
  /\ \/ ctxDone /\ Go(r, "commit") /\ UNCHANGED <<attempt, history>>
     \/ ~ctxDone /\ CallHandler(r)
  /\ UNCHANGED <<broker, offset, process>>

\* The body of WithRetry's loop.
Attempt(r) ==
  /\ at[r] = "retry"
  /\ \/ ctxDone /\ Go(r, "failed") /\ UNCHANGED <<attempt, history>>
     \/ ~ctxDone /\ CallHandler(r)
  /\ UNCHANGED <<broker, offset, process>>

\* The wait between two attempts ends with the interval or with the context.
Backoff(r) ==
  /\ at[r] = "backoff"
  /\ \/ Go(r, "retry")
     \/ ctxDone /\ Go(r, "failed")
  /\ UNCHANGED <<broker, offset, attempt, process, history>>

\* handleErr # nil.  A write to the dead-letter topic may go through although
\* the cancelled context makes WriteMessages report an error.
GiveUp(r) ==
  /\ at[r] = "failed"
  /\ \/ /\ EnableDLQ /\ Settle(r)
        /\ Go(r, "commit")
        /\ UNCHANGED <<offset, attempt, abandoned>>
     \/ /\ ~EnableDLQ \/ DlqMayFail \/ ctxDone
        /\ \/ UNCHANGED settled
           \/ EnableDLQ /\ Settle(r)
        /\ abandoned' = IF attempt[r] = Attempts THEN abandoned \cup {offset[r]} ELSE abandoned
        /\ Leave(r, "top")
  /\ UNCHANGED <<broker, process>>

\* CommitMessages; its error is ignored.
Commit(r) ==
  /\ at[r] = "commit"
  /\ committed' \in {committed, offset[r] + 1}
  /\ Leave(r, "top")
  /\ UNCHANGED <<produced, owner, position, rebalances, process, history>>

-----------------------------------------------------------------------------
(* The process                                                             *)

\* A signal cancels the context the consumer was started with.
Cancel ==
  /\ ~ctxDone /\ ctxDone' = TRUE
  /\ UNCHANGED <<broker, at, offset, attempt, stopCh, restarts, history>>

\* Server.Shutdown calls Stop.
Stop ==
  /\ ~stopCh /\ stopCh' = TRUE
  /\ UNCHANGED <<broker, at, offset, attempt, ctxDone, restarts, history>>

\* The process dies, or has ended, and a new one starts its readers.
Restart ==
  /\ restarts < MaxRestarts
  /\ restarts' = restarts + 1
  /\ owner' = NoReader
  /\ at' = [r \in Readers |-> "top"]
  /\ offset' = [r \in Readers |-> 0] /\ attempt' = [r \in Readers |-> 0]
  /\ ctxDone' = FALSE /\ stopCh' = FALSE
  /\ UNCHANGED <<produced, committed, position, rebalances, history>>

Init ==
  /\ produced = 0 /\ committed = 0 /\ owner = NoReader /\ position = 0
  /\ at = [r \in Readers |-> "top"]
  /\ offset = [r \in Readers |-> 0] /\ attempt = [r \in Readers |-> 0]
  /\ ctxDone = FALSE /\ stopCh = FALSE
  /\ rebalances = 0 /\ restarts = 0
  /\ settled = {} /\ abandoned = {}

Step(r) ==
  \/ Top(r) \/ Fetch(r) \/ FetchCancelled(r) \/ Attempt(r) \/ Backoff(r)
  \/ GiveUp(r) \/ Commit(r)

Next ==
  \/ Produce \/ Revoke \/ Cancel \/ Stop \/ Restart
  \/ \E r \in Readers : Assign(r) \/ FetchErrs(r) \/ Step(r)

Spec == Init /\ [][Next]_vars

\* The group coordinator assigns the partition to a member, every handler call
\* and timer ends, and fetching again and again returns a message that is there.
Fairness ==
  /\ WF_vars(\E r \in Readers : Assign(r))
  /\ \A r \in Readers : WF_vars(Step(r)) /\ SF_vars(Fetch(r))

FairSpec == Spec /\ Fairness

-----------------------------------------------------------------------------
TypeOK ==
  /\ produced \in 0 .. MaxMessages
  /\ committed \in 0 .. produced /\ position \in 0 .. produced
  /\ owner \in Readers \cup {NoReader}
  /\ at \in [Readers -> Places]
  /\ offset \in [Readers -> Nat] /\ attempt \in [Readers -> 0 .. Attempts]
  /\ \A r \in Readers : at[r] \in {"retry", "backoff", "failed", "commit"} =>
       offset[r] < produced
  /\ ctxDone \in BOOLEAN /\ stopCh \in BOOLEAN
  /\ rebalances \in 0 .. MaxRebalances /\ restarts \in 0 .. MaxRestarts
  /\ settled \subseteq Offsets /\ abandoned \subseteq Offsets

\* Whatever becomes of dead letters, an offset the group has committed past was
\* settled, or failed all its attempts.  None is skipped for another reason: not a
\* message that a cancelled context cut short, not one that a reader held when it
\* lost the partition, not one before a commit that came too late.
NothingSkipped ==
  \A o \in Offsets : o < committed => o \in settled \/ o \in abandoned

\* With a dead-letter topic that takes what it is given, commits never cover a
\* message that nobody settled: a reader that a cancelled context makes give
\* up ends before it can commit anything later.
NothingLost ==
  EnableDLQ /\ ~DlqMayFail => \A o \in Offsets : o < committed => o \in settled

\* A delivery is given up, dead-lettered included, only after all its attempts
\* or because the context is cancelled.
GivesUpAfterRetries ==
  \A r \in Readers : at[r] = "failed" => attempt[r] = Attempts \/ ctxDone

\* Until a rebalance, a restart or the end of the process takes the partition
\* away, one reader handles its messages in their order and none of them again:
\* attempts are repeated only while they fail, whatever became of a commit.
OneHandWhileAssigned ==
  rebalances = 0 /\ restarts = 0 /\ ~ctxDone /\ ~stopCh =>
    \A r \in Readers : at[r] \in {"retry", "backoff", "failed", "commit"} =>
      /\ owner = r
      /\ at[r] # "commit" => \A o \in settled \cup abandoned : o < offset[r]

\* The steps reader r still makes at most with its message.
StepsLeft(r) ==
  CASE at[r] \in {"top", "fetch", "ended"} -> 0
    [] at[r] = "commit" -> 1
    [] at[r] = "failed" -> 2
    [] at[r] = "retry" -> 2 * (Attempts - attempt[r]) + 1
    [] at[r] = "backoff" -> 2 * (Attempts - attempt[r]) + 2

\* A reader looks for the next message after two steps for each attempt at this one
\* and one, whatever the handler answers and whoever owns the partition by then.
HandlingRunsDown ==
  [][\A r \in Readers :
       at[r] \notin {"top", "fetch", "ended"} =>
         /\ StepsLeft(r) \in 1 .. 2 * Attempts + 1
         /\ Step(r) => StepsLeft(r)' < StepsLeft(r)
         /\ StepsLeft(r)' <= StepsLeft(r)]_vars

\* Every message is settled in the end, unless the process is shut down first
\* or a reader gave it up.
EventuallySettled ==
  \A o \in Offsets :
    o < produced ~> o \in settled \/ o \in abandoned \/ ctxDone \/ stopCh

\* Stop's wait for the loops ends once the context is cancelled too.
StopTerminates ==
  ctxDone /\ stopCh ~> ~ctxDone \/ \A r \in Readers : at[r] = "ended"

\* The adapter keeps the promise of at-least-once delivery, when dead letters
\* are enabled and their topic takes them.
Promise == INSTANCE AtLeastOnce WITH
  Messages <- Offsets,
  sent     <- {o \in Offsets : o < produced},
  settled  <- settled,
  released <- {o \in Offsets : o < committed}

KeepsPromise == Promise!Spec

-----------------------------------------------------------------------------
\* consumer.go on a message left uncommitted: it "is redelivered", so that an
\* offset the group has committed past must have been settled.  It is not when
\* the loop goes on to a later message and commits that (a run that expects a
\* violation).
UncommittedIsRedelivered ==
  \A o \in Offsets : o < committed => o \in settled
=============================================================================
