# A TLA+ specification of golang-sekeleton

The service keeps users in a SQL table, caches them in Redis, publishes
`user.created` and `user.deleted` to a broker and consumes both topics again.
It is reached by gRPC and, through grpc-gateway, by HTTP. This directory holds
TLA+ modules of its core, the configurations that TLC checks them with and
proofs that TLAPS checks. Every definition is translated from the Go source;
`PROJECT.json` maps each one to its lines.

    tlc -workers 2 -config UserService.cfg MCUserService.tla     # a run
    tlapm UserServiceProofs.tla                                  # a proof

## 1. The system

| Component (source) | State it keeps | Operations | What makes it correct |
|---|---|---|---|
| User use cases (`internal/usecase`) | none of its own; a call's locals across awaits | Add, Update, Delete, GetByID, GetAll, GetAllPaginated, Search, ProcessUserCreated, ProcessUserDeleted | the cache agrees with the table, an event stands for a commit |
| SQL repository (`internal/repository/database`) | the table `users` | insert, update, delete, reads, each under a query timeout | one row per id and per username; a caller told of success has changed a row |
| Cache repository (`internal/repository/cache`) | `user:<id>` with a TTL, on a master and an optional replica | get, set, delete, (clear: no caller) | a spoiled entry does not outlive its TTL |
| Publishers (`internal/repository/mq`, `pkg/messaging/*`) | a client per topic | publish | a publish is tried once, after the commit |
| Handlers (`internal/delivery/messaging`) | none | Handle | exactly the retryable errors are handed back |
| Broker adapters (`pkg/messaging/{kafka,rabbitmq,pubsub}`) | loops, message in hand, offset or unacked deliveries | Start, consume, retry, dead-letter, Stop | at-least-once: nothing is let go of unsettled; Stop returns |
| Repository assembly (`internal/repository`, `internal/server/repository_wiring.go`) | a connection per store, a client per topic | NewRepository, Close | nothing is served half-wired |
| Server (`internal/server`, `cmd/server`) | listeners, consumers, the signal context, the repository | New, Start, Shutdown | the repository is complete before its first user and closed after its last; shutdown ends |
| Endpoints (`internal/endpoint`) | calls in flight by key (singleflight) | one per use case | a caller gets the answer to its own request |
| Delivery and middleware (`internal/delivery/{grpc,http}`, `pkg/middleware`, `pkg/httputil`, `pkg/claims`, `proto/*.pb.gw.go`, `proto/*_grpc.pb.go`) | a request's goroutines, buffered response, status | Recovery, Claims, Logging, Timeout, ResponseWrapper, CORS, the muxes, the gateway; five interceptors | an answer and the logs agree with what was done; nobody runs a use case unauthorised; an HTTP caller is answered |
| Pagination (`pkg/util`, `internal/domain`, the page queries) | none of its own; a client's walk | NormalizePage, NormalizePageSize, NewPaginationMeta, GetAllPaginated | pages fit their meta, and together they are the listing |
| Config, mapper, validator, telemetry, logger | none | conversions, I/O | – |

How they interact. A transport calls an endpoint, which calls a use case. A use
case makes several external calls (SQL, Redis, broker), one after the other and
with nothing locked in between, so calls on one user interleave. Add and Delete
publish an event; the broker hands it to an adapter, the adapter retries the
handler, the handler runs ProcessUserCreated or ProcessUserDeleted, which touch
the same cache entry again. The server owns everybody's lifetime: one context,
cancelled by a signal, is given to the consumers and to the gateway's
connection, and Shutdown takes the parts down one after the other.

An HTTP request passes the middlewares, in a goroutine of `http.TimeoutHandler`,
to the gateway, which calls the process's own gRPC server over a connection, where
the interceptors see the same token once more; a gRPC caller begins there.

What is hard here: use cases that overlap on one user; a fault or a crash
between two of a call's steps; events that are late, repeated or out of order;
offsets that cover smaller offsets; partitions and channels that go away while
a message is in hand; a cancelled context between two attempts; waits that
nothing ends; a timeout that races a late answer; pages read while rows come and
go. `PROJECT.json` lists each hazard at its line with the properties that watch it.

## 2. Modules

| Module | Models |
|---|---|
| `UserService` | use cases, SQL repository, cache, replica, publisher |
| `Handling` | what a handler answers to an adapter (`IsRetryable`, `Handle`) |
| `AtLeastOnce` | abstract: what the service expects of every adapter |
| `KafkaConsumer` | the Kafka adapter, with `WithRetry` |
| `RabbitConsumer` | the RabbitMQ adapter, with `WithRetry` |
| `Settings` | how a topic's delivery policy is resolved from the configuration |
| `PubSubConsumer` | the Pub/Sub adapter, with `WithRetry` and the lengths of its waits |
| `Endpoints` | the endpoints, and the calls that share a run by singleflight |
| `Lifecycle` | run(): telemetry, the assembly, startConsumers, Start, the signal, Shutdown |
| `Answering` | abstract: what a caller may conclude from an answer |
| `Delivery` | one request's way through middlewares, gateway, interceptors and back |
| `Pages` | GetAllPaginated, GetAll, and a client that walks through the pages |
| `MC*` | constants of the TLC runs |
| `*Proofs` | theorems about `UserService`, the three adapters, `Endpoints`, `Lifecycle`, `Delivery`, `Pages` |

Operators named `X_Something` after an action `X` are plausible bugs in it. They
are part of no specification; putting one in the place of `X` shows that a
property depends on what the code does there.

### UserService

`db`, `cache` and `replica` are functions of the id; `call[p]` is what goroutine
`p` is about to do (`op`, the step it is `at`, the user in its hands). Each
external call is one action. `DBAddUser`, `DBUpdateUser` and `DBDeleteUser` end
in one of three ways: done and reported, done and reported as an error (the
query timeout hit after the commit), not done. `CacheSetUser` and
`CacheDeleteUser` may fail and are then only logged. `Expire` is the TTL (or an
eviction by Redis), `Replicate` the asynchronous replica, `Crash` the end of the
process between any two calls. An event, once published, may be handled at any
time and any number of times.

A row is a profile (the columns UPDATE writes from what the caller gave), a
password, which UPDATE does not write, and the timestamps `created` and `updated`,
which only the database writes (NOW()). A caller's user has no timestamps
(`ProtoToDomain`), and Add and Update cache it as it came. So a cached copy is one
of two kinds, and `Agrees` says what its agreement with the row means: one that was
read from the table is the row, in every column; one that Add or Update cached has
the row's profile, but zero timestamps and, after Update, perhaps another password.
`CacheCoherent` and `HeldAgrees` (of what calls are about to write) are stated with
it, `ServedWasCommitted` with the like of it for rows of the past (`CopyOfRow`).
Validation is pure and comes first, so an invalid user begins nothing. Reads of one
id that singleflight would merge are kept apart, which only adds behaviours. History
variables: `commits` and `committed` count and collect what the table has seen;
`suspect` holds the ids whose entry an overlap or a fault may have spoiled (the
properties on coherence say that nothing else spoils one, and `Repaired` that none
stays spoiled): a commit while another call was about to write the entry, a commit
that was reported as an error, a cache step that failed, a crash before it. An entry
leaves `suspect` when it is emptied and nobody holds a value for it. `unsent` counts
the commits whose event a fault has lost: the publish failed, the commit was
reported as an error, or the process died before it. Initially the table is any
table of valid users that keeps its unique columns, left by earlier processes, and
the caches are empty. `EventsMatchCommits` is a balance: of each event, what the
broker has accepted, what calls still owe and what faults have lost is what was
committed.

### KafkaConsumer, RabbitConsumer, PubSubConsumer, AtLeastOnce

One action per step of `consumeLoop` and of `WithRetry`'s loop: looking at the
context and `stopCh`, the fetch, each attempt, each wait, the dead letter, the
commit or acknowledgement. External, modelled from how the adapters use them:

- kafka-go: a partition has one owner; a new owner starts at the committed
  offset; a commit moves that offset, also backwards and also by a reader that
  has lost the partition; a commit may fail unnoticed. That is more than the
  broker allows (it fences some commits by generation), so what holds here
  does not depend on fencing. `abandoned` (history) collects the messages that failed
  every attempt and had no dead letter confirmed; a message left because the context
  was cancelled is not among them, so `NothingSkipped` has such a one handled again
  before anything is committed past it, whether dead letters work or not.
- amqp091: a channel holds at most its prefetch of unacknowledged deliveries;
  what it holds is requeued when it closes; acknowledging on a closed channel
  fails unnoticed. `select` may take a delivery although the context is done.
  The publisher declares the queue `Topic` (`NewPublisher`) and publishes to it; the
  consumer consumes the queue `Subscription`, which is the same one if the
  configuration gives it no name of its own. A consumer whose queue nobody has
  declared has no loops: its passive declare closes the channel, and the declare
  that follows fails with it. Start may also fail at a later channel, with the loops
  before it running (`CanStart`).
- Pub/Sub: an unacknowledged message is delivered again after a nack or when its
  lease runs out, which may happen in a callback's hands (the client extends a
  lease for a limited time); an acknowledgement may be lost. Every callback has
  the context of Receive, which starts none once it is done and returns when
  the last has. The dead letter is published under that same context, so its
  publisher may be told of an error although it went through.

`AtLeastOnce` says what the rest of the service relies on: the broker lets go of
a message only once it is settled (the handler answered nil, or it is a dead
letter). Each adapter implements it under a refinement mapping (`Promise`):
Kafka lets go of the offsets below the committed one, RabbitMQ of what was
acknowledged or rejected, Pub/Sub of what was acknowledged.

The policy of `PubSubConsumer` is what `Settings` resolves from the general and the
topic's own settings; `KafkaConsumer` and `RabbitConsumer` use two or three of its
fields and have them as constants. `PubSubConsumer` keeps `interval`, in seconds, as
`WithRetry` computes it (the multiplier is an integer here), and `WaitsFollowPolicy`
compares it with a closed form; the comment of `WithRetry` has every wait clamped to
`MaxInterval`, but the first one is not, and the closed form says so. The history
variable `doubted` collects the messages of which something is not known for sure: a
lease ran out in hand, an answer was lost, the process died with it. Only those may
be in two hands, or both handled and dead (`HandledOrDead`).

### Endpoints

A call arrives with a request, enters the group (`Do`), leads a run or waits for
the one that is under way for its key, and is answered. `flight` is `sfGroup`:
who leads, by key. `world` counts the writes made so far; a use case is one step
that answers with the version it ran on, may fail, and may have written although
it failed. History variables: `led`, whose run answers a call, and `before`, who
had been answered when the call reached the group.

Two things a reader of `withSingleflight` may not expect, both in the model: the
run has the leader's context only, so its cancellation fails every follower
(`FailsWithItsLeader` says that nobody else's does), and a follower does not see
its own cancellation until the leader is through. A follower may also join a run
that has already read, so a caller is not promised to see a write that was
answered before it came; `SeesEarlierWrites` is what it is promised: an answer
is of a run that was not over when the caller came, and newer than every write
answered before that run began.

### Lifecycle

`main` follows `run()`, `New` and `Shutdown` stage by stage. Before the first
consumer starts, the repository is assembled one factory after the other: the
database and then the caches are opened and pinged, then a client is built per
topic, in the order of a map; `AssemblyFails` is the failure of any of them, after
which only the clients built so far are closed and the process exits. `open` is what
of all this is open, `started` the consumers that run. `loop[c]` is what the loops
of a consumer do as seen from outside, and what ends a waiting loop differs by
adapter as in the code; a rabbitmq consumer whose Start fails halfway has loops
though it is not in `started`, and no Stop reaches them; `request[q]` is where a
request is: in the gateway, an RPC (proxied or direct), an RPC whose caller has
already had an error (`orphan`) or a timeout (`timedout`), answered, failed.
External: `http.Server.Shutdown` waits for its requests until its context expires;
`GracefulStop` waits for every handler and for every stream, without a deadline;
`streams` are those that clients keep open with the health service's `Watch` or the
reflection service, and only a client ends one; the generated
`RegisterUserGrpcServiceHandlerFromEndpoint` closes its connection when the context
it was given is done. `SignalEnds` has an open stream as its one exception.
`StopEndsOrAwaitsKafka` covers the ends that no signal begins, a failed start and a
failed listener: stopping the consumers ends, or hangs for good in a kafka loop that
waits for a message. `CleanExit` says what an exit may cut off. Health probes are
`Delivery`'s.

### Delivery and Answering

Requests share nothing on this way, so there is one, of any shape: port, target,
well-formed or not, token. `outer` is the goroutine of the HTTP server, `inner`
the one `TimeoutHandler` starts, `rpc` the one of the gRPC server; each has an
action per middleware or interceptor that decides something. `response` is what
`inner` has written into TimeoutHandler's buffer, which reaches the caller only if
`HandlerDone` wins the select against the context. `done` is the point at which
the use case has read or committed. `Errors` are the codes a use case ends with,
by RPC; a commit that was reported as an error is a `DATA_ACCESS_ERROR` with
`done`. External: the gateway runtime (what it refuses to decode, its table of
statuses), gRPC's client (`Canceled`, `DeadlineExceeded`, a lost connection), and
JWT validation, of which only the four kinds of token remain. The public RPC is
the health service's `Check`.

`Answering` says what the way in between has to keep: a success is told only of
work that is done, a refusal (a status that blames the request or the state it
found) only of work that is not done and never will be, and everything else
leaves it open. `Verdict` maps codes, statuses and the envelope's `success` to
these three; `KeepsItsWord` is the refinement. It would fail if a fault of the
database were told as a failed precondition (the mutant), or if the envelope or
the gateway changed sides. `HTTPAnswered` and `InnerEnds` assume nothing of the
use case, which may hang for ever.

### Pages

`table` is the row's `created_at` by id. A call counts (`CountUsers`) and then
queries (`QueryPage`); between the two, and between calls, rows are inserted and
deleted. An insert is stamped when it begins and seen when it commits, so its
stamp may be older than that of rows already there. `Listings` are the orders
that ORDER BY leaves open: rows with one `created_at` come in any order, in every
query anew. The client asks for the next page while the last answer's meta says
there is one, and for the same page again after an error.

`MetaMatchesItems` bounds how far a page and its total may disagree by the rows
written in between, and says that a result cut short is no page. The walk
properties speak of `steady` rows: there all the time, their `created_at` shared
with none (of rows that share theirs nothing can be promised, for ORDER BY leaves
them open). Such a row is missed only if a newer one was deleted meanwhile, or one
inserted after the last total was counted; it comes twice only if a newer one was
inserted. Without writes the pages are the listing of GetAll (`WalkIsListing`).
Numbers are unbounded: page numbers reach the code as int32 and its arithmetic is
in 64 bits, so that no product of a page and a size overflows.

## 3. Runs

| Run | Instance | What it shows |
|---|---|---|
| `user_service` | 1 user, any row of it, 2 calls at a time, 3 requests, 2 values of NOW(), all faults, replica; about 257 000 states | `CacheCoherent`, `ServedWasCommitted`, `EventsMatchCommits`, `Answered`, `Repaired` |
| `kafka_consumer` | 2 readers, 2 messages, 1 retry, 1 rebalance, 1 restart, a dead-letter topic that takes them; about 72 000 states | `OneHandWhileAssigned`, `NothingLost`, `GivesUpAfterRetries`, `KeepsPromise`, `EventuallySettled`, `StopTerminates` |
| `rabbit_consumer` | 2 loops of prefetch 1, 2 messages, one queue, 1 lost connection, 1 restart; about 71 000 states | `OneHandWhileConnected`, `KeepsPromise`, `EventuallySettled`, `StopTerminates` |
| `pubsub_consumer` | 2 callbacks, 2 messages, 2 retries, 1 lease or answer lost, 1 restart; about 255 000 states | `HandledOrDead`, `WaitsFollowPolicy`, `KeepsPromise`, `EventuallySettled`, `StopTerminates` |
| `endpoints` | 3 calls, a write and reads of two ids; about 558 000 states | `AnswersOwnRequest`, `WritesKeepApart`, `SeesEarlierWrites`, `FailsWithItsLeader`, `EveryCallAnswered` |
| `lifecycle` | database, cache, replica, 2 publishers, one consumer per adapter, 2 requests, 1 stream; about 141 000 states | `FullyWired`, `DropsOnlyWhenLate`, `CleanExit`, `SignalEnds`, `StopEndsOrAwaitsKafka`, `EveryRequestAnswered` |
| `delivery` | every request, every fault; about 42 000 states | `AuthorizedOnly`, `LogsTellTruth`, `KeepsItsWord`, `HTTPAnswered`, `InnerEnds` |
| `pages` | 4 ids, 3 stamps, any table, sizes 1, 2 and 3, walks from pages 1 and 2, 2 writes between the queries of a call; about 1.7 million states | `MetaMatchesItems`, `MissesOnlyByDelete`, `RepeatsOnlyByInsert`, `WalkIsListing` |
| `update_password`, `kafka_no_dlq`, `zero_drop`, `shutdown_hangs` | as small as the case allows | a sentence of the source that the code does not keep (section 6) |

The type invariants (`TypeOK`), `GivesUpAfterRetries` of RabbitMQ and Pub/Sub and
`OneRunPerKey` are proved for every instance (section 4) and not run again. So are
`HeldAgrees`, `OnlyValidStored`, `SerialIsCoherent`, `AtRestAllSent` and
`CallsRunDown` of `UserService`; `NothingSkipped` of Kafka, which `NothingLost`
implies where dead letters do not fail; `HandlingRunsDown` of Kafka and RabbitMQ;
`OnePlaceEach` and `NothingStuck` of RabbitMQ; `WaitsBounded`, `CallbacksRunDown`
and `SureIsExact` of Pub/Sub; `WaitsForARun`, and the `NothingLost` and
`NeverMisleads` of the two abstract modules. TLC agreed on the instances above
before each was proved.

Why the bounds are enough. In `UserService` ids share nothing but the unique
username, for whose sake an INSERT or an UPDATE may be refused; a fault of the
database is the same step, so one id is enough and leaves room for two values of
NOW(), which tell a row from what an UPDATE makes of it. The safety properties were
also checked once with two users, two values and symmetry (762 000 states, too many
for the liveness), and their theorems hold for any number. A race needs two calls at
a time, and since the table begins as any table, the longest story a property tells
is two overlapping calls and one after them (a read of what they left, or the event
one of them sent): three requests. In the adapters two readers are enough for a
reader that has lost its partition and the one that took it, two messages for an
offset that covers another, one retry for a last and a not-last attempt, one
rebalance, restart or lost connection for each to fall anywhere. `PubSubConsumer`
has two retries, for two waits are needed to see the second clamped, and as many
callbacks as make a message fall into two hands. In `Endpoints` three calls are one
that leads, one that follows and one that writes meanwhile. In `Lifecycle` consumers
interact only through the order of `Stop`, and there is one of each kind; one stream
is enough to hold GracefulStop; every kind of store is there, and a publisher that
cannot fail (kafka) beside one that can. `Delivery` needs no bound: one request is
all there is. In `Pages` four rows give pages that are full, not full and empty,
three stamps rows with one `created_at`, and a write may fall before, between and
after the rows of a page; the number of writes between two calls is not bounded. Ids
are symmetric there: no property tells one from another. The counters `MaxRequests`,
`MaxMessages`, `MaxRebalances`, `MaxRestarts`, `MaxFailures`, `MaxDoubts` and
`MaxWrites` bound the environment, never the program.

Deadlock is checked in `pages`, whose client may always begin again. Elsewhere it
is not: the environment's budgets run out, a request is over and the process
exits, so those systems may stop. What must not stop is a liveness property.

### Fairness

- `UserService`: weak fairness of each call's next step, because every external
  call runs under a timeout; of `Expire`, because every SET has a TTL; of
  `Replicate`. None of requests, faults or crashes.
- `KafkaConsumer`: weak fairness of a loop's step and of the assignment of the
  partition; strong fairness of `Fetch`, because FetchMessage may fail any number
  of times and is called again each time. None of Cancel, Stop, Produce.
- `RabbitConsumer`: weak fairness of the loops, of deliveries to a channel with
  room and of Stop's walk over its channels.
- `PubSubConsumer`: weak fairness of each callback's step, of deliveries, of the
  end of a lease nobody extends and of Receive's return; strong fairness of
  `DeadLetter`, because a message whose dead letter fails is nacked, delivered
  and tried again for as long as it takes. None of Cancel, Stop, Publish.
- `Endpoints`: weak fairness of each call's next step, because every use case
  runs under timeouts. None of arrivals and cancellations.
- `Lifecycle`: weak fairness of `run()`, of handlers and use cases (timeouts) and of
  the gateway, none of `EndStream`, for nothing makes a client end its stream;
  strong fairness of `LoopEnds`, because a waiting loop may be handed deliveries
  again and again before it sees its end. None of Signal, ListenerFails,
  AssemblyFails, StartFails or DeadlinePasses.
- `Delivery`: weak fairness of the two HTTP goroutines (a ping of the probe ends
  after three seconds) and of TimeoutHandler's timer. None of the gRPC goroutine,
  of callers that leave, panics or lost connections.

## 4. Proofs

The theorems hold for every value of the constants (any number of users,
goroutines, readers, messages, retries, requests, consumers), under the named
assumptions of each module, which TLC evaluates in the runs.

- `UserServiceProofs`: `TypeCorrect`; `Coherence`, which states `CacheCoherent` and,
  of what calls are about to write, `HeldAgrees`; `Served`, which states
  `ServedWasCommitted`; `EventsBalance`. `CacheCoherent` is not inductive: a cached
  row that agrees now says nothing of what a call in mid-step will write. The
  strengthening adds what every call holds: for an id nothing has spoiled, a call
  about to write the entry holds a user that agrees with the row, and a call that
  owes the entry a step is the only reason it may disagree. The proof has a step per
  action and, in it, a case for the id the action works on and for all others.
  `EventsBalance` states `EventsMatchCommits`: an action moves one event from one
  side of the balance to another, which the lemmas `OwingCount`, `QuietBalance`,
  `CommitBalance` and `ServeBalance` say once for every action, by how the set
  `Unpublished` of the calls that owe it grows or shrinks; `AllSent` is the same
  balance at rest. `StoredIsValid` follows each user from its validator to the table
  and the cache (`ValidInv`), whether a use case or an event's handler brings it.
  `SerialCoherence` says that `suspect` has no other causes than the ones the module
  names: overlapping calls and failures. `EveryCallRunsDown` has a measure: every
  step of a call leaves it fewer to take.
- `KafkaConsumerProofs`: `TypeCorrect` with `AttemptsLeft` (a reader that will try
  again has an attempt left, which keeps `attempt` in its range for every
  `MaxRetries`, negative ones included), `NeverGivesUpEarly`, `SkipsNothing`,
  `LosesNothing`, `ImplementsAtLeastOnce`. The invariant is `Accounted(S)`: every
  offset below the committed one is in S, every offset an owner has passed is in S
  or in some reader's hands at or above the committed offset, and a reader about to
  commit has its own offset and all before it accounted for. It is used twice, with
  S the settled or abandoned offsets (`SkipsNothing`, with `NeverGivesUpEarly`: who
  gives up without a cancelled context has had every attempt) and with S the settled
  ones (`LosesNothing`, under dead letters that their topic takes); the lemma about
  committing is the same. In the second use `Honest` says that a reader gives a
  message up only when the context is done, after which it ends. `OneHand` states
  `OneHandWhileAssigned`, by `AssignedInv`: until the partition is taken from its
  first owner, only the owner holds a message, it is the last it fetched, and
  whatever is settled or given up lies before it. `EveryHandlingRunsDown` rests on
  `AttemptsLeft`, without which the measure `StepsLeft` could fall below one. The
  refinement then follows action by action: each maps to `Send`, `Settle`, `Release`
  or a stutter.
- `EndpointsProofs`: `TypeCorrect`; `OneRun` and `OwnRequest` by `FlightInv`
  (whoever is under way for a shared key is the one the group holds, a follower's
  leader leads itself and has the same request; keys tell requests apart by
  `KeyTells`), from which `WaitsForRuns` follows too: nobody waits for a follower or
  for a call that is gone; `CancelsItsOwn` by `CancelInv`; `WritesApart` and
  `SeesWrites` by `OrderInv` (each write that succeeded has a version of its own
  below `world`, and what was answered before a run began is older than what the run
  saw).
- `RabbitConsumerProofs`: `TypeCorrect` and `NeverGivesUpEarly` as for Kafka;
  `OneHand` by `OnePlace` (until a channel closes, a message is ready, or with one
  channel, in its buffer or in its loop's hand); `ImplementsAtLeastOnce`, assuming
  `HasDLX`, by `GoneInv` (what has left the queue was handled or is dead), and with it
  `LosesNothing`. `OnePlaceAlways` needs no condition on channels: `PlaceInv` has
  every sent message ready, out with one channel, or gone in one way, also after
  a channel has closed on the loop that holds it. `NothingIsStuck` adds
  `WithinPrefetch`: what an open channel has out is its buffer and the message in
  hand, at most the prefetch. `EveryHandlingRunsDown` as for Kafka.
- `PubSubConsumerProofs`: `TypeCorrect` and `NeverGivesUpEarly`, for whatever the
  settings resolve to (`ResolveIsConfig`); `HandledOrDeadHolds` by `Sure`, what is
  known of a message nothing has cast doubt on (in one place, and once it is
  handled or dead, acknowledged or about to be); `ImplementsAtLeastOnce`, which
  needs no assumption on dead letters, by `AckInv`, and with it `LosesNothing`.
  `WaitsFollow` states `WaitsFollowPolicy`: the loop multiplies and clamps, the
  closed form takes a power and clamps once, and they agree because both factors
  are at least one (`WaitInv`). `Power` is a recursive function; that it exists and
  obeys its equation is shown over the set of numbers for which it fails, which
  has no least element. `WaitsHaveBounds`, `EveryCallbackRunsDown` (by `StepsLeft`),
  and `ExactWhenSure`: where nothing casts doubt (`NoDoubt`), each message that is
  acknowledged was either handled or made a dead letter, never both.
- `LifecycleProofs`: `TypeCorrect`; `AlwaysWired`, which states `FullyWired`, by
  `Order` (nothing runs before the assembly is complete, and what each stage of
  Shutdown leaves behind stays so); `DropsLate` by `DropInv` (the connection is
  open until a signal, and a request waits in the gateway past the HTTP stage
  only after the deadline); `ExitsCleanly`, which states `CleanExit`, by `ExitInv` and
  `Order` (a process that ends after it served has been through every stage of
  Shutdown; loops that nobody stops are those of a consumer whose Start failed).
- `DeliveryProofs`: `TypeCorrect`; `Authorized`, `TruthfulLogs` and `Refinement`
  rest on invariants that follow the request inwards and its answer outwards:
  where each goroutine may be, what the interceptors have established when the use
  case runs, how `code`, `response`, `reply` and the two lines derive from the
  outcome. `Refinement` then maps each action to `Work`, to `Say` or to a stutter;
  the hard case is an answer given while the RPC still runs, which must be one
  that leaves the outcome open. `NeverMisled` draws the conclusion: what a client
  was told of its call is true then and at every moment after. Nothing is assumed
  but the module's own domain.
- `PagesProofs`: `TypeCorrect`; `MetaCorrect` by counting the rows a write adds or
  removes; `WalkMisses` and `WalkRepeats` by an invariant on every steady row: if
  neither a newer row was deleted nor inserted, as many rows stand before it in the
  order as at the walk's start, a position that each page either has passed, with
  the row in it, or is still to come to. Because rows with other stamps may be
  shuffled, the invariant speaks of the number of newer rows, never of a list.
  `WalkWhole` states `WalkIsListing`, by `PrefixInv`: without writes, what the walk
  has seen is the listing cut at its page. `PagesTile`
  says of the arithmetic that a page has rows to show exactly if the meta counts it.

Only model-checked: the liveness properties, for fairness is out of the prover's
reach. Of termination, the theorems on calls, callbacks and handlings running down
prove the part that needs no fairness: no step leads back, so whatever keeps taking
steps comes to its end.

## 5. Not modelled

- Search, which is GetAll with a WHERE and LIKE.
- Message conversion (mapper, the generated message types), headers, spans, the
  logger and the files of Swagger: formatting, with no control of their own.
- The in-process gateway (`local_request_*`, `RegisterUserGrpcServiceHandlerServer`)
  and the unimplemented server: generated, and called by nobody.
- Reading configuration files and the environment, which is I/O; of the brokers'
  settings only the delivery policy is resolved (`Settings`).
- `pkg/circuitbreaker`, `pkg/retry` and `ClearUserCache` have no caller.
- What is inside the databases and brokers beyond what the code relies on. Start of
  a RabbitMQ consumer is one step, with the loops it has come to.
- What is said on a stream of the health or of the reflection service.

## 6. Where the source says something else

Each of these has a run with the sentence as the property and a counterexample.

1. `update_password`: Update caches the caller's user, whose password the UPDATE
   did not write ("fresh data", `update_user.go`). Nor has the cached copy the
   timestamps that the database wrote, after Add and after Update.
2. `kafka_no_dlq`: without dead letters, an uncommitted offset is covered by the
   next commit and never redelivered (`kafka/consumer.go`).
3. `zero_drop`: the signal closes the gateway's connection before HTTP has
   drained ("zero-drop guarantees", `server.go`).
4. `shutdown_hangs`: after a failed listener, Stop waits for a Kafka loop that
   waits for a message; only the signal would wake it (`messaging.go`).

Others are visible in the modules, as behaviours they allow, without a run:

- A GetByID that overlaps a Delete puts the deleted user back into the cache
  (`delete_user_cache.go:9`: "so stale data isn't served"); `UserService` records
  it in `suspect`, and the TTL repairs it.
- A topic's publisher sends to the queue of its name and the consumer waits at the
  queue of its subscription; with two names, as in `config.example.yaml`, what is
  published is never consumed (`rabbitmq.go:2`: "Each topic maps to one durable
  queue"). That the consumer's queue exists is up to somebody else as well: where it
  does not, Start fails and the server with it. `RabbitConsumer` has both queues;
  the run has one, and what is proved is proved for both cases.
- When a consumer cannot start after a Kafka consumer has, stopAll waits for the Kafka
  loop and New does not return (`server.go:46`: "can fail fast"), for the reason of
  `shutdown_hangs`; `StopEndsOrAwaitsKafka` has it as an exception.
- A stream that a client keeps open (`Watch`, reflection) holds GracefulStop for as
  long as it likes: the shutdown's 30 seconds (`main.go:74`) bound HTTP only.
- A RabbitMQ Start that fails halfway leaves loops that nobody stops, which take
  deliveries while the other consumers are stopped; the process then exits under
  them, and the broker delivers again what they held.
- After the context is cancelled, a buffered RabbitMQ delivery is rejected without
  one attempt (`rabbitmq/consumer.go:113`: "Exhausted in-process retries").
- A missing queue is not "declared defensively" (`rabbitmq/consumer.go:63`): the
  failed passive declare has closed the channel.
- With `validate_jwt` on, no RPC is "reachable without an authenticated caller"
  (`grpc_wiring.go:19`): `UnaryServerClaims` refuses a missing token before the
  list is looked at, though its comment says that it does not reject
  (`grpc_claims.go:17`). Probes are refused over HTTP likewise.
- TimeoutHandler answers 503, not "504 after deadline" (`http_timeout.go:11`), and
  that answer, the 401 of ClaimsMiddleware and the 500 of RecoveryMiddleware are
  not wrapped in the envelope of "every REST response" (`httputil/response.go:1`).
- DATA_ACCESS_ERROR is not retried, although the repository's README says that
  everything but INTERNAL_ERROR is.

## 7. Plan

Done, in the order of importance: `UserService`, the three adapters with
`AtLeastOnce` and `Settings`, `Lifecycle` with the assembly, `Endpoints`,
`Delivery` with `Answering`, `Pages`; each with its proofs. What would add most
next:

1. `UserService` behind `Endpoints` as one composition, so that the version a run
   answers with is the row of a use case.
2. RabbitMQ's Start step by step (a channel, the declares, Consume, per loop)
   while its first loops work already, and the publisher's confirmations.
3. A measure for the requests of `Delivery` and the stages of `Lifecycle`, as the
   consumers have one.
