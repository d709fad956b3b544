\* Two requests, a stream, every store, two publishers and one consumer of each adapter.
CONSTANTS
  k = k
  r = r
  p = p
  t = t
  u = u
  Requests = {q1, q2}
  Streams = {s}
  Stores = {"db", "cache", "cache_replica"}
  Publishers = {t, u}
  Consumers = {k, r, p}
  Broker <- MCBroker
SPECIFICATION FairSpec
CHECK_DEADLOCK FALSE
INVARIANTS
  FullyWired
  DropsOnlyWhenLate
  CleanExit
PROPERTIES
  SignalEnds
  StopEndsOrAwaitsKafka
  EveryRequestAnswered
