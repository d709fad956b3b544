\* Two loops with room for one delivery each, two messages, dead letters, and one
\* queue for publisher and consumer.
CONSTANTS
  Messages = {m1, m2}
  Topic = q1
  Subscription = q1
  Loops = {l1, l2}
  PrefetchCount = 1
  MaxRetries = 1
  HasDLX = TRUE
  Results <- MCResults
  NoMessage = NoMessage
  MaxFailures = 1
  MaxRestarts = 1
SPECIFICATION FairSpec
CHECK_DEADLOCK FALSE
INVARIANTS
  OneHandWhileConnected
PROPERTIES
  KeepsPromise
  EventuallySettled
  StopTerminates
