\* Two callbacks, two messages; waits of 2 and 3 seconds, the second clamped.
CONSTANTS
  Messages = {m1, m2}
  Callbacks = {c1, c2}
  Nil = Nil
  General <- MCGeneral
  Override <- MCOverride
  Results <- MCResults
  NoMessage = NoMessage
  MaxDoubts = 1
  MaxRestarts = 1
SPECIFICATION FairSpec
CHECK_DEADLOCK FALSE
INVARIANTS
  HandledOrDead
  WaitsFollowPolicy
PROPERTIES
  KeepsPromise
  EventuallySettled
  StopTerminates
