\* Two readers of one group, two messages, dead letters their topic always takes.
CONSTANTS
  Readers = {r1, r2}
  NoReader = NoReader
  MaxRetries = 1
  EnableDLQ = TRUE
  DlqMayFail = FALSE
  Results <- MCResults
  MaxMessages = 2
  MaxRebalances = 1
  MaxRestarts = 1
SPECIFICATION FairSpec
CHECK_DEADLOCK FALSE
INVARIANTS
  OneHandWhileAssigned
  NothingLost
  GivesUpAfterRetries
PROPERTIES
  KeepsPromise
  EventuallySettled
  StopTerminates
