\* One reader, dead letters disabled, no rebalance and no restart.
CONSTANTS
  Readers = {r1}
  NoReader = NoReader
  MaxRetries = 1
  EnableDLQ = FALSE
  DlqMayFail = FALSE
  Results <- MCResults
  MaxMessages = 2
  MaxRebalances = 0
  MaxRestarts = 0
SPECIFICATION Spec
CHECK_DEADLOCK FALSE
INVARIANT UncommittedIsRedelivered
