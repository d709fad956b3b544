\* Three calls: one that leads, one that follows, one that writes meanwhile.
CONSTANTS
  u1 = u1
  u2 = u2
  Args = {u1, u2}
  NoArg = NoArg
  NoCall = NoCall
  Calls = {c1, c2, c3}
  Requests <- MCRequests
SPECIFICATION FairSpec
CHECK_DEADLOCK FALSE
INVARIANTS
  AnswersOwnRequest
  WritesKeepApart
  SeesEarlierWrites
  FailsWithItsLeader
PROPERTY EveryCallAnswered
