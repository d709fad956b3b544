\* One user, two concurrent calls, every kind of fault, a clock that moves, a cache
\* and its replica.
CONSTANTS
  u1 = u1
  u2 = u2
  p1 = p1
  p2 = p2
  Ids = {u1}
  Procs = {p1, p2}
  Profiles <- MCProfiles
  Valid <- MCValid
  Username <- MCUsername
  Passwords = {"pw"}
  Times = {t1, t2}
  t1 = t1
  t2 = t2
  NoTime = NoTime
  Absent = Absent
  NoCall = NoCall
  HasCache = TRUE
  HasReplica = TRUE
  HasPublisher = TRUE
  MySQL = TRUE
  Faults = {"db", "cache", "publish", "crash"}
  MaxRequests = 3
SPECIFICATION FairSpec
CHECK_DEADLOCK FALSE
INVARIANTS
  CacheCoherent
  ServedWasCommitted
  EventsMatchCommits
PROPERTIES
  Answered
  Repaired
