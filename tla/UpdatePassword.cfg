\* One call at a time, no fault, two passwords: what Update leaves in the cache.
CONSTANTS
  u1 = u1
  u2 = u2
  p1 = p1
  p2 = p2
  Ids = {u1}
  Procs = {p1}
  Profiles <- MCProfiles
  Valid <- MCValid
  Username <- MCUsername
  Passwords = {"old", "new"}
  Times = {t1, t2}
  t1 = t1
  t2 = t2
  NoTime = NoTime
  Absent = Absent
  NoCall = NoCall
  HasCache = TRUE
  HasReplica = FALSE
  HasPublisher = TRUE
  MySQL = TRUE
  Faults = {}
  MaxRequests = 4
SPECIFICATION Spec
CHECK_DEADLOCK FALSE
INVARIANT CachedPasswordIsFresh
