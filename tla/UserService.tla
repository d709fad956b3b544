------------------------------ MODULE UserService ------------------------------
(***************************************************************************)
(* The user use cases (internal/usecase) over the repositories they call:  *)
(* the SQL table users, the Redis cache with its optional read replica,    *)
(* and the message publisher.                                              *)
(*                                                                         *)
(* A request is a call: one goroutine that runs one use case and stops at  *)
(* every external call it makes, so that any other call, an expiry or a    *)
(* crash can come between two of its steps.  A row keeps apart the columns *)
(* a caller gives and UPDATE writes (its profile), the password, which it  *)
(* does not, and the two timestamps, which only the database writes: the   *)
(* user of a caller has none, and is cached as it is after Add and Update. *)
(* GetAll, GetAllPaginated and Search change nothing and are left out.     *)
(***************************************************************************)
EXTENDS Naturals, FiniteSets

CONSTANTS
  Ids,           \* primary keys, chosen by the caller or generated
  Procs,         \* goroutines that can serve a request at the same time
  Profiles,      \* username, email, full name, ... as one value
  Valid,         \* the profiles UserValidator accepts
  Username(_),   \* the unique columns of a profile
  Passwords,
  Times,         \* what NOW() may say; nothing is assumed of its order
  NoTime,        \* the zero time.Time
  Absent,        \* no row, or no cache entry
  NoCall,        \* a goroutine that serves nothing
  HasCache,      \* cfg.Cache.Enabled
  HasReplica,    \* cfg.Cache.Replica # nil
  HasPublisher,  \* cfg.MessagePublishers.Topics is not empty
  MySQL,         \* Driver = "mysql": RowsAffected counts changed rows only
  Faults,        \* which external calls may fail, and whether the process may
  MaxRequests    \* bound: requests accepted in one behaviour

\* A row of the table, and a user as a caller gives it (ProtoToDomain).
Rows  == [profile : Profiles, password : Passwords, created : Times, updated : Times]
Given == [profile : Profiles, password : Passwords, created : {NoTime}, updated : {NoTime}]
Users == Rows \cup Given
Entry == Users \cup {Absent}

Ops   == {"add", "update", "delete", "get", "created", "deleted"}
Steps == {"lookup", "read", "insert", "update", "remove", "set", "evict", "publish"}
Calls == [op : Ops, at : Steps, id : Ids, user : Entry]

\* The steps of each use case, in the order the code makes them.
Path == [ add     |-> {"insert", "set", "publish"},
          update  |-> {"update", "set"},
          delete  |-> {"remove", "evict", "publish"},
          get     |-> {"lookup", "read", "set"},
          created |-> {"read", "set"},
          deleted |-> {"evict"} ]

\* The two topics, user.created and user.deleted, with the id an event carries.
Events == {"created", "deleted"} \X Ids

ASSUME ConstantsAssumption ==
  /\ Valid \subseteq Profiles
  /\ NoTime \notin Times
  /\ Absent \notin Users
  /\ NoCall \notin Calls
  /\ HasCache \in BOOLEAN /\ HasReplica \in BOOLEAN /\ HasPublisher \in BOOLEAN
  /\ HasReplica => HasCache
  /\ MySQL \in BOOLEAN
  /\ Faults \subseteq {"db", "cache", "publish", "crash"}
  /\ IsFiniteSet(Procs)
  /\ MaxRequests \in Nat

VARIABLES
  db,         \* the table users, by primary key
  cache,      \* the master cache, by user:<id>
  replica,    \* the read replica of the cache
  call,       \* what each goroutine is doing
  published,  \* how many events of a kind the broker has accepted
  requests,   \* how many requests were accepted (bounded)
  (* history: no step of the program reads these *)
  commits,    \* how many inserts and deletes of a row have committed
  unsent,     \* how many of those have lost their event to a fault
  committed,  \* every row there has ever been, by id
  suspect     \* ids whose cache entry an overlap or a fault may have spoiled

vars == <<db, cache, replica, call, published, requests, commits, unsent, committed, suspect>>
history == <<commits, unsent, committed>>

-----------------------------------------------------------------------------
(* Control of a call                                                       *)

At(p, step) == call[p] # NoCall /\ call[p].at = step

Goto(p, step) == call' = [call EXCEPT ![p].at = step]

\* Go on with the user just read.
GotoWith(p, step, user) ==
  call' = [call EXCEPT ![p] = [op |-> @.op, at |-> step, id |-> @.id, user |-> user]]

Return(p) == call' = [call EXCEPT ![p] = NoCall]

\* Add and Delete publish when a publisher is wired; every other use case ends.
PublishOrReturn(p) ==
  IF call[p].op \in {"add", "delete"} /\ HasPublisher
    THEN Goto(p, "publish")
    ELSE Return(p)

EventOf(c) == <<IF c.op = "add" THEN "created" ELSE "deleted", c.id>>

\* Calls that have committed e to the database and have not published it yet.
Unpublished(e) ==
  {p \in Procs : /\ call[p] # NoCall
                 /\ call[p].op \in {"add", "delete"}
                 /\ call[p].at \in {"set", "evict", "publish"}
                 /\ EventOf(call[p]) = e}

Begin(p, op, step, id, user) ==
  /\ call[p] = NoCall
  /\ requests < MaxRequests
  /\ requests' = requests + 1
  /\ call' = [call EXCEPT ![p] = [op |-> op, at |-> step, id |-> id, user |-> user]]
  /\ UNCHANGED <<db, cache, replica, published, history, suspect>>

-----------------------------------------------------------------------------
(* Requests.  Validate is pure and comes before any external call: a user   *)
(* it rejects is refused with nothing changed, so only valid ones begin.    *)

Validate(user) == user.profile \in Valid

Add(p, id, user) == Validate(user) /\ Begin(p, "add", "insert", id, user)

Update(p, id, user) == Validate(user) /\ Begin(p, "update", "update", id, user)

Delete(p, id) == Begin(p, "delete", "remove", id, Absent)

GetByID(p, id) == Begin(p, "get", "lookup", id, Absent)

\* The broker hands an event over at any time after accepting it, in any order
\* and any number of times: the handlers are only promised at-least-once.
ProcessUserCreated(p, id) ==
  published[<<"created", id>>] > 0 /\ Begin(p, "created", "read", id, Absent)

ProcessUserDeleted(p, id) ==
  published[<<"deleted", id>>] > 0 /\ Begin(p, "deleted", "evict", id, Absent)

-----------------------------------------------------------------------------
(* The database.  A query ends with its effect reported, with its effect    *)
(* made but an error reported (the query timeout), or with no effect.       *)

Taken(id, user) ==
  \E other \in Ids \ {id} :
    db[other] # Absent /\ Username(db[other].profile) = Username(user.profile)

\* Somebody else is about to write a user to the cache entry of id.
HeldByOther(p, id) ==
  \E q \in Procs \ {p} : At(q, "set") /\ call[q].id = id

\* The row of call p becomes row; the cache follows only if no other call can
\* overwrite it with what it read before, and only if the caller is told.
Commit(p, row, told) ==
  LET id == call[p].id IN
  /\ db' = [db EXCEPT ![id] = row]
  /\ committed' = IF row = Absent THEN committed ELSE committed \cup {<<id, row>>}
  /\ suspect' = IF HeldByOther(p, id) \/ ~told THEN suspect \cup {id} ELSE suspect

\* Call p has committed what its event tells; with no answer it never sends it.
CountCommit(p, told) ==
  /\ commits' = [commits EXCEPT ![EventOf(call[p])] = @ + 1]
  /\ unsent' = IF told THEN unsent ELSE [unsent EXCEPT ![EventOf(call[p])] = @ + 1]

\* The row INSERT writes: created_at and updated_at are the database's NOW().
Inserted(user, now) ==
  [profile |-> user.profile, password |-> user.password, created |-> now, updated |-> now]

\* The row UPDATE leaves: it writes updated_at = NOW(), and neither the password
\* nor created_at.
Updated(row, user, now) ==
  [profile |-> user.profile, password |-> row.password,
   created |-> row.created, updated |-> now]

DBAddUser(p) ==
  /\ At(p, "insert")
  /\ LET c == call[p] IN
     \/ /\ db[c.id] = Absent /\ ~Taken(c.id, c.user)
        /\ \E now \in Times :
             \/ /\ Commit(p, Inserted(c.user, now), TRUE) /\ CountCommit(p, TRUE)
                /\ Goto(p, "set")
             \/ /\ "db" \in Faults
                /\ Commit(p, Inserted(c.user, now), FALSE) /\ CountCommit(p, FALSE)
                /\ Return(p)
     \/ /\ db[c.id] # Absent \/ Taken(c.id, c.user) \/ "db" \in Faults
        /\ Return(p)
        /\ UNCHANGED <<db, history, suspect>>
  /\ UNCHANGED <<cache, replica, published, requests>>

\* mutant: RowsAffected is not looked at, so updating no row is a success.
DBUpdateUser_NoRowsCheck(p) ==
  /\ At(p, "update")
  /\ LET c == call[p] IN
     \/ /\ db[c.id] # Absent /\ ~Taken(c.id, c.user)
        /\ \E now \in Times : Commit(p, Updated(db[c.id], c.user, now), TRUE)
        /\ Goto(p, "set")
     \/ /\ db[c.id] = Absent
        /\ Goto(p, "set")
        /\ UNCHANGED <<db, committed, suspect>>
  /\ UNCHANGED <<cache, replica, published, requests, commits, unsent>>

\* An UPDATE that MySQL counts: RowsAffected is of the rows it has changed, and
\* the same values within the second NOW() is kept to change none.
Affects(row, updated) == MySQL => updated # row

\* An update that affects no row is reported as NotFound.
DBUpdateUser(p) ==
  /\ At(p, "update")
  /\ LET c == call[p] IN
     \/ /\ db[c.id] # Absent /\ ~Taken(c.id, c.user)
        /\ \E now \in Times :
             LET row == Updated(db[c.id], c.user, now) IN
             \/ Affects(db[c.id], row) /\ Commit(p, row, TRUE) /\ Goto(p, "set")
             \/ "db" \in Faults /\ Commit(p, row, FALSE) /\ Return(p)
             \/ /\ ~Affects(db[c.id], row)
                /\ Return(p)
                /\ UNCHANGED <<db, committed, suspect>>
     \/ /\ db[c.id] = Absent \/ Taken(c.id, c.user) \/ "db" \in Faults
        /\ Return(p)
        /\ UNCHANGED <<db, committed, suspect>>
  /\ UNCHANGED <<cache, replica, published, requests, commits, unsent>>

\* mutant: RowsAffected is not looked at, so deleting no row is a success.
DBDeleteUser_NoRowsCheck(p) ==
  /\ At(p, "remove")
  /\ LET c == call[p] IN
     \/ /\ db[c.id] # Absent
        /\ Commit(p, Absent, TRUE) /\ CountCommit(p, TRUE)
     \/ db[c.id] = Absent /\ UNCHANGED <<db, history, suspect>>
  /\ Goto(p, "evict")
  /\ UNCHANGED <<cache, replica, published, requests>>

DBDeleteUser(p) ==
  /\ At(p, "remove")
  /\ LET c == call[p] IN
     \/ /\ db[c.id] # Absent
        /\ \/ Commit(p, Absent, TRUE) /\ CountCommit(p, TRUE) /\ Goto(p, "evict")
           \/ /\ "db" \in Faults
              /\ Commit(p, Absent, FALSE) /\ CountCommit(p, FALSE) /\ Return(p)
     \/ /\ db[c.id] = Absent \/ "db" \in Faults
        /\ Return(p)
        /\ UNCHANGED <<db, history, suspect>>
  /\ UNCHANGED <<cache, replica, published, requests>>

\* mutant: the read is retried from the cache on until it finds something.
DBGetUserByID_Retries(p) ==
  /\ At(p, "read")
  /\ LET id == call[p].id IN
     \/ db[id] # Absent /\ GotoWith(p, "set", db[id])
     \/ db[id] = Absent /\ Goto(p, "lookup")
  /\ UNCHANGED <<db, cache, replica, published, requests, history, suspect>>

\* mutant: the handler of user.created caches what the event tells of the user.
DBGetUserByID_TrustsEvent(p) ==
  /\ At(p, "read")
  /\ LET id == call[p].id IN
     \/ /\ call[p].op = "created"
        /\ \E row \in Rows : <<id, row>> \in committed /\ GotoWith(p, "set", row)
     \/ /\ call[p].op = "get"
        /\ IF db[id] # Absent THEN GotoWith(p, "set", db[id]) ELSE Return(p)
  /\ UNCHANGED <<db, cache, replica, published, requests, history, suspect>>

DBGetUserByID(p) ==
  /\ At(p, "read")
  /\ LET id == call[p].id IN
     \/ /\ db[id] # Absent
        /\ GotoWith(p, "set", db[id])
     \/ /\ db[id] = Absent \/ "db" \in Faults
        /\ Return(p)
  /\ UNCHANGED <<db, cache, replica, published, requests, history, suspect>>

-----------------------------------------------------------------------------
(* The cache                                                               *)

ReadCache == IF HasReplica THEN replica ELSE cache

\* Any error of the read cache, no cache included, counts as a miss.
CacheGetUser(p) ==
  /\ At(p, "lookup")
  /\ LET id == call[p].id IN
     \/ /\ HasCache /\ ReadCache[id] # Absent
        /\ Return(p)
     \/ /\ ~HasCache \/ ReadCache[id] = Absent \/ "cache" \in Faults
        /\ Goto(p, "read")
  /\ UNCHANGED <<db, cache, replica, published, requests, history, suspect>>

\* A call whose database write is committed and whose cache step is still to come.
Owes(p, id) ==
  /\ call[p] # NoCall /\ call[p].id = id
  /\ \/ call[p].op \in {"add", "update"} /\ call[p].at = "set"
     \/ call[p].op = "delete" /\ call[p].at = "evict"

\* A cache step that fails is only logged: the entry keeps what it had.
CacheFails(p) ==
  /\ ~HasCache \/ "cache" \in Faults
  /\ suspect' = IF Owes(p, call[p].id) /\ HasCache
                  THEN suspect \cup {call[p].id} ELSE suspect
  /\ UNCHANGED cache

\* With the entry gone and nobody about to write it, the next read is a miss.
Emptied(id, p) == IF HeldByOther(p, id) THEN suspect ELSE suspect \ {id}

CacheSetUser(p) ==
  /\ At(p, "set")
  /\ \/ /\ HasCache
        /\ cache' = [cache EXCEPT ![call[p].id] = call[p].user]
        /\ UNCHANGED suspect
     \/ CacheFails(p)
  /\ PublishOrReturn(p)
  /\ UNCHANGED <<db, replica, published, requests, history>>

CacheDeleteUser(p) ==
  /\ At(p, "evict")
  /\ \/ /\ HasCache
        /\ cache' = [cache EXCEPT ![call[p].id] = Absent]
        /\ suspect' = Emptied(call[p].id, p)
     \/ CacheFails(p)
  /\ PublishOrReturn(p)
  /\ UNCHANGED <<db, replica, published, requests, history>>

\* mutant: SET without an expiry.
Expire_Never(id) ==
  /\ cache[id] # Absent
  /\ UNCHANGED vars

\* UserCacheTTL runs out (also an eviction by Redis under memory pressure).
Expire(id) ==
  /\ cache[id] # Absent
  /\ cache' = [cache EXCEPT ![id] = Absent]
  /\ suspect' = IF \E q \in Procs : At(q, "set") /\ call[q].id = id
                  THEN suspect ELSE suspect \ {id}
  /\ UNCHANGED <<db, replica, call, published, requests, history>>

\* Redis replication is asynchronous, key by key.
Replicate(id) ==
  /\ HasReplica /\ replica[id] # cache[id]
  /\ replica' = [replica EXCEPT ![id] = cache[id]]
  /\ UNCHANGED <<db, cache, call, published, requests, history, suspect>>

-----------------------------------------------------------------------------
(* The publisher and the process                                           *)

\* A failed publish is only logged; the event is never sent again.
Publish(p) ==
  /\ At(p, "publish")
  /\ LET e == EventOf(call[p]) IN
     \/ published' = [published EXCEPT ![e] = @ + 1] /\ UNCHANGED unsent
     \/ /\ "publish" \in Faults
        /\ unsent' = [unsent EXCEPT ![e] = @ + 1] /\ UNCHANGED published
  /\ Return(p)
  /\ UNCHANGED <<db, cache, replica, requests, commits, committed, suspect>>

\* The process dies and restarts: every call is forgotten where it stood.
Crash ==
  /\ "crash" \in Faults
  /\ \E p \in Procs : call[p] # NoCall
  /\ call' = [p \in Procs |-> NoCall]
  /\ suspect' = suspect \cup {id \in Ids : HasCache /\ \E p \in Procs : Owes(p, id)}
  /\ unsent' = [e \in Events |-> unsent[e] + Cardinality(Unpublished(e))]
  /\ UNCHANGED <<db, cache, replica, published, requests, commits, committed>>

-----------------------------------------------------------------------------
UniqueNames(table) ==
  \A id, other \in Ids :
    id # other /\ table[id] # Absent /\ table[other] # Absent
      => Username(table[id].profile) # Username(table[other].profile)

\* The table is what earlier processes have left.
Init ==
  /\ db \in [Ids -> {row \in Rows : row.profile \in Valid} \cup {Absent}]
  /\ UniqueNames(db)
  /\ cache = [id \in Ids |-> Absent]
  /\ replica = [id \in Ids |-> Absent]
  /\ call = [p \in Procs |-> NoCall]
  /\ published = [e \in Events |-> 0]
  /\ requests = 0
  /\ commits = [e \in Events |-> 0]
  /\ unsent = [e \in Events |-> 0]
  /\ committed = {<<id, db[id]>> : id \in {i \in Ids : db[i] # Absent}}
  /\ suspect = {}

Request(p) ==
  \E id \in Ids :
    \/ \E user \in Given : Add(p, id, user) \/ Update(p, id, user)
    \/ Delete(p, id) \/ GetByID(p, id)
    \/ ProcessUserCreated(p, id) \/ ProcessUserDeleted(p, id)

\* One external call of the request that p serves.
Serve(p) ==
  \/ DBAddUser(p) \/ DBUpdateUser(p) \/ DBDeleteUser(p) \/ DBGetUserByID(p)
  \/ CacheGetUser(p) \/ CacheSetUser(p) \/ CacheDeleteUser(p)
  \/ Publish(p)

Next ==
  \/ \E p \in Procs : Request(p) \/ Serve(p)
  \/ \E id \in Ids : Expire(id) \/ Replicate(id)
  \/ Crash

Spec == Init /\ [][Next]_vars

\* Every external call has a timeout, so a call that is not at rest moves on;
\* every cache entry has a TTL; a replica catches up.
Fairness ==
  /\ \A p \in Procs : WF_vars(Serve(p))
  /\ \A id \in Ids : WF_vars(Expire(id)) /\ WF_vars(Replicate(id))

FairSpec == Spec /\ Fairness

-----------------------------------------------------------------------------
\* A call is at a step of its own use case, with its caller's user or the row
\* it has read where it needs one.
OnPath(c) ==
  /\ c.at \in Path[c.op]
  /\ c.op \in {"add", "update"} => c.user \in Given
  /\ c.op \in {"get", "created"} /\ c.at = "set" => c.user \in Rows

TypeOK ==
  /\ db \in [Ids -> Rows \cup {Absent}]
  /\ cache \in [Ids -> Entry]
  /\ replica \in [Ids -> Entry]
  /\ call \in [Procs -> Calls \cup {NoCall}]
  /\ \A p \in Procs : call[p] # NoCall => OnPath(call[p])
  /\ published \in [Events -> Nat]
  /\ requests \in 0..MaxRequests
  /\ commits \in [Events -> Nat]
  /\ unsent \in [Events -> Nat]
  /\ committed \subseteq Ids \X Rows
  /\ suspect \subseteq Ids

\* A copy of a user agrees with the row: in the columns UPDATE writes from what
\* the caller gave, and in every column if it was read from the table.  A copy
\* that Add or Update made of its caller's user has no timestamps, and after
\* Update perhaps a password that is not the row's.
Agrees(user, row) ==
  /\ row # Absent
  /\ user.profile = row.profile
  /\ user \in Rows => user = row

Coherent(id) == cache[id] # Absent => Agrees(cache[id], db[id])

Settled(id) == \A p \in Procs : ~Owes(p, id)

\* The cache steps of Add, Update and Delete are enough, for what Agrees says:
\* between writes, an entry disagrees with its row only when calls on the id
\* overlapped (a commit while another call was about to write the entry), a
\* cache step failed, a commit was reported as an error, or the process died.
CacheCoherent == \A id \in Ids \ suspect : Settled(id) => Coherent(id)

\* What a call is about to write to an entry nothing has spoiled still agrees
\* with the row it has read or written, and only after Update has it a password
\* that need not be the row's.
HeldAgrees ==
  \A p \in Procs :
    At(p, "set") /\ call[p].id \notin suspect =>
      LET row == db[call[p].id] IN
      /\ Agrees(call[p].user, row)
      /\ call[p].op # "update" => call[p].user.password = row.password

\* The copy is one of a row there has been: that row, every column of it, if it
\* was read, and otherwise its profile alone.
CopyOfRow(id, user) ==
  IF user \in Rows
    THEN <<id, user>> \in committed
    ELSE \E row \in Rows : row.profile = user.profile /\ <<id, row>> \in committed

\* Nobody is served a profile that was not committed, nor columns of two rows
\* as one: in the caches and with the calls, however old (a replica that lags, a
\* stale fill), a copy with timestamps is one committed row, and one without has
\* the profile of one.
ServedWasCommitted ==
  /\ \A id \in Ids : cache[id] # Absent => CopyOfRow(id, cache[id])
  /\ \A id \in Ids : replica[id] # Absent => CopyOfRow(id, replica[id])
  /\ \A p \in Procs : At(p, "set") => CopyOfRow(call[p].id, call[p].user)

\* No commit loses its event but to a publish that fails, to a commit reported
\* as an error or to a crash, and no event is sent for a commit that never was.
EventsMatchCommits ==
  HasPublisher =>
    \A e \in Events :
      published[e] + Cardinality(Unpublished(e)) + unsent[e] = commits[e]

\* Whatever the path a user takes (a use case, an event's handler, a cache, its
\* replica), it has passed the validator: nothing else is ever stored or served.
OnlyValidStored ==
  \A table \in {db, cache, replica}, id \in Ids :
    table[id] # Absent => table[id].profile \in Valid

\* With one call at a time, and neither the database, the cache nor the process
\* failing, no entry is ever spoiled: suspect has no other cause than these.
SerialIsCoherent ==
  (\A p, q \in Procs : p = q) /\ Faults \cap {"db", "cache", "crash"} = {} =>
    suspect = {} /\ \A id \in Ids : Settled(id) => Coherent(id)

\* Once all calls are over, and if nothing failed, every commit has its event.
AtRestAllSent ==
  HasPublisher /\ Faults \cap {"db", "publish", "crash"} = {} /\ (\A p \in Procs : call[p] = NoCall)
    => published = commits

\* The external calls that the call of p still makes at most.
CallsLeft(p) ==
  IF call[p] = NoCall THEN 0
  ELSE CASE call[p].at = "lookup" -> 4
         [] call[p].at \in {"read", "insert", "update", "remove"} -> 3
         [] call[p].at \in {"set", "evict"} -> 2
         [] call[p].at = "publish" -> 1

\* A call is over after its external calls, four at most, whatever the others do:
\* none of its steps leads back, and no step but its own moves it, save a crash.
CallsRunDown ==
  [][\A p \in Procs :
       call[p] # NoCall =>
         /\ CallsLeft(p)' <= CallsLeft(p)
         /\ CallsLeft(p)' # CallsLeft(p) \/ UNCHANGED call[p]
         /\ Serve(p) => CallsLeft(p)' < CallsLeft(p)]_vars

-----------------------------------------------------------------------------
(* What a comment in the source says, and the column UPDATE leaves alone   *)
(* makes false (a run that expects a violation).                           *)

\* update_user.go: the cache entry is refreshed "with fresh data".
CachedPasswordIsFresh ==
  \A id \in Ids \ suspect :
    Settled(id) /\ cache[id] # Absent => cache[id].password = db[id].password

-----------------------------------------------------------------------------
\* Every accepted request is answered (a call waits for no other call).
Answered == \A p \in Procs : call[p] # NoCall ~> call[p] = NoCall

\* However a cache entry was spoiled, the TTL repairs it: once requests stop,
\* every entry that is still served agrees with its row, on the replica too.
Repaired ==
  <>[](\A id \in Ids :
        /\ Coherent(id)
        /\ HasReplica => replica[id] = cache[id])
=============================================================================
