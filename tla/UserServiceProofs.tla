--------------------------- MODULE UserServiceProofs ---------------------------
(***************************************************************************)
(* Proofs about UserService, for any sets of users, goroutines, profiles   *)
(* and passwords, any wiring of the repositories and any set of faults.    *)
(***************************************************************************)
EXTENDS UserService, FiniteSetTheorems, TLAPS

USE ConstantsAssumption

\* What TypeOK says of call alone.
CallOK == /\ call \in [Procs -> Calls \cup {NoCall}]
          /\ \A p \in Procs : call[p] # NoCall => OnPath(call[p])

(***************************************************************************)
(* Control of a call: what Goto, Return and PublishOrReturn leave in call. *)
(***************************************************************************)

\* A goroutine at a step serves a call, which is one of its use case's.
LEMMA AtType ==
  ASSUME TypeOK, NEW p \in Procs, NEW step, At(p, step)
  PROVE  call[p] \in Calls /\ call[p].at = step /\ OnPath(call[p])
  BY DEF TypeOK, At

\* Updating the step of a call, field by field.
LEMMA MoveCall ==
  ASSUME NEW c \in Calls, NEW step \in Steps
  PROVE  /\ [c EXCEPT !.at = step] =
              [op |-> c.op, at |-> step, id |-> c.id, user |-> c.user]
         /\ [c EXCEPT !.at = step] \in Calls
  BY DEF Calls

\* Moving a call to another step of its use case keeps the calls well formed.
LEMMA GotoType ==
  ASSUME TypeOK, NEW p \in Procs, call[p] \in Calls, NEW step \in Steps, Goto(p, step),
         step \in Path[call[p].op], step = "set" => call[p].op \in {"add", "update"}
  PROVE  CallOK'
  <1> DEFINE c == [op |-> call[p].op, at |-> step, id |-> call[p].id, user |-> call[p].user]
  <1>1. c \in Calls /\ [call[p] EXCEPT !.at = step] = c
    BY MoveCall
  <1> HIDE DEF c
  <1>2. OnPath(call[p])
    BY DEF TypeOK
  <1>3. OnPath(c)
    BY <1>2 DEF OnPath, c
  <1>4. call' = [call EXCEPT ![p] = c]
    BY <1>1 DEF Goto
  <1>5. QED
    BY <1>1, <1>3, <1>4 DEF TypeOK, CallOK

\* Ending a call keeps the calls well formed.
LEMMA ReturnType ==
  ASSUME TypeOK, NEW p \in Procs, Return(p)
  PROVE  CallOK'
  BY DEF TypeOK, Return, CallOK

\* So does what follows a cache step, for a use case that has one.
LEMMA PublishOrReturnType ==
  ASSUME TypeOK, NEW p \in Procs, call[p] \in Calls, PublishOrReturn(p)
  PROVE  CallOK'
  BY GotoType, ReturnType DEF PublishOrReturn, Steps, Path

\* A new call starts at a step of its use case.
LEMMA BeginType ==
  ASSUME TypeOK, NEW p \in Procs, NEW op \in Ops, NEW step \in Path[op],
         step \in Steps, NEW id \in Ids, NEW user \in Entry,
         op \in {"add", "update"} => user \in Given, step # "set",
         Begin(p, op, step, id, user)
  PROVE  TypeOK'
  <1>1. CallOK'
    BY DEF TypeOK, Begin, Calls, CallOK, OnPath
  <1>2. requests' \in 0..MaxRequests
    BY DEF TypeOK, Begin
  <1>3. QED
    BY <1>1, <1>2 DEF TypeOK, CallOK, Begin, history

\* A commit leaves a row, or none, and records it.
LEMMA CommitType ==
  ASSUME TypeOK, NEW p \in Procs, call[p] \in Calls, 
         NEW row \in Rows \cup {Absent}, NEW told \in BOOLEAN, Commit(p, row, told)
  PROVE  /\ db' \in [Ids -> Rows \cup {Absent}]
         /\ committed' \subseteq Ids \X Rows
         /\ suspect' \subseteq Ids
  <1>1. call[p].id \in Ids
    BY DEF Calls
  <1>2. QED
    BY <1>1 DEF TypeOK, Commit

\* INSERT writes a row with what the caller gave, and the time.
LEMMA InsertedRow ==
  ASSUME NEW user \in Given, NEW now \in Times
  PROVE  /\ Inserted(user, now) \in Rows /\ Inserted(user, now) # Absent
         /\ Inserted(user, now).profile = user.profile
         /\ Inserted(user, now).password = user.password
  BY DEF Inserted, Given, Rows, Users

\* UPDATE leaves a row with the caller's profile.
LEMMA UpdatedRow ==
  ASSUME NEW row \in Rows, NEW user \in Given, NEW now \in Times
  PROVE  /\ Updated(row, user, now) \in Rows /\ Updated(row, user, now) # Absent
         /\ Updated(row, user, now).profile = user.profile
  BY DEF Updated, Given, Rows, Users

\* A caller's user is no row: it has no timestamps.
LEMMA GivenIsNoRow ==
  ASSUME NEW user \in Given
  PROVE  user \notin Rows /\ user # Absent
  BY DEF Given, Rows, Users

\* Counting one more commit or event.
LEMMA CountType ==
  ASSUME NEW count \in [Events -> Nat], NEW e \in Events
  PROVE  [count EXCEPT ![e] = @ + 1] \in [Events -> Nat]
  <1>1. count[e] + 1 \in Nat
    OBVIOUS
  <1>2. QED
    BY <1>1

\* The count of a commit, and of an event lost with its answer.
LEMMA CountCommitType ==
  ASSUME TypeOK, NEW p \in Procs, NEW told \in BOOLEAN, EventOf(call[p]) \in Events,
         CountCommit(p, told)
  PROVE  commits' \in [Events -> Nat] /\ unsent' \in [Events -> Nat]
  BY CountType DEF CountCommit, TypeOK

\* Calls are finitely many, so those that owe an event can be counted.
LEMMA UnpublishedFinite ==
  ASSUME NEW e
  PROVE  IsFiniteSet(Unpublished(e)) /\ Cardinality(Unpublished(e)) \in Nat
  <1>1. Unpublished(e) \subseteq Procs
    BY DEF Unpublished
  <1>2. QED
    BY <1>1, FS_Subset, FS_CardinalityType

\* A request begins a call well formed.
LEMMA RequestType ==
  ASSUME TypeOK, NEW p \in Procs, Request(p)
  PROVE  TypeOK'
  <1>1. PICK id \in Ids :
          \/ \E user \in Given : Add(p, id, user) \/ Update(p, id, user)
          \/ Delete(p, id) \/ GetByID(p, id)
          \/ ProcessUserCreated(p, id) \/ ProcessUserDeleted(p, id)
    BY DEF Request
  <1>2. ASSUME NEW user \in Given, Add(p, id, user) \/ Update(p, id, user)
        PROVE  TypeOK'
    BY <1>2, BeginType DEF Add, Update, Ops, Steps, Entry, Users, Path
  <1>3. ASSUME \/ Delete(p, id) \/ GetByID(p, id)
               \/ ProcessUserCreated(p, id) \/ ProcessUserDeleted(p, id)
        PROVE  TypeOK'
    BY <1>3, BeginType
       DEF Delete, GetByID, ProcessUserCreated, ProcessUserDeleted, Ops, Steps, Entry, Path
  <1>4. QED
    BY <1>1, <1>2, <1>3

\* A step of a call keeps the types.
LEMMA ServeType ==
  ASSUME TypeOK, NEW p \in Procs, Serve(p)
  PROVE  TypeOK'
  <1> USE DEF history
  <1>1. CASE DBAddUser(p)
    <2>1. call[p] \in Calls /\ call[p].at = "insert" /\ OnPath(call[p])
      BY <1>1, AtType DEF DBAddUser
    <2>2. /\ call[p].user \in Given /\ call[p].op = "add"
          /\ EventOf(call[p]) \in Events
      BY <2>1 DEF Calls, Events, OnPath, Path, Ops, EventOf
    <2>3. CallOK'
      <3>1. Goto(p, "set") \/ Return(p)
        BY <1>1 DEF DBAddUser
      <3>2. QED
        BY <2>1, <2>2, <3>1, GotoType, ReturnType DEF Steps, Path
    <2>4. commits' \in [Events -> Nat] /\ unsent' \in [Events -> Nat]
      <3>1. \/ CountCommit(p, TRUE) \/ CountCommit(p, FALSE)
            \/ UNCHANGED <<commits, unsent>>
        BY <1>1 DEF DBAddUser
      <3>2. QED
        BY <2>2, <3>1, CountCommitType DEF TypeOK
    <2>5. /\ db' \in [Ids -> Rows \cup {Absent}]
          /\ committed' \subseteq Ids \X Rows
          /\ suspect' \subseteq Ids
      <3>1. CASE UNCHANGED <<db, committed, suspect>>
        BY <3>1 DEF TypeOK
      <3>2. ASSUME NEW now \in Times, NEW told \in BOOLEAN,
                   Commit(p, Inserted(call[p].user, now), told)
            PROVE  /\ db' \in [Ids -> Rows \cup {Absent}]
                   /\ committed' \subseteq Ids \X Rows
                   /\ suspect' \subseteq Ids
        BY <2>1, <2>2, <3>2, InsertedRow, CommitType
      <3>3. QED
        BY <1>1, <3>1, <3>2 DEF DBAddUser
    <2>6. QED
      BY <1>1, <2>3, <2>4, <2>5 DEF DBAddUser, TypeOK, CallOK
  <1>2. CASE DBUpdateUser(p)
    <2>1. call[p] \in Calls /\ call[p].at = "update" /\ OnPath(call[p])
      BY <1>2, AtType DEF DBUpdateUser
    <2>2. call[p].user \in Given /\ call[p].op = "update" /\ call[p].id \in Ids
      BY <2>1 DEF Calls, OnPath, Path, Ops
    <2> DEFINE row(now) == Updated(db[call[p].id], call[p].user, now)
    <2>3. db[call[p].id] # Absent => \A now \in Times : row(now) \in Rows
      BY <2>2, UpdatedRow DEF TypeOK
    <2>4. CallOK'
      <3>1. Goto(p, "set") \/ Return(p)
        BY <1>2 DEF DBUpdateUser
      <3>2. QED
        BY <2>1, <2>2, <3>1, GotoType, ReturnType DEF Steps, Path
    <2>5. /\ db' \in [Ids -> Rows \cup {Absent}]
          /\ committed' \subseteq Ids \X Rows
          /\ suspect' \subseteq Ids
      <3>1. CASE UNCHANGED <<db, committed, suspect>>
        BY <3>1 DEF TypeOK
      <3>2. ASSUME NEW now \in Times, NEW told \in BOOLEAN,
                   db[call[p].id] # Absent, Commit(p, row(now), told)
            PROVE  /\ db' \in [Ids -> Rows \cup {Absent}]
                   /\ committed' \subseteq Ids \X Rows
                   /\ suspect' \subseteq Ids
        BY <2>1, <2>3, <3>2, CommitType
      <3>3. QED
        BY <1>2, <3>1, <3>2 DEF DBUpdateUser
    <2>6. QED
      BY <1>2, <2>4, <2>5 DEF DBUpdateUser, TypeOK, CallOK
  <1>3. CASE DBDeleteUser(p)
    <2>1. call[p] \in Calls /\ call[p].at = "remove" /\ OnPath(call[p])
      BY <1>3, AtType DEF DBDeleteUser
    <2>2. call[p].op = "delete" /\ EventOf(call[p]) \in Events
      BY <2>1 DEF Calls, Events, OnPath, Path, Ops, EventOf
    <2>3. CallOK'
      <3>1. Goto(p, "evict") \/ Return(p)
        BY <1>3 DEF DBDeleteUser
      <3>2. QED
        BY <2>1, <2>2, <3>1, GotoType, ReturnType DEF Steps, Path
    <2>4. commits' \in [Events -> Nat] /\ unsent' \in [Events -> Nat]
      <3>1. \/ CountCommit(p, TRUE) \/ CountCommit(p, FALSE)
            \/ UNCHANGED <<commits, unsent>>
        BY <1>3 DEF DBDeleteUser
      <3>2. QED
        BY <2>2, <3>1, CountCommitType DEF TypeOK
    <2>5. /\ db' \in [Ids -> Rows \cup {Absent}]
          /\ committed' \subseteq Ids \X Rows
          /\ suspect' \subseteq Ids
      BY <1>3, <2>1, CommitType DEF DBDeleteUser, TypeOK
    <2>6. QED
      BY <1>3, <2>3, <2>4, <2>5 DEF DBDeleteUser, TypeOK, CallOK
  <1>4. CASE DBGetUserByID(p)
    <2>1. call[p] \in Calls /\ call[p].at = "read" /\ OnPath(call[p])
      BY <1>4, AtType DEF DBGetUserByID
    <2>2. call[p].id \in Ids /\ "set" \in Path[call[p].op]
      BY <2>1 DEF Calls, OnPath, Path, Ops
    <2>3. ASSUME db[call[p].id] # Absent, GotoWith(p, "set", db[call[p].id])
          PROVE  CallOK'
      <3> DEFINE c == [op |-> call[p].op, at |-> "set",
                       id |-> call[p].id, user |-> db[call[p].id]]
      <3>1. db[call[p].id] \in Rows
        BY <2>2, <2>3 DEF TypeOK
      <3>2. c \in Calls /\ OnPath(c)
        BY <2>1, <2>2, <3>1 DEF Calls, OnPath, Path, Steps, Entry, Users
      <3>3. QED
        BY <2>3, <3>2 DEF GotoWith, TypeOK, CallOK
    <2>4. CallOK'
      BY <1>4, <2>3, ReturnType DEF DBGetUserByID
    <2>5. QED
      BY <1>4, <2>4 DEF DBGetUserByID, TypeOK, CallOK
  <1>5. CASE CacheGetUser(p)
    <2>1. call[p] \in Calls /\ call[p].at = "lookup" /\ OnPath(call[p])
      BY <1>5, AtType DEF CacheGetUser
    <2>2. "read" \in Path[call[p].op]
      BY <2>1 DEF Calls, OnPath, Path, Ops
    <2>3. CallOK'
      BY <1>5, <2>1, <2>2, GotoType, ReturnType DEF CacheGetUser, Steps
    <2>4. QED
      BY <1>5, <2>3 DEF CacheGetUser, TypeOK, CallOK
  <1>6. CASE CacheSetUser(p)
    <2>1. call[p] \in Calls /\ call[p].id \in Ids
      BY <1>6, AtType DEF CacheSetUser, Calls
    <2>2. CallOK'
      BY <1>6, <2>1, PublishOrReturnType DEF CacheSetUser
    <2>3. cache' \in [Ids -> Entry] /\ suspect' \subseteq Ids
      BY <1>6, <2>1 DEF CacheSetUser, CacheFails, TypeOK, Calls
    <2>4. QED
      BY <1>6, <2>2, <2>3 DEF CacheSetUser, TypeOK, CallOK
  <1>7. CASE CacheDeleteUser(p)
    <2>1. call[p] \in Calls /\ call[p].id \in Ids
      BY <1>7, AtType DEF CacheDeleteUser, Calls
    <2>2. CallOK'
      BY <1>7, <2>1, PublishOrReturnType DEF CacheDeleteUser
    <2>3. cache' \in [Ids -> Entry] /\ suspect' \subseteq Ids
      BY <1>7, <2>1 DEF CacheDeleteUser, CacheFails, Emptied, TypeOK, Entry
    <2>4. QED
      BY <1>7, <2>2, <2>3 DEF CacheDeleteUser, TypeOK, CallOK
  <1>8. CASE Publish(p)
    <2>1. call[p] \in Calls
      BY <1>8, AtType DEF Publish
    <2>2. EventOf(call[p]) \in Events
      BY <2>1 DEF EventOf, Events, Calls
    <2>3. published' \in [Events -> Nat] /\ unsent' \in [Events -> Nat]
      BY <1>8, <2>2, CountType DEF Publish, TypeOK
    <2>4. QED
      BY <1>8, <2>3, ReturnType DEF Publish, TypeOK, CallOK
  <1>9. QED
    BY <1>1, <1>2, <1>3, <1>4, <1>5, <1>6, <1>7, <1>8 DEF Serve

\* One step keeps every variable's type.
LEMMA TypeNext == TypeOK /\ [Next]_vars => TypeOK'
  <1> SUFFICES ASSUME TypeOK, [Next]_vars PROVE TypeOK'
    OBVIOUS
  <1> USE DEF history
  <1>1. ASSUME NEW p \in Procs, Request(p) \/ Serve(p) PROVE TypeOK'
    BY <1>1, RequestType, ServeType
  <1>2. ASSUME NEW id \in Ids, Expire(id) \/ Replicate(id) PROVE TypeOK'
    BY <1>2 DEF Expire, Replicate, TypeOK, Entry
  <1>3. CASE Crash
    <2>1. unsent' \in [Events -> Nat]
      BY <1>3, UnpublishedFinite DEF Crash, TypeOK
    <2>2. QED
      BY <1>3, <2>1 DEF Crash, TypeOK
  <1>4. CASE UNCHANGED vars
    BY <1>4 DEF vars, TypeOK
  <1>5. QED
    BY <1>1, <1>2, <1>3, <1>4 DEF Next

\* Every variable keeps its type and every call stays on the path of its use
\* case, whatever the wiring and the faults.
THEOREM TypeCorrect == Spec => []TypeOK
  <1>1. Init => TypeOK
    <2> SUFFICES ASSUME Init PROVE TypeOK
      OBVIOUS
    <2>1. db \in [Ids -> Rows \cup {Absent}]
      BY DEF Init
    <2>2. committed \subseteq Ids \X Rows
      BY <2>1 DEF Init
    <2>3. QED
      BY <2>1, <2>2 DEF Init, TypeOK, Entry
  <1>2. QED
    BY <1>1, TypeNext, PTL DEF Spec

(***************************************************************************)
(* Coherence.  The inductive invariant, one user at a time: an id that is  *)
(* not suspect is held by no call that disagrees with its row, and once no *)
(* call owes it a cache step, its entry agrees with the row.               *)
(***************************************************************************)

Holds(q, id) == At(q, "set") /\ call[q].id = id

\* What a call has in hand, compared with the row it is about.
Fits(c, row) ==
  /\ Agrees(c.user, row)
  /\ c.op # "update" => c.user.password = row.password

Good(id) ==
  /\ ~HasCache => cache[id] = Absent
  /\ id \notin suspect =>
       /\ Settled(id) => Coherent(id)
       /\ \A q \in Procs : Holds(q, id) => Fits(call[q], db[id])

CoherenceInv == \A id \in Ids : Good(id)

\* The invariant says what the two properties say.
LEMMA CoherenceImplies == TypeOK /\ CoherenceInv => CacheCoherent /\ HeldAgrees
  BY DEF CoherenceInv, Good, Fits, CacheCoherent, HeldAgrees, Holds, At, TypeOK, Calls

\* What call p may do to itself: end, or stay on the same user.
SameUser(p) ==
  /\ \A q \in Procs \ {p} : call'[q] = call[q]
  /\ call'[p] # NoCall => call[p] # NoCall /\ call'[p].id = call[p].id

\* A call that moves or ends stays on its user, with the same user in hand.
LEMMA MoveSameUser ==
  ASSUME TypeOK, NEW p \in Procs, call[p] \in Calls, NEW step \in Steps,
         Goto(p, step) \/ Return(p)
  PROVE  /\ SameUser(p)
         /\ call'[p] # NoCall => call'[p] \in Calls /\ call'[p].at = step
                                 /\ call'[p].op = call[p].op
                                 /\ call'[p].user = call[p].user
  <1>1. CASE Goto(p, step)
    <2>1. call' = [call EXCEPT ![p] = [op |-> call[p].op, at |-> step,
                                       id |-> call[p].id, user |-> call[p].user]]
      BY <1>1, MoveCall DEF Goto, TypeOK
    <2>2. QED
      BY <2>1 DEF SameUser, TypeOK, Calls
  <1>2. CASE Return(p)
    BY <1>2 DEF Return, SameUser, TypeOK
  <1>3. QED
    BY <1>1, <1>2

\* A step of call p that touches nothing of another user leaves it good.
LEMMA Frame ==
  ASSUME TypeOK, NEW p \in Procs, SameUser(p), NEW id \in Ids, Good(id),
         call[p] = NoCall \/ call[p].id # id,
         db'[id] = db[id], cache'[id] = cache[id], id \in suspect' <=> id \in suspect
  PROVE  Good(id)'
  <1>1. \A q \in Procs : Holds(q, id)' => Holds(q, id) /\ call'[q] = call[q]
    BY DEF SameUser, Holds, At
  <1>2. \A q \in Procs : Owes(q, id) => Owes(q, id)'
    BY DEF SameUser, Owes
  <1>3. Settled(id)' => Settled(id)
    BY <1>2 DEF Settled
  <1>4. Coherent(id) => Coherent(id)'
    BY DEF Coherent
  <1>5. QED
    BY <1>1, <1>3, <1>4 DEF Good

\* A step of call p that touches neither the row nor the entry of its own user,
\* and neither drops nor takes up a cache step, leaves that user good.
LEMMA Quiet ==
  ASSUME TypeOK, NEW p \in Procs, SameUser(p), NEW id \in Ids, Good(id),
         ~Owes(p, id), ~Holds(p, id)',
         db'[id] = db[id], cache'[id] = cache[id], id \in suspect => id \in suspect'
  PROVE  Good(id)'
  <1>1. \A q \in Procs : Holds(q, id)' => Holds(q, id) /\ call'[q] = call[q]
    BY DEF SameUser, Holds, At
  <1>2. \A q \in Procs : Owes(q, id) => Owes(q, id)'
    BY DEF SameUser, Owes
  <1>3. Settled(id)' => Settled(id)
    BY <1>2 DEF Settled
  <1>4. Coherent(id) => Coherent(id)'
    BY DEF Coherent
  <1>5. QED
    BY <1>1, <1>3, <1>4 DEF Good

\* A commit that its call goes on to follow with a cache step.
LEMMA ToldCommit ==
  ASSUME TypeOK, NEW p \in Procs, NEW id \in Ids, call[p].id = id, Good(id),
         NEW row, Commit(p, row, TRUE), SameUser(p), cache' = cache,
         Owes(p, id)',
         Holds(p, id)' => Fits(call'[p], row)
  PROVE  Good(id)'
  <1>1. db'[id] = row
    BY DEF Commit, TypeOK
  <1>2. ~Settled(id)'
    BY DEF Settled
  <1>3. ASSUME id \notin suspect', NEW q \in Procs, Holds(q, id)'
        PROVE  q = p
    <2>1. ~HeldByOther(p, id)
      BY <1>3 DEF Commit
    <2>2. QED
      BY <1>3, <2>1 DEF HeldByOther, Holds, At, SameUser
  <1>4. QED
    BY <1>1, <1>2, <1>3 DEF Good

\* A commit that is reported as an error leaves its user suspect.
LEMMA UntoldCommit ==
  ASSUME NEW p \in Procs, NEW row, Commit(p, row, FALSE), NEW id \in Ids,
         call[p].id = id, Good(id), cache' = cache
  PROVE  Good(id)'
  BY DEF Commit, Good

\* A database or cache step of call p touches its own user only.
LEMMA ServeOthers ==
  ASSUME TypeOK, NEW p \in Procs, call[p] \in Calls, Serve(p),
         NEW id \in Ids, call[p].id # id
  PROVE  db'[id] = db[id] /\ cache'[id] = cache[id] /\ (id \in suspect' <=> id \in suspect)
  <1> USE DEF history, TypeOK
  <1>1. CASE DBAddUser(p)
    BY <1>1 DEF DBAddUser, Commit
  <1>2. CASE DBUpdateUser(p)
    BY <1>2 DEF DBUpdateUser, Commit
  <1>3. CASE DBDeleteUser(p)
    BY <1>3 DEF DBDeleteUser, Commit
  <1>4. CASE DBGetUserByID(p) \/ CacheGetUser(p) \/ Publish(p)
    BY <1>4 DEF DBGetUserByID, CacheGetUser, Publish
  <1>5. CASE CacheSetUser(p)
    BY <1>5 DEF CacheSetUser, CacheFails
  <1>6. CASE CacheDeleteUser(p)
    BY <1>6 DEF CacheDeleteUser, CacheFails, Emptied
  <1>7. QED
    BY <1>1, <1>2, <1>3, <1>4, <1>5, <1>6 DEF Serve

\* Every step of a call stays on the user the call is for.
LEMMA ServeSameUser ==
  ASSUME TypeOK, NEW p \in Procs, Serve(p)
  PROVE  call[p] \in Calls /\ SameUser(p)
  <1>1. call[p] \in Calls
    BY AtType DEF Serve, DBAddUser, DBUpdateUser, DBDeleteUser, DBGetUserByID,
                  CacheGetUser, CacheSetUser, CacheDeleteUser, Publish
  <1>2. ASSUME NEW step \in Steps, Goto(p, step) \/ Return(p)
        PROVE  SameUser(p)
    BY <1>1, <1>2, MoveSameUser
  <1>3. ASSUME NEW user, GotoWith(p, "set", user)
        PROVE  SameUser(p)
    BY <1>1, <1>3 DEF GotoWith, SameUser, TypeOK
  <1>4. \/ \E step \in Steps : Goto(p, step) \/ Return(p)
        \/ \E user : GotoWith(p, "set", user)
    <2>1. CASE DBAddUser(p)
      BY <2>1 DEF DBAddUser, Steps
    <2>2. CASE DBUpdateUser(p)
      BY <2>2 DEF DBUpdateUser, Steps
    <2>3. CASE DBDeleteUser(p)
      BY <2>3 DEF DBDeleteUser, Steps
    <2>4. CASE DBGetUserByID(p)
      BY <2>4 DEF DBGetUserByID, Steps
    <2>5. CASE CacheGetUser(p)
      BY <2>5 DEF CacheGetUser, Steps
    <2>6. CASE CacheSetUser(p) \/ CacheDeleteUser(p)
      BY <2>6 DEF CacheSetUser, CacheDeleteUser, PublishOrReturn, Steps
    <2>7. CASE Publish(p)
      BY <2>7 DEF Publish, Steps
    <2>8. QED
      BY <2>1, <2>2, <2>3, <2>4, <2>5, <2>6, <2>7 DEF Serve
  <1>5. QED
    BY <1>1, <1>2, <1>3, <1>4

\* A step of call p leaves the user it is for good.
LEMMA ServeOwn ==
  ASSUME TypeOK, NEW p \in Procs, Serve(p), NEW id \in Ids, call[p].id = id, Good(id)
  PROVE  Good(id)'
  <1> USE DEF history
  <1>1. call[p] \in Calls /\ SameUser(p)
    BY ServeSameUser
  <1>2. ASSUME Return(p) PROVE call'[p] = NoCall
    BY <1>2 DEF Return, TypeOK
  <1>3. ASSUME NEW step \in Steps, Goto(p, step)
        PROVE  /\ call'[p] \in Calls /\ call'[p].at = step
               /\ call'[p].op = call[p].op /\ call'[p].id = id
               /\ call'[p].user = call[p].user
               /\ call'[p] # NoCall
    BY <1>1, <1>3, MoveCall DEF Goto, TypeOK, Calls
  <1>4. CASE DBAddUser(p)
    <2>1. call[p].op = "add" /\ call[p].at = "insert" /\ call[p].user \in Given
      BY <1>4, AtType DEF DBAddUser, OnPath, Path, Calls, Ops
    <2>2. ASSUME NEW now \in Times, Commit(p, Inserted(call[p].user, now), TRUE), Goto(p, "set")
          PROVE  Good(id)'
      <3>1. Owes(p, id)'
        BY <1>3, <2>1, <2>2 DEF Owes, Steps
      <3>2. Fits(call'[p], Inserted(call[p].user, now))
        BY <1>3, <2>1, <2>2, InsertedRow, GivenIsNoRow DEF Fits, Agrees, Steps
      <3>3. QED
        BY <1>1, <1>4, <2>2, <3>1, <3>2, ToldCommit DEF DBAddUser
    <2>3. ASSUME NEW now \in Times, Commit(p, Inserted(call[p].user, now), FALSE), Return(p)
          PROVE  Good(id)'
      BY <1>4, <2>3, UntoldCommit DEF DBAddUser
    <2>4. CASE Return(p) /\ UNCHANGED <<db, history, suspect>>
      BY <1>1, <1>2, <1>4, <2>1, <2>4, Quiet DEF DBAddUser, Owes, Holds, At
    <2>5. QED
      BY <1>4, <2>2, <2>3, <2>4 DEF DBAddUser
  <1>5. CASE DBUpdateUser(p)
    <2>1. call[p].op = "update" /\ call[p].at = "update" /\ call[p].user \in Given
      BY <1>5, AtType DEF DBUpdateUser, OnPath, Path, Calls, Ops
    <2> DEFINE row(now) == Updated(db[id], call[p].user, now)
    <2>2. ASSUME NEW now \in Times, db[id] # Absent, Commit(p, row(now), TRUE), Goto(p, "set")
          PROVE  Good(id)'
      <3>1. Owes(p, id)'
        BY <1>3, <2>1, <2>2 DEF Owes, Steps
      <3>2. row(now) # Absent /\ row(now).profile = call[p].user.profile
        BY <2>1, <2>2, UpdatedRow DEF TypeOK
      <3> HIDE DEF row
      <3>3. Fits(call'[p], row(now))
        BY <1>3, <2>1, <2>2, <3>2, GivenIsNoRow DEF Fits, Agrees, Steps
      <3>4. QED
        BY <1>1, <1>5, <2>2, <3>1, <3>3, ToldCommit DEF DBUpdateUser
    <2>3. ASSUME NEW now \in Times, Commit(p, row(now), FALSE), Return(p)
          PROVE  Good(id)'
      BY <1>5, <2>3, UntoldCommit DEF DBUpdateUser
    <2>4. CASE Return(p) /\ UNCHANGED <<db, committed, suspect>>
      BY <1>1, <1>2, <1>5, <2>1, <2>4, Quiet DEF DBUpdateUser, Owes, Holds, At
    <2>5. QED
      BY <1>5, <2>2, <2>3, <2>4 DEF DBUpdateUser
  <1>6. CASE DBDeleteUser(p)
    <2>1. call[p].op = "delete" /\ call[p].at = "remove"
      BY <1>6, AtType DEF DBDeleteUser, OnPath, Path, Calls, Ops
    <2>2. CASE Commit(p, Absent, TRUE) /\ Goto(p, "evict")
      <3>1. Owes(p, id)' /\ ~Holds(p, id)'
        BY <1>3, <2>1, <2>2 DEF Owes, Holds, At, Steps
      <3>2. QED
        BY <1>1, <1>6, <2>2, <3>1, ToldCommit DEF DBDeleteUser
    <2>3. CASE Commit(p, Absent, FALSE) /\ Return(p)
      BY <1>6, <2>3, UntoldCommit DEF DBDeleteUser
    <2>4. CASE Return(p) /\ UNCHANGED <<db, history, suspect>>
      BY <1>1, <1>2, <1>6, <2>1, <2>4, Quiet DEF DBDeleteUser, Owes, Holds, At
    <2>5. QED
      BY <1>6, <2>2, <2>3, <2>4 DEF DBDeleteUser
  <1>7. CASE DBGetUserByID(p)
    <2>1. call[p].op \in {"get", "created"} /\ call[p].at = "read"
      BY <1>7, AtType DEF DBGetUserByID, OnPath, Path, Calls, Ops
    <2>2. CASE db[id] # Absent /\ GotoWith(p, "set", db[id])
      <3>1. \A q \in Procs \ {p} : call'[q] = call[q]
        BY <2>2 DEF GotoWith, TypeOK
      <3>2. call'[p].user = db[id]
        BY <2>2 DEF GotoWith, TypeOK
      <3>3. Settled(id)' => Settled(id)
        BY <2>1, <3>1 DEF Settled, Owes
      <3>4. QED
        BY <1>7, <2>2, <3>1, <3>2, <3>3
           DEF DBGetUserByID, Good, Coherent, Fits, Agrees, Holds, At
    <2>3. CASE Return(p)
      BY <1>1, <1>2, <1>7, <2>1, <2>3, Quiet DEF DBGetUserByID, Owes, Holds, At
    <2>4. QED
      BY <1>7, <2>2, <2>3 DEF DBGetUserByID
  <1>8. CASE CacheGetUser(p)
    <2>1. call[p].at = "lookup"
      BY <1>8, AtType DEF CacheGetUser
    <2>2. Goto(p, "read") \/ Return(p)
      BY <1>8 DEF CacheGetUser
    <2>3. ~Owes(p, id) /\ ~Holds(p, id)'
      BY <1>2, <1>3, <2>1, <2>2 DEF Owes, Holds, At, Steps
    <2>4. QED
      BY <1>1, <1>8, <2>3, Quiet DEF CacheGetUser
  <1>9. CASE Publish(p)
    <2>1. call[p].at = "publish"
      BY <1>9, AtType DEF Publish
    <2>2. ~Owes(p, id) /\ ~Holds(p, id)'
      BY <1>2, <1>9, <2>1 DEF Publish, Owes, Holds, At
    <2>3. QED
      BY <1>1, <1>9, <2>2, Quiet DEF Publish
  <1>10. ASSUME PublishOrReturn(p)
         PROVE  ~Owes(p, id)' /\ ~Holds(p, id)'
    BY <1>2, <1>3, <1>10 DEF PublishOrReturn, Owes, Holds, At, Steps
  <1>11. \A q \in Procs \ {p} : call'[q] = call[q]
    BY <1>1 DEF SameUser
  <1>12. ASSUME CacheFails(p), PublishOrReturn(p), db' = db
         PROVE  Good(id)'
    <2>1. CASE Owes(p, id) /\ HasCache
      BY <1>12, <2>1 DEF CacheFails, Good
    <2>2. CASE ~Owes(p, id)
      BY <1>1, <1>10, <1>12, <2>2, Quiet DEF CacheFails
    <2>3. CASE ~HasCache
      <3>1. Coherent(id)'
        BY <1>12, <2>3 DEF CacheFails, Good, Coherent
      <3>2. \A q \in Procs : Holds(q, id)' => Holds(q, id) /\ call'[q] = call[q]
        BY <1>10, <1>11, <1>12 DEF Holds, At
      <3>3. QED
        BY <1>12, <2>3, <3>1, <3>2 DEF CacheFails, Good
    <2>4. QED
      BY <2>1, <2>2, <2>3
  <1>13. CASE CacheSetUser(p)
    <2>1. Holds(p, id)
      BY <1>13 DEF CacheSetUser, Holds
    <2>2. CASE /\ HasCache
               /\ cache' = [cache EXCEPT ![id] = call[p].user]
               /\ UNCHANGED suspect
      <3>1. id \notin suspect => Coherent(id)'
        BY <1>13, <2>1, <2>2 DEF CacheSetUser, Good, Fits, Coherent, TypeOK
      <3>2. \A q \in Procs : Holds(q, id)' => Holds(q, id) /\ call'[q] = call[q]
        BY <1>10, <1>11, <1>13 DEF CacheSetUser, Holds, At
      <3>3. QED
        BY <1>13, <2>2, <3>1, <3>2 DEF CacheSetUser, Good
    <2>3. QED
      BY <1>12, <1>13, <2>2 DEF CacheSetUser
  <1>14. CASE CacheDeleteUser(p)
    <2>1. CASE /\ HasCache
               /\ cache' = [cache EXCEPT ![id] = Absent]
               /\ suspect' = Emptied(id, p)
      <3>1. Coherent(id)'
        BY <2>1 DEF Coherent, TypeOK
      <3>2. \A q \in Procs : Holds(q, id)' => q # p /\ Holds(q, id) /\ call'[q] = call[q]
        BY <1>10, <1>11, <1>14 DEF CacheDeleteUser, Holds, At
      <3>3. ASSUME id \notin suspect', NEW q \in Procs, Holds(q, id)'
            PROVE  id \notin suspect
        BY <2>1, <3>2, <3>3 DEF Emptied, HeldByOther, Holds
      <3>4. QED
        BY <1>14, <2>1, <3>1, <3>2, <3>3 DEF CacheDeleteUser, Good
    <2>2. QED
      BY <1>12, <1>14, <2>1 DEF CacheDeleteUser
  <1>15. QED
    BY <1>4, <1>5, <1>6, <1>7, <1>8, <1>9, <1>13, <1>14 DEF Serve

\* A request begins a call that holds nothing yet.
LEMMA RequestBegins ==
  ASSUME NEW p \in Procs, Request(p)
  PROVE  \E op \in Ops, step \in Steps, i \in Ids, user \in Entry :
           Begin(p, op, step, i, user) /\ step \notin {"set", "publish"}
             /\ (step = "evict" => op = "deleted")
  <1>1. PICK i \in Ids :
          \/ \E user \in Given : Add(p, i, user) \/ Update(p, i, user)
          \/ Delete(p, i) \/ GetByID(p, i)
          \/ ProcessUserCreated(p, i) \/ ProcessUserDeleted(p, i)
    BY DEF Request
  <1>2. CASE \E user \in Given : Add(p, i, user) \/ Update(p, i, user)
    BY <1>2 DEF Add, Update, Ops, Steps, Entry, Users
  <1>3. CASE Delete(p, i) \/ GetByID(p, i)
    BY <1>3 DEF Delete, GetByID, Ops, Steps, Entry
  <1>4. CASE ProcessUserCreated(p, i) \/ ProcessUserDeleted(p, i)
    BY <1>4 DEF ProcessUserCreated, ProcessUserDeleted, Ops, Steps, Entry
  <1>5. QED
    BY <1>1, <1>2, <1>3, <1>4

\* One step of the system keeps every user good.
LEMMA CoherenceNext == TypeOK /\ CoherenceInv /\ [Next]_vars => CoherenceInv'
  <1> SUFFICES ASSUME TypeOK, CoherenceInv, [Next]_vars, NEW id \in Ids
               PROVE  Good(id)'
    BY DEF CoherenceInv
  <1> USE DEF history
  <1>1. Good(id)
    BY DEF CoherenceInv
  <1>2. ASSUME NEW p \in Procs, Serve(p)
        PROVE  Good(id)'
    <2>1. call[p] \in Calls /\ SameUser(p)
      BY <1>2, ServeSameUser
    <2>2. CASE call[p].id = id
      BY <1>1, <1>2, <2>2, ServeOwn
    <2>3. CASE call[p].id # id
      BY <1>1, <1>2, <2>1, <2>3, ServeOthers, Frame
    <2>4. QED
      BY <2>2, <2>3
  <1>3. ASSUME NEW p \in Procs, Request(p)
        PROVE  Good(id)'
    <2>1. PICK op \in Ops, step \in Steps, i \in Ids, user \in Entry :
            Begin(p, op, step, i, user) /\ step \notin {"set", "publish"}
      BY <1>3, RequestBegins
    <2>2. /\ call[p] = NoCall /\ db' = db /\ cache' = cache /\ suspect' = suspect
          /\ call' = [call EXCEPT ![p] = [op |-> op, at |-> step, id |-> i, user |-> user]]
      BY <2>1 DEF Begin
    <2>3. \A q \in Procs : q # p => call'[q] = call[q]
      BY <2>2 DEF TypeOK
    <2>4. call'[p].at = step
      BY <2>2 DEF TypeOK
    <2>5. \A q \in Procs : Holds(q, id)' => Holds(q, id) /\ call'[q] = call[q]
      BY <2>1, <2>3, <2>4 DEF Holds, At
    <2>6. Settled(id)' => Settled(id)
      BY <2>2, <2>3 DEF Settled, Owes
    <2>7. QED
      BY <1>1, <2>2, <2>5, <2>6 DEF Good, Coherent
  <1>4. ASSUME NEW i \in Ids, Expire(i)
        PROVE  Good(id)'
    <2>1. /\ cache' = [cache EXCEPT ![i] = Absent] /\ db' = db /\ call' = call
          /\ suspect' = IF \E q \in Procs : Holds(q, i) THEN suspect ELSE suspect \ {i}
      BY <1>4 DEF Expire, Holds
    <2>2. CASE i = id
      BY <1>1, <2>1, <2>2 DEF Good, Coherent, TypeOK, Holds, At
    <2>3. CASE i # id
      BY <1>1, <2>1, <2>3 DEF Good, Coherent, TypeOK, Holds, At, Settled, Owes
    <2>4. QED
      BY <2>2, <2>3
  <1>5. CASE Crash
    <2>1. CASE \E p \in Procs : Owes(p, id)
      BY <1>1, <1>5, <2>1 DEF Crash, Good, Coherent, Holds, At
    <2>2. CASE Settled(id)
      BY <1>1, <1>5, <2>2 DEF Crash, Good, Coherent, Holds, At
    <2>3. QED
      BY <2>1, <2>2 DEF Settled
  <1>6. ASSUME UNCHANGED <<db, cache, call, suspect>>
        PROVE  Good(id)'
    BY <1>1, <1>6 DEF Good, Coherent, Holds, At, Settled, Owes
  <1>7. QED
    BY <1>2, <1>3, <1>4, <1>5, <1>6 DEF Next, Replicate, vars

\* Between writes, the cache disagrees with the table only where calls on the
\* user overlapped or something failed, in the columns UPDATE takes from its
\* caller and, for an entry that was read from the table, in any column.  Nor is a call
\* about to write to an entry nothing has spoiled what disagrees: a read's call holds
\* the row itself, one of Add or Update a user with the row's profile and without
\* timestamps, which only after Update may lack the row's password.
THEOREM Coherence == Spec => [](CacheCoherent /\ HeldAgrees)
  <1>1. Init => CoherenceInv
    BY DEF Init, CoherenceInv, Good, Coherent, Holds, At
  <1>2. QED
    BY <1>1, TypeCorrect, CoherenceNext, CoherenceImplies, PTL DEF Spec

(***************************************************************************)
(* Provenance: everything the caches and the calls hold was once in the    *)
(* table.                                                                  *)
(***************************************************************************)

Was(id, user) == user # Absent => CopyOfRow(id, user)

Provenance ==
  /\ \A id \in Ids : db[id] # Absent => <<id, db[id]>> \in committed
  /\ \A id \in Ids : Was(id, cache[id]) /\ Was(id, replica[id])
  /\ \A p \in Procs : At(p, "set") => Was(call[p].id, call[p].user)

\* The invariant says what the property says.
LEMMA ProvenanceImplies == TypeOK /\ Provenance => ServedWasCommitted
  <1> SUFFICES ASSUME TypeOK, Provenance PROVE ServedWasCommitted
    OBVIOUS
  <1>1. \A p \in Procs : At(p, "set") => call[p].user # Absent
    <2>1. ASSUME NEW p \in Procs, At(p, "set") PROVE call[p].user \in Users
      BY <2>1, AtType DEF OnPath, Path, Calls, Ops, Users
    <2>2. QED
      BY <2>1
  <1>2. QED
    BY <1>1 DEF Provenance, Was, ServedWasCommitted

\* What was a copy of a row stays one: no row is forgotten.
LEMMA CopyKept ==
  ASSUME NEW id, NEW user, committed \subseteq committed', CopyOfRow(id, user)
  PROVE  CopyOfRow(id, user)'
  BY DEF CopyOfRow

\* A commit records the row it leaves, and forgets nothing.
LEMMA CommitRecords ==
  ASSUME TypeOK, NEW p \in Procs, call[p] \in Calls, NEW row, NEW told,
         Commit(p, row, told), Provenance
  PROVE  /\ committed \subseteq committed'
         /\ \A id \in Ids : db'[id] # Absent => <<id, db'[id]>> \in committed'
         /\ row # Absent => <<call[p].id, row>> \in committed'
  BY DEF Commit, Provenance, TypeOK, Calls

\* The calls keep it when p ends, or when what p then holds was committed.
LEMMA HoldersServed ==
  ASSUME TypeOK, Provenance, NEW p \in Procs, SameUser(p), committed \subseteq committed',
         At(p, "set")' => CopyOfRow(call[p].id, call[p].user)'
  PROVE  (\A q \in Procs : At(q, "set") => Was(call[q].id, call[q].user))'
  <1> SUFFICES ASSUME NEW q \in Procs, At(q, "set")'
               PROVE  Was(call[q].id, call[q].user)'
    OBVIOUS
  <1>1. CASE q = p
    BY <1>1 DEF Was
  <1>2. CASE q # p
    BY <1>2, CopyKept DEF SameUser, Provenance, Was, At
  <1>3. QED
    BY <1>1, <1>2

\* A step of a call writes and picks up nothing that was not in the table.
LEMMA ServeProvenance ==
  ASSUME TypeOK, Provenance, NEW p \in Procs, Serve(p)
  PROVE  Provenance'
  <1> USE DEF history
  <1>1. call[p] \in Calls /\ call[p].id \in Ids /\ SameUser(p)
    BY ServeSameUser DEF Calls
  <1>2. ASSUME Return(p) PROVE ~At(p, "set")'
    BY <1>2 DEF Return, At, TypeOK
  <1>3. ASSUME NEW step \in Steps, Goto(p, step)
        PROVE  /\ call'[p].at = step
               /\ call'[p].id = call[p].id /\ call'[p].user = call[p].user
    BY <1>1, <1>3, MoveCall DEF Goto, TypeOK, Calls
  <1>4. ASSUME \/ CacheSetUser(p) \/ CacheDeleteUser(p)
               \/ CacheGetUser(p) \/ Publish(p)
        PROVE  ~At(p, "set")'
    BY <1>2, <1>3, <1>4
       DEF CacheSetUser, CacheDeleteUser, CacheGetUser, Publish, PublishOrReturn, Steps, At
  <1>5. CASE DBAddUser(p) \/ DBUpdateUser(p) \/ DBDeleteUser(p)
    <2>1. PICK row, told :
            /\ \/ Commit(p, row, told)
               \/ UNCHANGED <<db, committed>> /\ Return(p)
            /\ \/ Return(p) \/ Goto(p, "evict")
               \/ /\ Goto(p, "set") /\ row \in Rows
                  /\ call[p].user \in Given /\ row.profile = call[p].user.profile
            /\ UNCHANGED <<cache, replica>>
      <3>1. CASE DBAddUser(p)
        <4> DEFINE row(now) == Inserted(call[p].user, now)
        <4>1. call[p].user \in Given
          BY <3>1, AtType DEF DBAddUser, OnPath, Path, Calls, Ops
        <4>2. \A now \in Times : row(now) \in Rows /\ row(now).profile = call[p].user.profile
          BY <4>1, InsertedRow
        <4>3. \/ \E now \in Times : Commit(p, row(now), TRUE) /\ Goto(p, "set")
              \/ \E now \in Times : Commit(p, row(now), FALSE) /\ Return(p)
              \/ UNCHANGED <<db, committed>> /\ Return(p)
          BY <3>1 DEF DBAddUser
        <4>4. UNCHANGED <<cache, replica>>
          BY <3>1 DEF DBAddUser
        <4> HIDE DEF row
        <4>5. QED
          BY <4>1, <4>2, <4>3, <4>4
      <3>2. CASE DBUpdateUser(p)
        <4> DEFINE row(now) == Updated(db[call[p].id], call[p].user, now)
        <4>1. call[p].user \in Given
          BY <3>2, AtType DEF DBUpdateUser, OnPath, Path, Calls, Ops
        <4>2. db[call[p].id] # Absent =>
                \A now \in Times : row(now) \in Rows /\ row(now).profile = call[p].user.profile
          BY <1>1, <4>1, UpdatedRow DEF TypeOK
        <4>3. \/ /\ db[call[p].id] # Absent
                 /\ \E now \in Times : Commit(p, row(now), TRUE) /\ Goto(p, "set")
              \/ \E now \in Times : Commit(p, row(now), FALSE) /\ Return(p)
              \/ UNCHANGED <<db, committed>> /\ Return(p)
          BY <3>2 DEF DBUpdateUser
        <4>4. UNCHANGED <<cache, replica>>
          BY <3>2 DEF DBUpdateUser
        <4> HIDE DEF row
        <4>5. QED
          BY <4>1, <4>2, <4>3, <4>4
      <3>3. CASE DBDeleteUser(p)
        BY <3>3 DEF DBDeleteUser
      <3>4. QED
        BY <1>5, <3>1, <3>2, <3>3
    <2>2. CASE UNCHANGED <<db, committed>> /\ Return(p)
      <3>1. (\A q \in Procs : At(q, "set") => Was(call[q].id, call[q].user))'
        BY <1>1, <1>2, <2>2, HoldersServed
      <3>2. QED
        BY <2>1, <2>2, <3>1 DEF Provenance, Was, CopyOfRow
    <2>3. CASE Commit(p, row, told)
      <3>1. /\ committed \subseteq committed'
            /\ \A id \in Ids : db'[id] # Absent => <<id, db'[id]>> \in committed'
            /\ row # Absent => <<call[p].id, row>> \in committed'
        BY <1>1, <2>3, CommitRecords
      <3>2. At(p, "set")' => CopyOfRow(call[p].id, call[p].user)'
        <4>1. CASE Return(p)
          BY <1>2, <4>1
        <4>2. CASE Goto(p, "evict")
          BY <1>3, <4>2 DEF At, Steps
        <4>3. CASE /\ Goto(p, "set") /\ row \in Rows
                   /\ call[p].user \in Given /\ row.profile = call[p].user.profile
          <5>1. call'[p].id = call[p].id /\ call'[p].user = call[p].user
            BY <1>3, <4>3 DEF Steps
          <5>2. row # Absent /\ call[p].user \notin Rows
            BY <4>3, GivenIsNoRow DEF Users
          <5>3. QED
            BY <3>1, <4>3, <5>1, <5>2 DEF CopyOfRow
        <4>4. QED
          BY <2>1, <4>1, <4>2, <4>3
      <3>3. (\A q \in Procs : At(q, "set") => Was(call[q].id, call[q].user))'
        BY <1>1, <3>1, <3>2, HoldersServed
      <3>4. QED
        BY <2>1, <3>1, <3>3, CopyKept DEF Provenance, Was
    <2>4. QED
      BY <2>1, <2>2, <2>3
  <1>6. CASE DBGetUserByID(p)
    <2>1. ASSUME GotoWith(p, "set", db[call[p].id]), db[call[p].id] # Absent
          PROVE  CopyOfRow(call[p].id, call[p].user)'
      BY <1>1, <1>6, <2>1 DEF GotoWith, DBGetUserByID, TypeOK, Provenance, CopyOfRow
    <2>2. (\A q \in Procs : At(q, "set") => Was(call[q].id, call[q].user))'
      BY <1>1, <1>2, <1>6, <2>1, HoldersServed DEF DBGetUserByID
    <2>3. QED
      BY <1>6, <2>2 DEF DBGetUserByID, Provenance, Was, CopyOfRow
  <1>7. CASE \/ CacheSetUser(p) \/ CacheDeleteUser(p)
             \/ CacheGetUser(p) \/ Publish(p)
    <2>1. UNCHANGED <<db, replica, committed>>
      BY <1>7 DEF CacheSetUser, CacheDeleteUser, CacheGetUser, Publish
    <2>2. (\A q \in Procs : At(q, "set") => Was(call[q].id, call[q].user))'
      BY <1>1, <1>4, <1>7, <2>1, HoldersServed
    <2>3. \A id \in Ids : Was(id, cache[id])'
      <3>1. CASE CacheSetUser(p)
        BY <1>1, <2>1, <3>1 DEF CacheSetUser, CacheFails, Provenance, Was, CopyOfRow, TypeOK
      <3>2. CASE CacheDeleteUser(p)
        BY <1>1, <2>1, <3>2 DEF CacheDeleteUser, CacheFails, Provenance, Was, CopyOfRow, TypeOK
      <3>3. CASE CacheGetUser(p) \/ Publish(p)
        BY <2>1, <3>3 DEF CacheGetUser, Publish, Provenance, Was, CopyOfRow
      <3>4. QED
        BY <1>7, <3>1, <3>2, <3>3
    <2>4. QED
      BY <2>1, <2>2, <2>3 DEF Provenance, Was, CopyOfRow
  <1>8. QED
    BY <1>5, <1>6, <1>7 DEF Serve

\* One step of the system keeps the provenance of every copy.
LEMMA ProvenanceNext == TypeOK /\ Provenance /\ [Next]_vars => Provenance'
  <1> SUFFICES ASSUME TypeOK, Provenance, [Next]_vars PROVE Provenance'
    OBVIOUS
  <1> USE DEF history
  <1>1. ASSUME NEW p \in Procs, Serve(p) PROVE Provenance'
    BY <1>1, ServeProvenance
  <1>2. ASSUME NEW p \in Procs, Request(p) PROVE Provenance'
    <2>1. PICK op \in Ops, step \in Steps, i \in Ids, user \in Entry :
            Begin(p, op, step, i, user) /\ step \notin {"set", "publish"}
      BY <1>2, RequestBegins
    <2>2. \A q \in Procs : At(q, "set")' => At(q, "set") /\ call'[q] = call[q]
      BY <2>1 DEF Begin, At, TypeOK
    <2>3. UNCHANGED <<db, cache, replica, committed>>
      BY <2>1 DEF Begin
    <2>4. QED
      BY <2>2, <2>3, CopyKept DEF Provenance, Was
  <1>3. ASSUME NEW id \in Ids, Expire(id) \/ Replicate(id) PROVE Provenance'
    BY <1>3 DEF Expire, Replicate, Provenance, Was, CopyOfRow, At, TypeOK
  <1>4. CASE Crash
    BY <1>4 DEF Crash, Provenance, Was, CopyOfRow, At
  <1>5. CASE UNCHANGED vars
    BY <1>5 DEF vars, Provenance, Was, CopyOfRow, At
  <1>6. QED
    BY <1>1, <1>2, <1>3, <1>4, <1>5 DEF Next

\* No read is answered with a profile the table never held, and no copy that was
\* read from the table, however old, is anything but one row as it was committed.
THEOREM Served == Spec => []ServedWasCommitted
  <1>1. Init => Provenance
    BY DEF Init, Provenance, Was, CopyOfRow, At
  <1>2. QED
    BY <1>1, TypeCorrect, ProvenanceNext, ProvenanceImplies, PTL DEF Spec

(***************************************************************************)
(* Events.  A commit is counted when a call is about to owe its event, and *)
(* leaves the count of those that owe one when it is sent or lost.         *)
(***************************************************************************)

\* Call p owes event e.
Owing(p, e) ==
  /\ call[p] # NoCall
  /\ call[p].op \in {"add", "delete"}
  /\ call[p].at \in {"set", "evict", "publish"}
  /\ EventOf(call[p]) = e

\* What call p does to itself decides how many owe an event afterwards.
LEMMA OwingCount ==
  ASSUME NEW p \in Procs, NEW e, \A q \in Procs \ {p} : call'[q] = call[q]
  PROVE  /\ (Owing(p, e)' <=> Owing(p, e)) => Unpublished(e)' = Unpublished(e)
         /\ ~Owing(p, e) /\ Owing(p, e)' =>
              Cardinality(Unpublished(e)') = Cardinality(Unpublished(e)) + 1
         /\ Owing(p, e) /\ ~Owing(p, e)' =>
              Cardinality(Unpublished(e)) = Cardinality(Unpublished(e)') + 1
  <1>1. \A q \in Procs : q \in Unpublished(e) <=> Owing(q, e)
    BY DEF Unpublished, Owing
  <1>2. \A q \in Procs : q \in Unpublished(e)' <=> Owing(q, e)'
    BY DEF Unpublished, Owing
  <1>3. \A q \in Procs \ {p} : Owing(q, e)' <=> Owing(q, e)
    BY DEF Owing, EventOf
  <1>4. Unpublished(e) \subseteq Procs /\ Unpublished(e)' \subseteq Procs
    BY DEF Unpublished
  <1>5. IsFiniteSet(Unpublished(e)) /\ IsFiniteSet(Unpublished(e)')
    BY <1>4, FS_Subset
  <1>6. ASSUME Owing(p, e)' <=> Owing(p, e) PROVE Unpublished(e)' = Unpublished(e)
    BY <1>1, <1>2, <1>3, <1>4, <1>6
  <1>7. ASSUME ~Owing(p, e), Owing(p, e)'
        PROVE  Cardinality(Unpublished(e)') = Cardinality(Unpublished(e)) + 1
    <2>1. Unpublished(e)' = Unpublished(e) \cup {p} /\ p \notin Unpublished(e)
      BY <1>1, <1>2, <1>3, <1>4, <1>7
    <2>2. QED
      BY <1>5, <2>1, FS_AddElement
  <1>8. ASSUME Owing(p, e), ~Owing(p, e)'
        PROVE  Cardinality(Unpublished(e)) = Cardinality(Unpublished(e)') + 1
    <2>1. Unpublished(e) = Unpublished(e)' \cup {p} /\ p \notin Unpublished(e)'
      BY <1>1, <1>2, <1>3, <1>4, <1>8
    <2>2. QED
      BY <1>5, <2>1, FS_AddElement
  <1>9. QED
    BY <1>6, <1>7, <1>8

\* What is sent, owed and lost of an event is what was committed.
Balanced(e) == published[e] + Cardinality(Unpublished(e)) + unsent[e] = commits[e]

\* A step of a call that neither commits nor settles an event keeps the balance.
LEMMA QuietBalance ==
  ASSUME NEW p \in Procs, NEW e \in Events, \A q \in Procs \ {p} : call'[q] = call[q],
         Owing(p, e)' <=> Owing(p, e), Balanced(e), UNCHANGED <<published, commits, unsent>>
  PROVE  Balanced(e)'
  BY OwingCount DEF Balanced

\* A commit whose call goes on owes its event; one without an answer loses it.
LEMMA CommitBalance ==
  ASSUME TypeOK, NEW p \in Procs, NEW e \in Events, \A q \in Procs \ {p} : call'[q] = call[q],
         NEW told \in BOOLEAN, CountCommit(p, told), ~Owing(p, e), Balanced(e),
         Owing(p, e)' <=> told /\ EventOf(call[p]) = e, published' = published
  PROVE  Balanced(e)'
  <1>1. /\ commits[e] \in Nat /\ unsent[e] \in Nat /\ published[e] \in Nat
        /\ Cardinality(Unpublished(e)) \in Nat
    BY UnpublishedFinite DEF TypeOK
  <1>2. CASE EventOf(call[p]) = e /\ told
    <2>1. commits'[e] = commits[e] + 1 /\ unsent' = unsent
      BY <1>2 DEF CountCommit, TypeOK
    <2>2. Cardinality(Unpublished(e)') = Cardinality(Unpublished(e)) + 1
      BY <1>2, OwingCount
    <2>3. QED
      BY <1>1, <2>1, <2>2 DEF Balanced
  <1>3. CASE EventOf(call[p]) = e /\ ~told
    <2>1. commits'[e] = commits[e] + 1 /\ unsent'[e] = unsent[e] + 1
      BY <1>3 DEF CountCommit, TypeOK
    <2>2. Unpublished(e)' = Unpublished(e)
      BY <1>3, OwingCount
    <2>3. QED
      BY <1>1, <2>1, <2>2 DEF Balanced
  <1>4. CASE EventOf(call[p]) # e
    <2>1. commits'[e] = commits[e] /\ unsent'[e] = unsent[e]
      BY <1>4 DEF CountCommit, TypeOK
    <2>2. Unpublished(e)' = Unpublished(e)
      BY <1>4, OwingCount
    <2>3. QED
      BY <2>1, <2>2 DEF Balanced
  <1>5. QED
    BY <1>2, <1>3, <1>4

\* A step of a call keeps the balance of every event.
LEMMA ServeBalance ==
  ASSUME TypeOK, HasPublisher, NEW p \in Procs, Serve(p), NEW e \in Events, Balanced(e)
  PROVE  Balanced(e)'
  <1> USE DEF history
  <1>1. call[p] \in Calls /\ \A q \in Procs \ {p} : call'[q] = call[q]
    BY ServeSameUser DEF SameUser
  <1>2. ASSUME Return(p) PROVE ~Owing(p, e)'
    BY <1>2 DEF Return, TypeOK, Owing
  <1>3. ASSUME NEW step \in Steps, Goto(p, step)
        PROVE  /\ Owing(p, e)' <=> /\ call[p].op \in {"add", "delete"}
                                   /\ step \in {"set", "evict", "publish"}
                                   /\ EventOf(call[p]) = e
    <2>1. /\ call'[p] = [op |-> call[p].op, at |-> step, id |-> call[p].id, user |-> call[p].user]
          /\ call'[p] \in Calls
      BY <1>1, <1>3, MoveCall DEF Goto, TypeOK
    <2>2. QED
      BY <2>1 DEF Owing, EventOf
  <1>4. CASE DBAddUser(p)
    <2>1. call[p].op = "add" /\ call[p].at = "insert"
      BY <1>4, AtType DEF DBAddUser, OnPath, Path, Calls, Ops
    <2>2. ~Owing(p, e) /\ published' = published
      BY <1>4, <2>1 DEF DBAddUser, Owing
    <2>3. CASE CountCommit(p, TRUE) /\ Goto(p, "set")
      BY <1>1, <1>3, <2>1, <2>2, <2>3, CommitBalance DEF Steps
    <2>4. CASE CountCommit(p, FALSE) /\ Return(p)
      BY <1>1, <1>2, <2>2, <2>4, CommitBalance
    <2>5. CASE Return(p) /\ UNCHANGED history
      BY <1>1, <1>2, <2>2, <2>5, QuietBalance
    <2>6. QED
      BY <1>4, <2>3, <2>4, <2>5 DEF DBAddUser
  <1>5. CASE DBDeleteUser(p)
    <2>1. call[p].op = "delete" /\ call[p].at = "remove"
      BY <1>5, AtType DEF DBDeleteUser, OnPath, Path, Calls, Ops
    <2>2. ~Owing(p, e) /\ published' = published
      BY <1>5, <2>1 DEF DBDeleteUser, Owing
    <2>3. CASE CountCommit(p, TRUE) /\ Goto(p, "evict")
      BY <1>1, <1>3, <2>1, <2>2, <2>3, CommitBalance DEF Steps
    <2>4. CASE CountCommit(p, FALSE) /\ Return(p)
      BY <1>1, <1>2, <2>2, <2>4, CommitBalance
    <2>5. CASE Return(p) /\ UNCHANGED history
      BY <1>1, <1>2, <2>2, <2>5, QuietBalance
    <2>6. QED
      BY <1>5, <2>3, <2>4, <2>5 DEF DBDeleteUser
  <1>6. CASE DBUpdateUser(p)
    <2>1. call[p].op = "update" /\ call[p].at = "update"
      BY <1>6, AtType DEF DBUpdateUser, OnPath, Path, Calls, Ops
    <2>2. ~Owing(p, e) /\ ~Owing(p, e)'
      BY <1>2, <1>3, <1>6, <2>1 DEF DBUpdateUser, Owing, Steps
    <2>3. QED
      BY <1>1, <1>6, <2>2, QuietBalance DEF DBUpdateUser
  <1>7. CASE DBGetUserByID(p)
    <2>1. call[p].op \in {"get", "created"} /\ call[p].at = "read"
      BY <1>7, AtType DEF DBGetUserByID, OnPath, Path, Calls, Ops
    <2>2. ASSUME GotoWith(p, "set", db[call[p].id]) PROVE ~Owing(p, e)'
      BY <1>1, <2>1, <2>2 DEF GotoWith, Owing, TypeOK
    <2>3. ~Owing(p, e) /\ ~Owing(p, e)'
      BY <1>2, <1>7, <2>1, <2>2 DEF DBGetUserByID, Owing
    <2>4. QED
      BY <1>1, <1>7, <2>3, QuietBalance DEF DBGetUserByID
  <1>8. CASE CacheGetUser(p)
    <2>1. call[p].at = "lookup"
      BY <1>8, AtType DEF CacheGetUser
    <2>2. ~Owing(p, e) /\ ~Owing(p, e)'
      BY <1>2, <1>3, <1>8, <2>1 DEF CacheGetUser, Owing, Steps
    <2>3. QED
      BY <1>1, <1>8, <2>2, QuietBalance DEF CacheGetUser
  <1>9. CASE CacheSetUser(p) \/ CacheDeleteUser(p)
    <2>1. call[p].at \in {"set", "evict"}
      BY <1>9, AtType DEF CacheSetUser, CacheDeleteUser
    <2>2. PublishOrReturn(p)
      BY <1>9 DEF CacheSetUser, CacheDeleteUser
    <2>3. Owing(p, e)' <=> Owing(p, e)
      BY <1>1, <1>2, <1>3, <2>1, <2>2 DEF PublishOrReturn, Owing, Steps, Calls
    <2>4. QED
      BY <1>1, <1>9, <2>3, QuietBalance DEF CacheSetUser, CacheDeleteUser
  <1>10. CASE Publish(p)
    <2>1. call[p].op \in {"add", "delete"} /\ call[p].at = "publish" /\ call[p] # NoCall
      BY <1>10, AtType DEF Publish, OnPath, Path, Calls, Ops, At
    <2>2. (Owing(p, e) <=> EventOf(call[p]) = e) /\ ~Owing(p, e)'
      BY <1>2, <1>10, <2>1 DEF Publish, Owing
    <2>3. CASE EventOf(call[p]) # e
      <3>1. published'[e] = published[e] /\ unsent'[e] = unsent[e] /\ commits' = commits
        BY <1>10, <2>3 DEF Publish, TypeOK
      <3>2. QED
        BY <1>1, <2>2, <2>3, <3>1, OwingCount DEF Balanced
    <2>4. CASE EventOf(call[p]) = e
      <3>1. /\ \/ published'[e] = published[e] + 1 /\ unsent'[e] = unsent[e]
               \/ published'[e] = published[e] /\ unsent'[e] = unsent[e] + 1
            /\ commits' = commits
        BY <1>10, <2>4 DEF Publish, TypeOK
      <3>2. Cardinality(Unpublished(e)) = Cardinality(Unpublished(e)') + 1
        BY <1>1, <2>2, <2>4, OwingCount
      <3>3. /\ published[e] \in Nat /\ unsent[e] \in Nat
            /\ Cardinality(Unpublished(e)') \in Nat
        BY FS_Subset, FS_CardinalityType DEF TypeOK, Unpublished
      <3>4. QED
        BY <3>1, <3>2, <3>3 DEF Balanced
    <2>5. QED
      BY <2>3, <2>4
  <1>11. QED
    BY <1>4, <1>5, <1>6, <1>7, <1>8, <1>9, <1>10 DEF Serve

\* One step of the system keeps the balance of every event.
LEMMA BalanceNext ==
  TypeOK /\ EventsMatchCommits /\ [Next]_vars => EventsMatchCommits'
  <1> SUFFICES ASSUME TypeOK, EventsMatchCommits, [Next]_vars, HasPublisher, NEW e \in Events
               PROVE  Balanced(e)'
    BY DEF EventsMatchCommits, Balanced
  <1> USE DEF history
  <1>1. Balanced(e)
    BY DEF EventsMatchCommits, Balanced
  <1>2. ASSUME NEW p \in Procs, Serve(p) PROVE Balanced(e)'
    BY <1>1, <1>2, ServeBalance
  <1>3. ASSUME NEW p \in Procs, Request(p) PROVE Balanced(e)'
    <2>1. PICK op \in Ops, step \in Steps, i \in Ids, user \in Entry :
            /\ Begin(p, op, step, i, user)
            /\ step \notin {"set", "publish"} /\ (step = "evict" => op = "deleted")
      BY <1>3, RequestBegins
    <2>2. /\ call[p] = NoCall /\ \A q \in Procs \ {p} : call'[q] = call[q]
          /\ call'[p].op = op /\ call'[p].at = step
          /\ UNCHANGED <<published, commits, unsent>>
      BY <2>1 DEF Begin, TypeOK
    <2>3. ~Owing(p, e) /\ ~Owing(p, e)'
      BY <2>1, <2>2 DEF Owing
    <2>4. QED
      BY <1>1, <2>2, <2>3, QuietBalance
  <1>4. ASSUME NEW id \in Ids, Expire(id) \/ Replicate(id) PROVE Balanced(e)'
    BY <1>1, <1>4 DEF Expire, Replicate, Balanced, Unpublished
  <1>5. CASE Crash
    <2>1. Unpublished(e)' = {}
      BY <1>5 DEF Crash, Unpublished
    <2>2. unsent'[e] = unsent[e] + Cardinality(Unpublished(e)) /\ UNCHANGED <<published, commits>>
      BY <1>5 DEF Crash
    <2>3. published[e] \in Nat /\ unsent[e] \in Nat /\ Cardinality(Unpublished(e)) \in Nat
      BY UnpublishedFinite DEF TypeOK
    <2>4. QED
      BY <1>1, <2>1, <2>2, <2>3, FS_EmptySet DEF Balanced
  <1>6. CASE UNCHANGED vars
    BY <1>1, <1>6 DEF vars, Balanced, Unpublished
  <1>7. QED
    BY <1>2, <1>3, <1>4, <1>5, <1>6 DEF Next

\* Every commit's event is sent, still owed, or lost to a fault; and no event is
\* sent without a commit of its own.
THEOREM EventsBalance == Spec => []EventsMatchCommits
  <1>1. Init => EventsMatchCommits
    <2> SUFFICES ASSUME Init, NEW e \in Events PROVE Balanced(e)
      BY DEF EventsMatchCommits, Balanced
    <2>1. Unpublished(e) = {}
      BY DEF Init, Unpublished
    <2>2. QED
      BY <2>1, FS_EmptySet DEF Init, Balanced
  <1>2. QED
    BY <1>1, TypeCorrect, BalanceNext, PTL DEF Spec

(***************************************************************************)
(* Validation, and what is left of the exceptions when nothing goes wrong. *)
(***************************************************************************)

\* What is to be stored has passed the validator, and so had what ever was.
ValidInv ==
  /\ \A id, row : <<id, row>> \in committed => row.profile \in Valid
  /\ \A p \in Procs : At(p, "insert") \/ At(p, "update") => call[p].user.profile \in Valid

\* A step of a call stores only what its request was let in with.
LEMMA ServeValid ==
  ASSUME TypeOK, ValidInv, NEW p \in Procs, Serve(p)
  PROVE  ValidInv'
  <1> USE DEF history
  <1>1. call[p] \in Calls /\ call[p].id \in Ids /\ SameUser(p)
    BY ServeSameUser DEF Calls
  <1>2. ASSUME Return(p) PROVE ~At(p, "insert")' /\ ~At(p, "update")'
    BY <1>2 DEF Return, At, TypeOK
  <1>3. ASSUME NEW step \in Steps, Goto(p, step)
        PROVE  call'[p].at = step
    BY <1>1, <1>3, MoveCall DEF Goto, TypeOK, Calls
  <1>4. ASSUME NEW user, GotoWith(p, "set", user) PROVE call'[p].at = "set"
    BY <1>4 DEF GotoWith, TypeOK
  <1>5. ~At(p, "insert")' /\ ~At(p, "update")'
    BY <1>2, <1>3, <1>4 DEF Serve, DBAddUser, DBUpdateUser, DBDeleteUser, DBGetUserByID,
       CacheGetUser, CacheSetUser, CacheDeleteUser, Publish, PublishOrReturn, Steps, At
  <1>6. \A q \in Procs :
          At(q, "insert")' \/ At(q, "update")' =>
            call'[q] = call[q] /\ (At(q, "insert") \/ At(q, "update"))
    BY <1>1, <1>5 DEF SameUser, At
  <1>7. \A id, r : <<id, r>> \in committed' => r.profile \in Valid
    <2>1. ASSUME NEW row, NEW told, Commit(p, row, told), row # Absent => row.profile \in Valid
          PROVE  \A id, r : <<id, r>> \in committed' => r.profile \in Valid
      BY <1>1, <2>1 DEF Commit, ValidInv
    <2>2. CASE DBAddUser(p)
      BY <2>1, <2>2 DEF DBAddUser, Inserted, ValidInv
    <2>3. CASE DBUpdateUser(p)
      BY <2>1, <2>3 DEF DBUpdateUser, Updated, ValidInv
    <2>4. CASE DBDeleteUser(p)
      BY <2>1, <2>4 DEF DBDeleteUser, ValidInv
    <2>5. CASE DBGetUserByID(p) \/ CacheGetUser(p) \/ CacheSetUser(p) \/ CacheDeleteUser(p)
               \/ Publish(p)
      BY <2>5 DEF DBGetUserByID, CacheGetUser, CacheSetUser, CacheDeleteUser, Publish, ValidInv
    <2>6. QED
      BY <2>2, <2>3, <2>4, <2>5 DEF Serve
  <1>8. QED
    BY <1>6, <1>7 DEF ValidInv

\* So does every step.
LEMMA ValidNext == TypeOK /\ ValidInv /\ [Next]_vars => ValidInv'
  <1> SUFFICES ASSUME TypeOK, ValidInv, [Next]_vars PROVE ValidInv'
    OBVIOUS
  <1> USE DEF history
  <1>1. ASSUME NEW p \in Procs, Serve(p) PROVE ValidInv'
    BY <1>1, ServeValid
  <1>2. ASSUME NEW p \in Procs, Request(p) PROVE ValidInv'
    <2>1. PICK op, step, id, user :
            /\ Begin(p, op, step, id, user)
            /\ step \in {"insert", "update"} => user.profile \in Valid
      <3>1. ASSUME NEW id \in Ids, NEW user \in Given, Add(p, id, user) \/ Update(p, id, user)
            PROVE  \/ Begin(p, "add", "insert", id, user) /\ user.profile \in Valid
                   \/ Begin(p, "update", "update", id, user) /\ user.profile \in Valid
        BY <3>1 DEF Add, Update, Validate
      <3>2. ASSUME NEW id \in Ids, Delete(p, id) \/ GetByID(p, id)
                   \/ ProcessUserCreated(p, id) \/ ProcessUserDeleted(p, id)
            PROVE  \E op, step : Begin(p, op, step, id, Absent) /\ step \notin {"insert", "update"}
        <4>1. \/ Begin(p, "delete", "remove", id, Absent)
              \/ Begin(p, "get", "lookup", id, Absent)
              \/ Begin(p, "created", "read", id, Absent)
              \/ Begin(p, "deleted", "evict", id, Absent)
          BY <3>2 DEF Delete, GetByID, ProcessUserCreated, ProcessUserDeleted
        <4>2. QED
          BY <4>1
      <3>3. QED
        BY <1>2, <3>1, <3>2 DEF Request
    <2>2. committed' = committed /\ \A q \in Procs \ {p} : call'[q] = call[q]
      BY <2>1 DEF Begin, TypeOK
    <2>3. call'[p].at = step /\ call'[p].user = user
      BY <2>1 DEF Begin, TypeOK
    <2>4. QED
      BY <2>1, <2>2, <2>3 DEF ValidInv, At
  <1>3. ASSUME NEW id \in Ids, Expire(id) \/ Replicate(id) PROVE ValidInv'
    BY <1>3 DEF Expire, Replicate, ValidInv, At
  <1>4. CASE Crash
    BY <1>4 DEF Crash, ValidInv, At
  <1>5. CASE UNCHANGED vars
    BY <1>5 DEF vars, ValidInv, At
  <1>6. QED
    BY <1>1, <1>2, <1>3, <1>4, <1>5 DEF Next

\* Every copy of a user, in the table, the cache or its replica, is one that the
\* validator has accepted, by whichever use case or event it got there.
THEOREM StoredIsValid == Spec => []OnlyValidStored
  <1>1. Init => ValidInv /\ Provenance
    <2> SUFFICES ASSUME Init PROVE ValidInv /\ Provenance
      OBVIOUS
    <2>1. \A id \in Ids : db[id] # Absent => db[id].profile \in Valid
      BY DEF Init
    <2>2. QED
      BY <2>1 DEF Init, ValidInv, Provenance, Was, At
  <1>2. ValidInv /\ Provenance => OnlyValidStored
    BY DEF ValidInv, Provenance, Was, CopyOfRow, OnlyValidStored
  <1>3. QED
    BY <1>1, <1>2, TypeCorrect, ValidNext, ProvenanceNext, PTL DEF Spec

\* One call at a time, and nothing fails that could spoil an entry.
Serial ==
  (\A p, q \in Procs : p = q) /\ Faults \cap {"db", "cache", "crash"} = {}

\* Then nothing is ever suspected.
LEMMA SerialNext == TypeOK /\ Serial /\ suspect = {} /\ [Next]_vars => suspect' = {}
  <1> SUFFICES ASSUME TypeOK, Serial, suspect = {}, [Next]_vars PROVE suspect' = {}
    OBVIOUS
  <1> USE DEF history
  <1>1. ASSUME NEW p \in Procs, Serve(p) PROVE suspect' = {}
    <2>1. \A id : ~HeldByOther(p, id)
      BY DEF HeldByOther, Serial
    <2>2. ASSUME NEW row, Commit(p, row, TRUE) PROVE suspect' = {}
      BY <2>1, <2>2 DEF Commit
    <2>3. CASE DBAddUser(p)
      BY <2>2, <2>3 DEF DBAddUser, Serial
    <2>4. CASE DBUpdateUser(p)
      BY <2>2, <2>4 DEF DBUpdateUser, Serial
    <2>5. CASE DBDeleteUser(p)
      BY <2>2, <2>5 DEF DBDeleteUser, Serial
    <2>6. CASE DBGetUserByID(p) \/ CacheGetUser(p) \/ CacheSetUser(p) \/ CacheDeleteUser(p)
               \/ Publish(p)
      BY <2>6 DEF DBGetUserByID, CacheGetUser, CacheSetUser, CacheDeleteUser, Publish,
                  CacheFails, Emptied, Serial
    <2>7. QED
      BY <1>1, <2>3, <2>4, <2>5, <2>6 DEF Serve
  <1>2. ASSUME NEW p \in Procs, Request(p) PROVE suspect' = {}
    BY <1>2 DEF Request, Add, Update, Delete, GetByID, ProcessUserCreated,
                ProcessUserDeleted, Begin
  <1>3. ASSUME NEW id \in Ids, Expire(id) \/ Replicate(id) PROVE suspect' = {}
    BY <1>3 DEF Expire, Replicate
  <1>4. ~Crash
    BY DEF Crash, Serial
  <1>5. QED
    BY <1>1, <1>2, <1>3, <1>4 DEF Next, vars

\* The exceptions of CacheCoherent have no other cause than calls that overlap
\* and faults: without them every entry agrees with its row between writes (one
\* that Add or Update wrote in its profile, one that was read in every column).
THEOREM SerialCoherence == Spec => []SerialIsCoherent
  <1>1. Init => (Serial => suspect = {})
    BY DEF Init
  <1>2. TypeOK /\ (Serial => suspect = {}) /\ [Next]_vars => (Serial => suspect = {})'
    BY SerialNext DEF Serial
  <1>3. CacheCoherent /\ (Serial => suspect = {}) => SerialIsCoherent
    BY DEF CacheCoherent, SerialIsCoherent, Serial
  <1>4. QED
    BY <1>1, <1>2, <1>3, TypeCorrect, Coherence, PTL DEF Spec

\* Nothing fails that could lose an event.
Sends == Faults \cap {"db", "publish", "crash"} = {}

NoneUnsent == Sends => \A e \in Events : unsent[e] = 0

\* Then none is lost.
LEMMA SendsNext == NoneUnsent /\ [Next]_vars => NoneUnsent'
  <1> SUFFICES ASSUME NoneUnsent, [Next]_vars, Sends PROVE unsent' = unsent
    BY DEF NoneUnsent, Sends
  <1> USE DEF history
  <1>1. ASSUME NEW p \in Procs, Serve(p) PROVE unsent' = unsent
    BY <1>1 DEF Serve, DBAddUser, DBUpdateUser, DBDeleteUser, DBGetUserByID, CacheGetUser,
                CacheSetUser, CacheDeleteUser, Publish, CountCommit, Sends
  <1>2. ASSUME NEW p \in Procs, Request(p) PROVE unsent' = unsent
    BY <1>2 DEF Request, Add, Update, Delete, GetByID, ProcessUserCreated,
                ProcessUserDeleted, Begin
  <1>3. ASSUME NEW id \in Ids, Expire(id) \/ Replicate(id) PROVE unsent' = unsent
    BY <1>3 DEF Expire, Replicate
  <1>4. ~Crash
    BY DEF Crash, Sends
  <1>5. QED
    BY <1>1, <1>2, <1>3, <1>4 DEF Next, vars

\* Add and Delete are never over with their event unsent, unless something fails.
THEOREM AllSent == Spec => []AtRestAllSent
  <1>1. Init => NoneUnsent
    BY DEF Init, NoneUnsent
  <1>2. TypeOK /\ NoneUnsent /\ EventsMatchCommits => AtRestAllSent
    <2> SUFFICES ASSUME TypeOK, NoneUnsent, EventsMatchCommits, HasPublisher, Sends,
                        \A p \in Procs : call[p] = NoCall
                 PROVE  published = commits
      BY DEF AtRestAllSent, Sends
    <2>1. ASSUME NEW e \in Events PROVE published[e] = commits[e]
      <3>1. Unpublished(e) = {}
        BY DEF Unpublished
      <3>2. Cardinality(Unpublished(e)) = 0
        BY <3>1, FS_EmptySet
      <3>3. published[e] + 0 + 0 = commits[e]
        BY <3>2 DEF EventsMatchCommits, NoneUnsent
      <3>4. QED
        BY <3>3 DEF TypeOK
    <2>2. QED
      BY <2>1 DEF TypeOK
  <1>3. QED
    BY <1>1, <1>2, TypeCorrect, EventsBalance, SendsNext, PTL DEF Spec

(***************************************************************************)
(* Calls end: the half of Answered that needs no fairness.                 *)
(***************************************************************************)

\* A call has at least one step to make and at most four.
LEMMA LeftType ==
  ASSUME TypeOK, NEW p \in Procs
  PROVE  /\ call[p] # NoCall => CallsLeft(p) \in 1..4
         /\ call[p] = NoCall => CallsLeft(p) = 0
  BY DEF CallsLeft, TypeOK, Calls, Steps

\* Each external call is followed by a later one of its use case, or by none.
LEMMA ServeRunsDown ==
  ASSUME TypeOK, NEW p \in Procs, Serve(p)
  PROVE  CallsLeft(p)' < CallsLeft(p)
  <1>1. call[p] \in Calls /\ call[p] # NoCall /\ CallsLeft(p) \in 1..4
    <2>1. call[p] \in Calls
      BY ServeSameUser
    <2>2. QED
      BY <2>1, LeftType
  <1>2. ASSUME Return(p) PROVE CallsLeft(p)' = 0
    BY <1>2 DEF Return, CallsLeft, TypeOK
  <1>3. ASSUME NEW step \in Steps, Goto(p, step)
        PROVE  call'[p] # NoCall /\ call'[p].at = step
    BY <1>1, <1>3, MoveCall DEF Goto, TypeOK, Calls
  <1>4. ASSUME Goto(p, "publish") PROVE CallsLeft(p)' = 1
    BY <1>3, <1>4 DEF CallsLeft, Steps
  <1>5. ASSUME Goto(p, "set") \/ Goto(p, "evict") PROVE CallsLeft(p)' = 2
    BY <1>3, <1>5 DEF CallsLeft, Steps
  <1>6. CASE DBAddUser(p) \/ DBUpdateUser(p) \/ DBDeleteUser(p)
    <2>1. CallsLeft(p) = 3
      BY <1>1, <1>6 DEF DBAddUser, DBUpdateUser, DBDeleteUser, At, CallsLeft
    <2>2. Return(p) \/ Goto(p, "set") \/ Goto(p, "evict")
      BY <1>6 DEF DBAddUser, DBUpdateUser, DBDeleteUser
    <2>3. QED
      BY <1>2, <1>5, <2>1, <2>2
  <1>7. CASE DBGetUserByID(p)
    <2>1. CallsLeft(p) = 3
      BY <1>1, <1>7 DEF DBGetUserByID, At, CallsLeft
    <2>2. ASSUME NEW user \in Rows, GotoWith(p, "set", user) PROVE CallsLeft(p)' = 2
      <3> DEFINE c == [op |-> call[p].op, at |-> "set", id |-> call[p].id, user |-> user]
      <3>1. call'[p] = c /\ c \in Calls
        BY <1>1, <2>2 DEF GotoWith, TypeOK, Calls, Steps, Entry, Users
      <3>2. QED
        BY <3>1 DEF CallsLeft
    <2>3. call[p].id \in Ids
      BY <1>1 DEF Calls
    <2>4. QED
      BY <1>2, <1>7, <2>1, <2>2, <2>3 DEF DBGetUserByID, TypeOK, Entry
  <1>8. CASE CacheGetUser(p)
    <2>1. CallsLeft(p) = 4
      BY <1>1, <1>8 DEF CacheGetUser, At, CallsLeft
    <2>2. ASSUME Goto(p, "read") PROVE CallsLeft(p)' = 3
      BY <1>3, <2>2 DEF CallsLeft, Steps
    <2>3. QED
      BY <1>2, <1>8, <2>1, <2>2 DEF CacheGetUser
  <1>9. CASE CacheSetUser(p) \/ CacheDeleteUser(p)
    <2>1. CallsLeft(p) = 2
      BY <1>1, <1>9 DEF CacheSetUser, CacheDeleteUser, At, CallsLeft
    <2>2. QED
      BY <1>2, <1>4, <1>9, <2>1 DEF CacheSetUser, CacheDeleteUser, PublishOrReturn
  <1>10. CASE Publish(p)
    BY <1>1, <1>2, <1>10 DEF Publish
  <1>11. QED
    BY <1>6, <1>7, <1>8, <1>9, <1>10 DEF Serve

\* Every use case is over after four external calls at most, whatever other calls,
\* expiries and faults come between them: with a timeout on each, it is answered.
THEOREM EveryCallRunsDown == Spec => CallsRunDown
  <1> DEFINE RunsDown(p) ==
        call[p] # NoCall =>
          /\ CallsLeft(p)' <= CallsLeft(p)
          /\ CallsLeft(p)' # CallsLeft(p) \/ UNCHANGED call[p]
          /\ Serve(p) => CallsLeft(p)' < CallsLeft(p)
  <1>1. TypeOK /\ TypeOK' /\ [Next]_vars => [\A p \in Procs : RunsDown(p)]_vars
    <2> SUFFICES ASSUME TypeOK, TypeOK', Next, NEW p \in Procs, call[p] # NoCall
                 PROVE  RunsDown(p)
      OBVIOUS
    <2>1. CallsLeft(p) \in 1..4 /\ CallsLeft(p)' \in 0..4
      <3>1. CallsLeft(p) \in 1..4
        BY LeftType
      <3>2. call'[p] # NoCall => CallsLeft(p)' \in 1..4
        BY DEF CallsLeft, TypeOK, Calls, Steps
      <3>3. call'[p] = NoCall => CallsLeft(p)' = 0
        BY DEF CallsLeft
      <3>4. QED
        BY <3>1, <3>2, <3>3
    <2>2. CASE Serve(p)
      BY <2>1, <2>2, ServeRunsDown
    <2>3. CASE ~Serve(p)
      <3>1. UNCHANGED call[p] \/ call'[p] = NoCall
        <4>1. ASSUME NEW q \in Procs, Serve(q) PROVE UNCHANGED call[p]
          BY <2>3, <4>1, ServeSameUser DEF SameUser
        <4>2. ASSUME NEW q \in Procs, Request(q) PROVE UNCHANGED call[p]
          BY <4>2 DEF Request, Add, Update, Delete, GetByID, ProcessUserCreated,
                      ProcessUserDeleted, Begin, TypeOK
        <4>3. ASSUME NEW id \in Ids, Expire(id) \/ Replicate(id) PROVE UNCHANGED call[p]
          BY <4>3 DEF Expire, Replicate
        <4>4. CASE Crash
          BY <4>4 DEF Crash
        <4>5. QED
          BY <4>1, <4>2, <4>3, <4>4 DEF Next
      <3>2. UNCHANGED call[p] => CallsLeft(p)' = CallsLeft(p)
        BY DEF CallsLeft
      <3>3. call'[p] = NoCall => CallsLeft(p)' = 0
        BY DEF CallsLeft
      <3>4. QED
        BY <2>1, <2>3, <3>1, <3>2, <3>3
    <2>4. QED
      BY <2>2, <2>3
  <1>2. QED
    BY <1>1, TypeCorrect, PTL DEF Spec, CallsRunDown
=============================================================================
