-------------------------------- MODULE Endpoints --------------------------------
(***************************************************************************)
(* The endpoints (internal/endpoint): each call runs its use case, except  *)
(* that reads and event processing go through one singleflight group, in   *)
(* which calls with the same key share the run of the first.               *)
(*                                                                         *)
(* A use case is seen from outside, as one step that answers with the      *)
(* version of the table and cache it ran on; how a cached user may lag     *)
(* behind its row is UserService's question, and how far sharing a run     *)
(* makes an answer older is this module's.  The group is external          *)
(* (golang.org/x/sync/singleflight): entering and leaving it are each done *)
(* under its lock, and whoever follows waits for the leader and not for    *)
(* its own context.                                                        *)
(***************************************************************************)
EXTENDS Naturals

CONSTANTS
  Calls,     \* calls of an endpoint, each made once
  Requests,  \* the requests calls are made with
  Args,      \* ids and search texts
  NoArg,     \* GetAllUsersRequest{}
  NoCall

Writes    == {"add", "update", "delete"}
Collapsed == {"get_user_by_id", "get_all_users", "search_users",
              "process_user_created", "process_user_deleted"}
Ops       == Writes \cup Collapsed \cup {"get_all_users_paginated"}

\* What a use case answers: a version of what request r asks for, or an error.
Answers == [req : Requests, version : Nat, error : {"none", "failed", "cancelled"}]
Answer(r, version, error) == [req |-> r, version |-> version, error |-> error]

ASSUME EndpointsAssumption ==
  /\ Requests \subseteq [op : Ops, arg : Args \cup {NoArg}]
  /\ NoCall \notin Calls \cup Requests \cup Answers

VARIABLES
  world,      \* version of the table and the cache: the writes made so far
  at,         \* where each call is
  req,        \* the request of each call
  cancelled,  \* calls whose context is cancelled
  flight,     \* sfGroup: by key, the call that leads
  result,     \* what the use case answered a call that has run it
  (* history: no step of the program reads these *)
  led,        \* the call whose run answers this one
  before      \* the calls already answered when this one reached the group

vars == <<world, at, req, cancelled, flight, result, led, before>>

Places == {"none", "do", "run", "leave", "wait", "answered"}

\* mutant: the id is left out of the key.
Key_OpOnly(r) == <<r.op, NoArg>>

\* fmt.Sprintf("<op>:%s"): no op is a prefix of another and a colon ends it.
Key(r) == <<r.op, r.arg>>
Keys == Ops \X (Args \cup {NoArg})

Go(c, place) == at' = [at EXCEPT ![c] = place]

-----------------------------------------------------------------------------
Arrive(c, r) ==
  /\ at[c] = "none"
  /\ Go(c, "do")
  /\ req' = [req EXCEPT ![c] = r]
  /\ UNCHANGED <<world, cancelled, flight, result, led, before>>

\* The caller hangs up, its deadline passes, or the process is to stop.
Cancel(c) ==
  /\ at[c] \notin {"none", "answered"} /\ c \notin cancelled
  /\ cancelled' = cancelled \cup {c}
  /\ UNCHANGED <<world, at, req, flight, result, led, before>>

Lead(c) ==
  /\ led' = [led EXCEPT ![c] = c]
  /\ Go(c, "run")

\* mutant: writes are collapsed as well.
Do_Writes(c) ==
  /\ at[c] = "do"
  /\ LET k == Key(req[c]) IN
     \/ /\ flight[k] = NoCall
        /\ flight' = [flight EXCEPT ![k] = c]
        /\ Lead(c)
     \/ /\ flight[k] # NoCall
        /\ led' = [led EXCEPT ![c] = flight[k]]
        /\ Go(c, "wait")
        /\ UNCHANGED flight
  /\ before' = [before EXCEPT ![c] = {d \in Calls : at[d] = "answered"}]
  /\ UNCHANGED <<world, req, cancelled, result>>

\* sfGroup.Do, up to the use case or to wg.Wait.
Do(c) ==
  /\ at[c] = "do"
  /\ LET k == Key(req[c]) IN
     \/ /\ req[c].op \notin Collapsed
        /\ Lead(c)
        /\ UNCHANGED flight
     \/ /\ req[c].op \in Collapsed /\ flight[k] = NoCall
        /\ flight' = [flight EXCEPT ![k] = c]
        /\ Lead(c)
     \/ /\ req[c].op \in Collapsed /\ flight[k] # NoCall
        /\ led' = [led EXCEPT ![c] = flight[k]]
        /\ Go(c, "wait")
        /\ UNCHANGED flight
  /\ before' = [before EXCEPT ![c] = {d \in Calls : at[d] = "answered"}]
  /\ UNCHANGED <<world, req, cancelled, result>>

\* mutant: the run ends with the first context of those who wait for it.
Run_AnyContext(c) ==
  /\ at[c] = "run"
  /\ IF \E d \in cancelled : led[d] = c
       THEN result' = [result EXCEPT ![c] = Answer(req[c], world, "cancelled")] /\ UNCHANGED world
       ELSE /\ result' = [result EXCEPT ![c] = Answer(req[c], world, "none")]
            /\ world' = IF req[c].op \in Writes THEN world + 1 ELSE world
  /\ Go(c, "leave")
  /\ UNCHANGED <<req, cancelled, flight, led, before>>

\* next(ctx, request), under the context of the call that leads.  A use case
\* that fails may have written all the same; an event's may have written.
Run(c) ==
  /\ at[c] = "run"
  /\ \/ /\ result' = [result EXCEPT ![c] = Answer(req[c], world, "none")]
        /\ world' \in (IF req[c].op \in Writes THEN {world + 1}
                       ELSE IF req[c].op \in {"process_user_created", "process_user_deleted"}
                              THEN {world, world + 1} ELSE {world})
     \/ /\ result' = [result EXCEPT ![c] =
             Answer(req[c], 0, IF c \in cancelled THEN "cancelled" ELSE "failed")]
        /\ world' \in (IF req[c].op \in Writes THEN {world, world + 1} ELSE {world})
  /\ Go(c, "leave")
  /\ UNCHANGED <<req, cancelled, flight, led, before>>

\* mutant: the key is not forgotten.
Leave_Remembers(c) ==
  /\ at[c] = "leave"
  /\ Go(c, "answered")
  /\ UNCHANGED <<world, req, cancelled, flight, result, led, before>>

\* The leader forgets the key and lets the others go on, at once.
Leave(c) ==
  /\ at[c] = "leave"
  /\ Go(c, "answered")
  /\ flight' = [k \in Keys |-> IF flight[k] = c THEN NoCall ELSE flight[k]]
  /\ UNCHANGED <<world, req, cancelled, result, led, before>>

\* mutant: a leader that fails leaves without wg.Done.
Wake_OnSuccess(c) ==
  /\ at[c] = "wait" /\ at[led[c]] = "answered" /\ result[led[c]].error = "none"
  /\ result' = [result EXCEPT ![c] = result[led[c]]]
  /\ Go(c, "answered")
  /\ UNCHANGED <<world, req, cancelled, flight, led, before>>

\* wg.Wait returns with the leader's answer.
Wake(c) ==
  /\ at[c] = "wait" /\ at[led[c]] = "answered"
  /\ result' = [result EXCEPT ![c] = result[led[c]]]
  /\ Go(c, "answered")
  /\ UNCHANGED <<world, req, cancelled, flight, led, before>>

Init ==
  /\ world = 0
  /\ at = [c \in Calls |-> "none"]
  /\ req = [c \in Calls |-> NoCall]
  /\ cancelled = {}
  /\ flight = [k \in Keys |-> NoCall]
  /\ result = [c \in Calls |-> NoCall]
  /\ led = [c \in Calls |-> NoCall]
  /\ before = [c \in Calls |-> {}]

Step(c) == Do(c) \/ Run(c) \/ Leave(c) \/ Wake(c)

Next == \E c \in Calls : (\E r \in Requests : Arrive(c, r)) \/ Cancel(c) \/ Step(c)

Spec == Init /\ [][Next]_vars
FairSpec == Spec /\ \A c \in Calls : WF_vars(Step(c))

-----------------------------------------------------------------------------
TypeOK ==
  /\ world \in Nat
  /\ at \in [Calls -> Places]
  /\ req \in [Calls -> Requests \cup {NoCall}]
  /\ \A c \in Calls : req[c] = NoCall <=> at[c] = "none"
  /\ cancelled \subseteq Calls
  /\ flight \in [Keys -> Calls \cup {NoCall}]
  /\ result \in [Calls -> Answers \cup {NoCall}]
  /\ \A c \in Calls : result[c] = NoCall <=> at[c] \notin {"leave", "answered"}
  /\ led \in [Calls -> Calls \cup {NoCall}]
  /\ \A c \in Calls : led[c] = NoCall <=> at[c] \in {"none", "do"}
  /\ before \in [Calls -> SUBSET Calls]

Ok(c) == at[c] = "answered" /\ result[c].error = "none"

\* "one underlying call, so a cache-cold moment doesn't turn into a thundering
\* herd": no two runs for one key at a time.
OneRunPerKey ==
  \A c, d \in Calls :
    /\ at[c] \in {"run", "leave"} /\ at[d] \in {"run", "leave"}
    /\ req[c].op \in Collapsed /\ Key(req[c]) = Key(req[d])
    => c = d

\* Whoever shares a run asked for what it answers: keys tell requests apart.
AnswersOwnRequest == \A c \in Calls : at[c] = "answered" => result[c].req = req[c]

\* "collapsing two different writes into one would silently drop one of them":
\* each write that is answered has a place of its own in the order of writes.
WritesKeepApart ==
  \A c, d \in Calls :
    Ok(c) /\ Ok(d) /\ {req[c].op, req[d].op} \subseteq Writes /\ c # d
      => result[c].version # result[d].version

\* An answer is that of a run that was not over when its caller came, and has
\* seen every write answered before that run began (not every write answered
\* before the caller came: the run it joins may have read already).
SeesEarlierWrites ==
  \A c \in Calls :
    Ok(c) => /\ led[c] \notin before[c]
             /\ \A d \in before[led[c]] :
                  Ok(d) /\ req[d].op \in Writes => result[d].version < result[c].version

\* A cancellation reaches exactly those that share the run of the cancelled
\* call: nobody fails for the context of a call that follows.
FailsWithItsLeader ==
  \A c \in Calls :
    at[c] = "answered" /\ result[c].error = "cancelled" => led[c] \in cancelled

\* Whoever waits, waits for a call that runs the use case itself, is under way or
\* answered, and was asked the same; a key is held only while its leader is.
WaitsForARun ==
  /\ \A c \in Calls : at[c] = "wait" =>
       LET d == led[c]
       IN  d # c /\ led[d] = d /\ req[d] = req[c] /\ at[d] \in {"run", "leave", "answered"}
  /\ \A k \in Keys : flight[k] # NoCall =>
       at[flight[k]] \in {"run", "leave"} /\ Key(req[flight[k]]) = k

\* Every call is answered, whoever leads and whatever becomes of the run.
EveryCallAnswered == \A c \in Calls : at[c] = "do" ~> at[c] = "answered"
=============================================================================
