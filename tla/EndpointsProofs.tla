----------------------------- MODULE EndpointsProofs -----------------------------
(***************************************************************************)
(* What the endpoints promise for any number of calls, of any requests,    *)
(* proved with TLAPS.                                                      *)
(***************************************************************************)
EXTENDS Endpoints, TLAPS

\* Keys are those of the requests, and different for different requests.
LEMMA KeyTells ==
  ASSUME NEW r \in Requests, NEW s \in Requests
  PROVE  Key(r) \in Keys /\ (Key(r) = Key(s) => r = s)
<1>1. r \in [op : Ops, arg : Args \cup {NoArg}] /\ s \in [op : Ops, arg : Args \cup {NoArg}]
  BY EndpointsAssumption
<1> QED
  BY <1>1 DEF Key, Keys

\* A call is neither an answer nor a request, and NoCall is none of the three.
LEMMA NoCallIsNothing == NoCall \notin Calls /\ NoCall \notin Requests /\ NoCall \notin Answers
BY EndpointsAssumption

\* An answer is one of Answers and keeps what it was made of.
LEMMA AnswerType ==
  ASSUME NEW r \in Requests, NEW v \in Nat, NEW e \in {"none", "failed", "cancelled"}
  PROVE  /\ Answer(r, v, e) \in Answers
         /\ Answer(r, v, e).req = r
         /\ Answer(r, v, e).version = v
         /\ Answer(r, v, e).error = e
BY DEF Answer, Answers

-----------------------------------------------------------------------------
(* Types                                                                   *)

\* The program begins well typed.
LEMMA TypeInit == Init => TypeOK
BY NoCallIsNothing DEF Init, TypeOK, Places, Keys

\* The step of a call that runs its use case, in the terms the proofs need.
LEMMA RunStep ==
  ASSUME TypeOK, NEW c \in Calls, Run(c)
  PROVE  /\ at[c] = "run" /\ at' = [at EXCEPT ![c] = "leave"]
         /\ UNCHANGED <<req, cancelled, flight, led, before>>
         /\ world' \in Nat /\ world <= world'
         /\ result' = [result EXCEPT ![c] = result'[c]]
         /\ result'[c] \in Answers /\ result'[c].req = req[c]
         /\ result'[c].error = "none" => result'[c].version = world
         /\ result'[c].error = "none" /\ req[c].op \in Writes => world' = world + 1
         /\ result'[c].error = "cancelled" => c \in cancelled
<1>1. at[c] = "run" /\ at' = [at EXCEPT ![c] = "leave"]
      /\ UNCHANGED <<req, cancelled, flight, led, before>>
  BY DEF Run, Go
<1>2. req[c] \in Requests /\ world \in Nat
  BY <1>1 DEF TypeOK
<1>3. world' \in Nat /\ world <= world'
  BY <1>2 DEF Run
<1>4. CASE /\ result' = [result EXCEPT ![c] = Answer(req[c], world, "none")]
           /\ req[c].op \in Writes => world' = world + 1
  <2>1. result'[c] = Answer(req[c], world, "none")
    BY <1>4 DEF TypeOK
  <2>2. result'[c] \in Answers /\ result'[c].req = req[c]
        /\ result'[c].version = world /\ result'[c].error = "none"
    BY <1>2, <2>1, AnswerType
  <2>3. result' = [result EXCEPT ![c] = result'[c]]
    BY <1>4, <2>1
  <2> QED
    BY <1>1, <1>3, <1>4, <2>2, <2>3
<1>5. CASE result' = [result EXCEPT ![c] =
             Answer(req[c], 0, IF c \in cancelled THEN "cancelled" ELSE "failed")]
  <2> DEFINE e == IF c \in cancelled THEN "cancelled" ELSE "failed"
  <2>1. e \in {"none", "failed", "cancelled"} /\ e # "none" /\ (e = "cancelled" => c \in cancelled)
    OBVIOUS
  <2>2. result'[c] = Answer(req[c], 0, e)
    BY <1>5 DEF TypeOK
  <2> HIDE DEF e
  <2>3. 0 \in Nat
    OBVIOUS
  <2>4. result'[c] \in Answers /\ result'[c].req = req[c] /\ result'[c].error = e
    BY <1>2, <2>1, <2>2, <2>3, AnswerType
  <2>5. result' = [result EXCEPT ![c] = result'[c]]
    BY <1>5, <2>2 DEF e
  <2> QED
    BY <1>1, <1>3, <2>1, <2>4, <2>5
<1> QED
  BY <1>4, <1>5 DEF Run

\* Every step keeps the types.
LEMMA TypeNext == TypeOK /\ [Next]_vars => TypeOK'
<1> SUFFICES ASSUME TypeOK, [Next]_vars PROVE TypeOK'
  OBVIOUS
<1> USE NoCallIsNothing
<1>1. ASSUME NEW c \in Calls, NEW r \in Requests, Arrive(c, r) PROVE TypeOK'
  BY <1>1 DEF Arrive, Go, TypeOK, Places
<1>2. ASSUME NEW c \in Calls, Cancel(c) PROVE TypeOK'
  BY <1>2 DEF Cancel, TypeOK
<1>3. ASSUME NEW c \in Calls, Do(c) PROVE TypeOK'
  <2>1. req[c] \in Requests /\ Key(req[c]) \in Keys
    BY <1>3, KeyTells DEF Do, TypeOK
  <2> QED
    BY <1>3, <2>1 DEF Do, Lead, Go, TypeOK, Places
<1>4. ASSUME NEW c \in Calls, Run(c) PROVE TypeOK'
  BY <1>4, RunStep DEF TypeOK, Places
<1>5. ASSUME NEW c \in Calls, Leave(c) PROVE TypeOK'
  BY <1>5 DEF Leave, Go, TypeOK, Places
<1>6. ASSUME NEW c \in Calls, Wake(c) PROVE TypeOK'
  <2>1. led[c] \in Calls /\ result[led[c]] \in Answers
    BY <1>6 DEF Wake, TypeOK
  <2> QED
    BY <1>6, <2>1 DEF Wake, Go, TypeOK, Places
<1>7. CASE UNCHANGED vars
  BY <1>7 DEF vars, TypeOK
<1> QED
  BY <1>1, <1>2, <1>3, <1>4, <1>5, <1>6, <1>7 DEF Next, Step

\* The types are right in every state.
THEOREM TypeCorrect == Spec => []TypeOK
BY TypeInit, TypeNext, PTL DEF Spec

-----------------------------------------------------------------------------
(* Who shares whose run                                                    *)

\* A call that runs answers itself, and holds its key if its run is shared.
Leads(c) ==
  at[c] \in {"run", "leave"} =>
    led[c] = c /\ (req[c].op \in Collapsed => flight[Key(req[c])] = c)

\* Calls that share a run make the same request, and the one that leads it
\* shares nobody else's; only collapsed calls share.
Shares(c) ==
  led[c] # NoCall =>
    /\ req[led[c]] = req[c] /\ led[led[c]] = led[c]
    /\ at[led[c]] \in {"run", "leave", "answered"}
    /\ led[c] # c => req[c].op \in Collapsed

\* The key of a run that goes on, and of no other, is held.
Held(k) ==
  flight[k] # NoCall => at[flight[k]] \in {"run", "leave"} /\ Key(req[flight[k]]) = k

\* What a call has been answered is the answer to its request.
Answered(c) == result[c] # NoCall => result[c].req = req[c]

FlightInv ==
  /\ \A c \in Calls : Leads(c) /\ Shares(c) /\ Answered(c)
  /\ \A k \in Keys : Held(k)

\* Every step keeps who leads, who follows and what the group holds.
LEMMA FlightNext == TypeOK /\ FlightInv /\ [Next]_vars => FlightInv'
<1> SUFFICES ASSUME TypeOK, FlightInv, [Next]_vars PROVE FlightInv'
  OBVIOUS
<1> USE NoCallIsNothing
<1> USE DEF FlightInv, Leads, Shares, Held, Answered
<1>1. ASSUME NEW c \in Calls, NEW r \in Requests, Arrive(c, r) PROVE FlightInv'
  BY <1>1 DEF Arrive, Go, TypeOK, Key
<1>2. ASSUME NEW c \in Calls, Cancel(c) PROVE FlightInv'
  BY <1>2 DEF Cancel, Key
<1>3. ASSUME NEW c \in Calls, Do(c) PROVE FlightInv'
  <2> DEFINE k == Key(req[c])
  <2>1. at[c] = "do" /\ req[c] \in Requests /\ k \in Keys
    BY <1>3, KeyTells DEF Do, TypeOK
  <2>2. UNCHANGED <<req, result>>
    BY <1>3 DEF Do
  <2>3. \A d \in Calls : at[d] \notin {"none", "do"} => req[d] \in Requests
    BY DEF TypeOK
  <2>4. CASE led' = [led EXCEPT ![c] = c] /\ at' = [at EXCEPT ![c] = "run"]
             /\ req[c].op \notin Collapsed /\ UNCHANGED flight
    BY <2>1, <2>2, <2>4 DEF TypeOK, Key
  <2>5. CASE led' = [led EXCEPT ![c] = c] /\ at' = [at EXCEPT ![c] = "run"]
             /\ flight[k] = NoCall /\ flight' = [flight EXCEPT ![k] = c]
    BY <2>1, <2>2, <2>5 DEF TypeOK, Key
  <2>6. CASE led' = [led EXCEPT ![c] = flight[k]] /\ at' = [at EXCEPT ![c] = "wait"]
             /\ req[c].op \in Collapsed /\ flight[k] # NoCall /\ UNCHANGED flight
    <3> DEFINE d == flight[k]
    <3>1. d \in Calls /\ at[d] \in {"run", "leave"} /\ d # c /\ led[d] = d
      BY <2>1, <2>6 DEF TypeOK
    <3>2. Key(req[d]) = k /\ req[d] \in Requests
      BY <2>1, <2>3, <2>6, <3>1
    <3>3. req[d] = req[c]
      BY <2>1, <3>2, KeyTells
    <3> QED
      BY <2>1, <2>2, <2>6, <3>1, <3>3 DEF TypeOK, Key
  <2> QED
    BY <1>3, <2>4, <2>5, <2>6 DEF Do, Lead, Go
<1>4. ASSUME NEW c \in Calls, Run(c) PROVE FlightInv'
  BY <1>4, RunStep DEF TypeOK, Key
<1>5. ASSUME NEW c \in Calls, Leave(c) PROVE FlightInv'
  <2>1. \A d \in Calls \ {c} :
          at[d] \in {"run", "leave"} /\ req[d].op \in Collapsed => flight'[Key(req[d])] = d
    BY <1>5, KeyTells DEF Leave, TypeOK
  <2>2. /\ at[c] = "leave" /\ at' = [at EXCEPT ![c] = "answered"]
        /\ UNCHANGED <<req, led, result>>
    BY <1>5 DEF Leave, Go
  <2>3. \A k \in Keys : flight'[k] # NoCall => flight'[k] = flight[k] /\ flight[k] # c
    BY <1>5 DEF Leave
  <2> QED
    BY <2>1, <2>2, <2>3 DEF TypeOK, Key
<1>6. ASSUME NEW c \in Calls, Wake(c) PROVE FlightInv'
  <2>1. led[c] \in Calls /\ req[led[c]] = req[c] /\ at[led[c]] = "answered"
    BY <1>6 DEF Wake, TypeOK
  <2>2. result[led[c]].req = req[c] /\ led[c] # c
    BY <1>6, <2>1 DEF Wake, TypeOK
  <2> QED
    BY <1>6, <2>1, <2>2 DEF Wake, Go, TypeOK, Key
<1>7. CASE UNCHANGED vars
  BY <1>7 DEF vars, Key
<1> QED
  BY <1>1, <1>2, <1>3, <1>4, <1>5, <1>6, <1>7 DEF Next, Step

\* Nobody leads or follows at the start.
LEMMA FlightInit == Init => FlightInv
BY NoCallIsNothing DEF Init, FlightInv, Leads, Shares, Held, Answered

\* The invariant of the group holds throughout.
LEMMA FlightAlways == Spec => [](TypeOK /\ FlightInv)
BY TypeInit, TypeNext, FlightInit, FlightNext, PTL DEF Spec

\* One use case at a time runs for a key that is shared.
THEOREM OneRun == Spec => []OneRunPerKey
<1>1. TypeOK /\ FlightInv => OneRunPerKey
  BY DEF FlightInv, Leads, OneRunPerKey, Key
<1> QED
  BY <1>1, FlightAlways, PTL

\* Nobody is given the answer to another request.
THEOREM OwnRequest == Spec => []AnswersOwnRequest
<1>1. TypeOK /\ FlightInv => AnswersOwnRequest
  BY DEF FlightInv, Answered, AnswersOwnRequest, TypeOK
<1> QED
  BY <1>1, FlightAlways, PTL

\* No call waits for one that waits itself or was asked something else, and no
\* key stays held by a call that is through.
THEOREM WaitsForRuns == Spec => []WaitsForARun
<1>1. TypeOK /\ FlightInv => WaitsForARun
  BY NoCallIsNothing DEF FlightInv, Shares, Held, WaitsForARun, TypeOK
<1> QED
  BY <1>1, FlightAlways, PTL

-----------------------------------------------------------------------------
(* Contexts                                                                *)

\* Who has been answered with a cancellation shares the run of a call whose
\* context is cancelled, which it stays.
Blamed(c) ==
  result[c] # NoCall /\ result[c].error = "cancelled" => led[c] \in cancelled

CancelInv == \A c \in Calls : Blamed(c)

\* Every step keeps a cancellation with the call it came from.
LEMMA CancelNext == TypeOK /\ FlightInv /\ CancelInv /\ [Next]_vars => CancelInv'
<1> SUFFICES ASSUME TypeOK, FlightInv, CancelInv, [Next]_vars PROVE CancelInv'
  OBVIOUS
<1> USE NoCallIsNothing
<1> USE DEF CancelInv, Blamed
<1>1. ASSUME NEW c \in Calls, NEW r \in Requests, Arrive(c, r) PROVE CancelInv'
  BY <1>1 DEF Arrive
<1>2. ASSUME NEW c \in Calls, Cancel(c) PROVE CancelInv'
  BY <1>2 DEF Cancel
<1>3. ASSUME NEW c \in Calls, Do(c) PROVE CancelInv'
  BY <1>3 DEF Do, Lead, Go, TypeOK
<1>4. ASSUME NEW c \in Calls, Run(c) PROVE CancelInv'
  BY <1>4, RunStep DEF FlightInv, Leads, TypeOK
<1>5. ASSUME NEW c \in Calls, Leave(c) PROVE CancelInv'
  BY <1>5 DEF Leave
<1>6. ASSUME NEW c \in Calls, Wake(c) PROVE CancelInv'
  <2>1. led[c] \in Calls /\ led[led[c]] = led[c] /\ result[led[c]] # NoCall
    BY <1>6 DEF Wake, TypeOK, FlightInv, Shares
  <2> QED
    BY <1>6, <2>1 DEF Wake, TypeOK
<1>7. CASE UNCHANGED vars
  BY <1>7 DEF vars
<1> QED
  BY <1>1, <1>2, <1>3, <1>4, <1>5, <1>6, <1>7 DEF Next, Step

\* Nobody fails for the context of a call that only follows.
THEOREM CancelsItsOwn == Spec => []FailsWithItsLeader
<1>1. Init => CancelInv
  BY NoCallIsNothing DEF Init, CancelInv, Blamed
<1>2. TypeOK /\ CancelInv => FailsWithItsLeader
  BY DEF CancelInv, Blamed, FailsWithItsLeader, TypeOK
<1> QED
  BY <1>1, <1>2, CancelNext, FlightAlways, PTL DEF Spec

-----------------------------------------------------------------------------
(* The order of writes                                                     *)

\* A write's own run has succeeded.
Wrote(c) ==
  result[c] # NoCall /\ result[c].error = "none" /\ req[c].op \in Writes

\* Each write has a version of its own, which the world has passed; and what
\* was answered before a run began is older than what that run sees.
OrderInv ==
  /\ \A c \in Calls : Wrote(c) => result[c].version < world
  /\ \A c, d \in Calls : Wrote(c) /\ Wrote(d) /\ c # d => result[c].version # result[d].version
  /\ \A c \in Calls : \A d \in before[c] : at[d] = "answered"
  /\ \A c \in Calls : led[c] # NoCall => led[c] \notin before[c]
  /\ \A c \in Calls : result[c] # NoCall /\ result[c].error = "none" =>
       \A d \in before[led[c]] : Wrote(d) => result[d].version < result[c].version

\* No call follows a write: one that is answered by another's run made none.
LEMMA FollowersWriteNothing ==
  ASSUME TypeOK, FlightInv, NEW c \in Calls, at[c] = "wait"
  PROVE  /\ req[c].op \notin Writes
         /\ led[c] \in Calls /\ led[led[c]] = led[c] /\ led[c] # c
<1>1. led[c] \in Calls /\ led[c] # NoCall
  BY NoCallIsNothing DEF TypeOK
<1>2. led[led[c]] = led[c] /\ led[c] # c /\ req[c].op \in Collapsed
  BY <1>1 DEF FlightInv, Shares
<1> QED
  BY <1>1, <1>2 DEF Writes, Collapsed

\* Every step keeps the order of writes and of what runs have seen.
LEMMA OrderNext == TypeOK /\ FlightInv /\ OrderInv /\ [Next]_vars => OrderInv'
<1> SUFFICES ASSUME TypeOK, FlightInv, OrderInv, [Next]_vars PROVE OrderInv'
  OBVIOUS
<1> USE NoCallIsNothing
<1> USE DEF OrderInv, Wrote
<1>1. ASSUME NEW c \in Calls, NEW r \in Requests, Arrive(c, r) PROVE OrderInv'
  BY <1>1 DEF Arrive, Go, TypeOK
<1>2. ASSUME NEW c \in Calls, Cancel(c) PROVE OrderInv'
  BY <1>2 DEF Cancel
<1>3. ASSUME NEW c \in Calls, Do(c) PROVE OrderInv'
  <2> DEFINE answered == {d \in Calls : at[d] = "answered"}
  <2>1. /\ at[c] = "do" /\ c \notin answered
        /\ before' = [before EXCEPT ![c] = answered]
        /\ UNCHANGED <<world, req, cancelled, result>>
        /\ \A d \in Calls : d # c => at'[d] = at[d] /\ led'[d] = led[d]
    BY <1>3 DEF Do, Lead, Go, TypeOK
  <2>2. led'[c] \notin answered
    BY <1>3, KeyTells DEF Do, Lead, TypeOK, FlightInv, Held
  <2>3. result[c] = NoCall /\ before' \in [Calls -> SUBSET Calls]
    BY <2>1 DEF TypeOK
  <2>4. \A d \in answered : at'[d] = "answered"
    BY <2>1
  <2>5. \A e \in Calls : result[e] # NoCall => led[e] # c /\ led[e] \in Calls
    BY <2>1 DEF TypeOK, FlightInv, Shares
  <2>6. \A e \in Calls \ {c} : before'[e] = before[e]
    BY <2>1 DEF TypeOK
  <2>7. \A e \in Calls : \A d \in before'[e] : at'[d] = "answered"
    BY <2>1, <2>3, <2>4, <2>6 DEF TypeOK
  <2>8. before'[c] = answered
    BY <2>1 DEF TypeOK
  <2>9. \A e \in Calls : led'[e] # NoCall => led'[e] \notin before'[e]
    BY <2>1, <2>2, <2>6, <2>8
  <2>10. \A e \in Calls : result'[e] # NoCall => before'[led'[e]] = before[led[e]]
    BY <2>1, <2>3, <2>5, <2>6
  <2> QED
    BY <2>1, <2>7, <2>9, <2>10
<1>4. ASSUME NEW c \in Calls, Run(c) PROVE OrderInv'
  <2>1. led[c] = c /\ at[c] = "run" /\ result[c] = NoCall
    BY <1>4, RunStep DEF TypeOK, FlightInv, Leads
  <2>2. \A e \in Calls : c \notin before[e]
    BY <2>1
  <2>3. \A e \in Calls \ {c} : result'[e] = result[e] /\ at'[e] = at[e]
    BY <1>4, RunStep DEF TypeOK
  <2>4. \A e \in Calls : result[e] # NoCall => result[e].version \in Nat
    BY DEF TypeOK, Answers
  <2>5. \A e \in Calls : before[e] \subseteq Calls
    BY DEF TypeOK
  <2>6. /\ world \in Nat /\ world' \in Nat /\ world <= world'
        /\ UNCHANGED <<req, cancelled, flight, led, before>>
        /\ result'[c] # NoCall
        /\ result'[c].error = "none" => result'[c].version = world
        /\ result'[c].error = "none" /\ req[c].op \in Writes => world' = world + 1
    BY <1>4, RunStep DEF TypeOK
  <2>7. \A e \in Calls : Wrote(e)' => result'[e].version < world'
    BY <2>3, <2>4, <2>6
  <2>8. \A e, d \in Calls : Wrote(e)' /\ Wrote(d)' /\ e # d => result'[e].version # result'[d].version
    BY <2>3, <2>4, <2>6
  <2>9. \A e \in Calls : \A d \in before'[e] : at'[d] = "answered"
    BY <2>2, <2>3, <2>5, <2>6
  <2>10. ASSUME NEW e \in Calls, result'[e] # NoCall, result'[e].error = "none",
                NEW d \in before'[led'[e]], Wrote(d)'
         PROVE  result'[d].version < result'[e].version
    <3>1. led[e] \in Calls
      BY <2>1, <2>3, <2>10 DEF TypeOK
    <3>2. d \in Calls /\ d # c /\ Wrote(d) /\ result'[d] = result[d]
      BY <2>2, <2>3, <2>5, <2>6, <2>10, <3>1
    <3>3. CASE e = c
      BY <2>1, <2>4, <2>6, <2>10, <3>2, <3>3
    <3>4. CASE e # c
      BY <2>3, <2>6, <2>10, <3>2, <3>4
    <3> QED
      BY <3>3, <3>4
  <2> QED
    BY <2>6, <2>7, <2>8, <2>9, <2>10
<1>5. ASSUME NEW c \in Calls, Leave(c) PROVE OrderInv'
  BY <1>5 DEF Leave, Go, TypeOK
<1>6. ASSUME NEW c \in Calls, Wake(c) PROVE OrderInv'
  <2>1. /\ at[c] = "wait" /\ at' = [at EXCEPT ![c] = "answered"]
        /\ result' = [result EXCEPT ![c] = result[led[c]]]
        /\ UNCHANGED <<world, req, cancelled, flight, led, before>>
    BY <1>6 DEF Wake, Go
  <2>2. req[c].op \notin Writes /\ led[c] \in Calls /\ led[led[c]] = led[c] /\ led[c] # c
    BY <2>1, FollowersWriteNothing
  <2>3. /\ \A e \in Calls \ {c} : result'[e] = result[e] /\ at'[e] = at[e]
        /\ result'[c] = result[led[c]] /\ at'[c] = "answered"
    BY <2>1 DEF TypeOK
  <2>4. \A e \in Calls : Wrote(e)' => Wrote(e) /\ e # c
    BY <2>1, <2>2, <2>3
  <2>5. \A e \in Calls : \A d \in before'[e] : at'[d] = "answered"
    BY <2>1, <2>3 DEF TypeOK
  <2>6. \A e \in Calls : before[e] \subseteq Calls
    BY DEF TypeOK
  <2>7. ASSUME NEW e \in Calls, result'[e] # NoCall, result'[e].error = "none",
               NEW d \in before'[led'[e]], Wrote(d)'
        PROVE  result'[d].version < result'[e].version
    <3>1. led[e] \in Calls
      BY <2>1, <2>2, <2>3, <2>7 DEF TypeOK
    <3>2. d \in Calls /\ Wrote(d) /\ result'[d] = result[d]
      BY <2>1, <2>3, <2>4, <2>6, <2>7, <3>1
    <3>3. CASE e = c
      BY <2>1, <2>2, <2>3, <2>7, <3>2, <3>3
    <3>4. CASE e # c
      BY <2>1, <2>3, <2>7, <3>2, <3>4
    <3> QED
      BY <3>3, <3>4
  <2> QED
    BY <2>1, <2>3, <2>4, <2>5, <2>7
<1>7. CASE UNCHANGED vars
  BY <1>7 DEF vars
<1> QED
  BY <1>1, <1>2, <1>3, <1>4, <1>5, <1>6, <1>7 DEF Next, Step

\* The order of writes holds throughout.
LEMMA OrderAlways == Spec => [](TypeOK /\ OrderInv)
<1>1. Init => OrderInv
  BY NoCallIsNothing DEF Init, OrderInv, Wrote
<1> QED
  BY <1>1, OrderNext, FlightAlways, PTL DEF Spec

\* No write is answered with the run of another: each has its own version.
THEOREM WritesApart == Spec => []WritesKeepApart
<1>1. TypeOK /\ OrderInv => WritesKeepApart
  BY NoCallIsNothing DEF OrderInv, Wrote, WritesKeepApart, Ok, TypeOK
<1> QED
  BY <1>1, OrderAlways, PTL

\* An answer is of a run that was not over when its caller came, and newer than
\* every write answered before that run began.
THEOREM SeesWrites == Spec => []SeesEarlierWrites
<1>1. TypeOK /\ OrderInv => SeesEarlierWrites
  <2> SUFFICES ASSUME TypeOK, OrderInv, NEW c \in Calls, Ok(c)
               PROVE  /\ led[c] \notin before[c]
                      /\ \A d \in before[led[c]] :
                           Ok(d) /\ req[d].op \in Writes => result[d].version < result[c].version
    BY DEF SeesEarlierWrites
  <2>1. result[c] # NoCall /\ result[c].error = "none" /\ led[c] # NoCall /\ led[c] \in Calls
    BY NoCallIsNothing DEF Ok, TypeOK
  <2>2. \A d \in before[led[c]] : Ok(d) => result[d] # NoCall
    BY <2>1 DEF Ok, TypeOK
  <2> QED
    BY <2>1, <2>2 DEF OrderInv, Wrote, Ok
<1> QED
  BY <1>1, OrderAlways, PTL
=============================================================================
