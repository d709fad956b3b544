---------------------------- MODULE DeliveryProofs ----------------------------
(***************************************************************************)
(* What Delivery promises whatever the configuration keeps out of the      *)
(* logs, proved with TLAPS.  The argument follows a request inwards: what  *)
(* the gRPC goroutine holds (Rpc), what TimeoutHandler's goroutine has made *)
(* of it (Response), what the caller was told (Reply).                     *)
(***************************************************************************)
EXTENDS Delivery, TLAPS

USE DEF ends, faults, front, middle, back

\* Statuses and codes by which a caller is refused.
RefusedBy == {400, 401, 403, 404, 409}

RefusedWith == {"InvalidArgument", "NotFound", "AlreadyExists", "Unauthenticated",
                "PermissionDenied", "FailedPrecondition"}

\* A request has its types whatever became of it.
LEMMA RequestTypes ==
  ASSUME request \in Requests
  PROVE  /\ request.via \in {"http", "grpc"}
         /\ request.target \in RPCs \cup publicGRPCMethods \cup Probes \cup {"swagger", "preflight", "unknown"}
         /\ request.target \in publicGRPCMethods => request.via = "grpc"
BY DEF Requests, Targets, RPCs, publicGRPCMethods, Probes

\* Every code has a status that Statuses lists.
LEMMA StatusOfCode == \A c : HTTPStatusFromCode(c) \in Statuses
BY DEF HTTPStatusFromCode, Statuses

\* Every outcome is told as one of gRPC's codes.
LEMMA CodeOfOutcome == \A o : CodeOf(o) \in Codes
BY DEF CodeOf, mapCode, Codes

\* A new request has the types.
LEMMA TypeInit == Init => TypeOK
<1> SUFFICES ASSUME Init PROVE TypeOK
  OBVIOUS
<1>1. /\ validateJWT \in BOOLEAN /\ expired \in BOOLEAN /\ gone \in BOOLEAN
      /\ late \in BOOLEAN /\ done \in BOOLEAN
  BY Zenon DEF Init
<1> QED
  BY <1>1 DEF Init, TypeOK

\* Every action keeps the types.
LEMMA TypeNext == TypeOK /\ [Next]_vars => TypeOK'
<1> SUFFICES ASSUME TypeOK, [Next]_vars PROVE TypeOK'
  OBVIOUS
<1> USE DEF TypeOK
<1>1. CASE Outer
  <2>1. \A s \in Statuses : Line(s) \in {0} \cup Statuses
    BY DEF Line
  <2>2. {0, 401, 500, 503} \subseteq {0} \cup Statuses
    BY DEF Statuses
  <2>3. CASE ClaimsMiddleware
    BY <2>2, <2>3 DEF ClaimsMiddleware, Answer
  <2>4. CASE HandlerDone
    BY <2>4, <2>1 DEF HandlerDone, Answer, Line
  <2>5. CASE HandlerPanicked \/ TimedOut
    BY <2>5, <2>1, <2>2 DEF HandlerPanicked, TimedOut, Answer, Line, Statuses
  <2> QED
    BY <1>1, <2>3, <2>4, <2>5 DEF Outer
<1>2. CASE Inner \/ ConnectionLost
  <2>1. {200, 204, 400, 404, 499, 503, 504} \subseteq Statuses
    BY DEF Statuses
  <2>2. CASE Mux \/ Ready
    BY <2>1, <2>2 DEF Mux, Ready, Respond
  <2>3. CASE CallRPC
    BY <2>3 DEF CallRPC
  <2>4. CASE NotCalled \/ CallInterrupted \/ ConnectionLost
    BY <2>1, <2>4 DEF NotCalled, CallInterrupted, ConnectionLost, Respond
  <2>5. CASE RPCReturned
    BY <2>5, StatusOfCode DEF RPCReturned, Respond
  <2> QED
    BY <1>2, <2>2, <2>3, <2>4, <2>5 DEF Inner
<1>3. CASE RPC
  <2>1. CASE DecodeMessage \/ UnaryServerClaims \/ UnaryServerAuth
    BY <2>1 DEF DecodeMessage, UnaryServerClaims, UnaryServerAuth, Return, Codes
  <2>2. CASE UseCaseWorks
    BY <2>2 DEF UseCaseWorks
  <2>3. ASSUME NEW o \in Outcomes(request.target), UseCaseEnds(o) PROVE TypeOK'
    <3>1. outcome' \in {"none"} \cup Outcomes(request.target)'
      BY <2>3, Zenon DEF UseCaseEnds
    <3> QED
      BY <2>3, <3>1 DEF UseCaseEnds
  <2>4. CASE ReturnRPC
    BY <2>4, CodeOfOutcome DEF ReturnRPC, Return
  <2> QED
    BY <1>3, <2>1, <2>2, <2>3, <2>4 DEF RPC
<1>4. CASE InnerPanics \/ DeadlinePasses \/ CallerLeaves \/ TokenExpires
  <2>1. late' \in BOOLEAN /\ gone' \in BOOLEAN /\ expired' \in BOOLEAN
    BY <1>4, Zenon DEF InnerPanics, DeadlinePasses, CallerLeaves, TokenExpires
  <2>2. inner' \in {"none", "mux", "pinging", "gateway", "calling", "done", "panicked"}
    BY <1>4 DEF InnerPanics, DeadlinePasses, CallerLeaves, TokenExpires
  <2> QED
    BY <1>4, <2>1, <2>2 DEF InnerPanics, DeadlinePasses, CallerLeaves, TokenExpires
<1>5. CASE UNCHANGED vars
  BY <1>5 DEF vars
<1> QED
  BY <1>1, <1>2, <1>3, <1>4, <1>5 DEF Next

\* Every state of a request has the types.
THEOREM TypeCorrect == Spec => []TypeOK
BY TypeInit, TypeNext, PTL DEF Spec

-----------------------------------------------------------------------------
(* The gRPC goroutine                                                      *)

Refusals == {"VALIDATION_ERROR", "NOT_FOUND", "DUPLICATE_KEY"}

\* Who may run, and what is known of the work, of the code and of the line at
\* each point of the RPC.
RpcInv ==
  /\ caller = "user" => request.token = "good"
  /\ AuthorizedOnly
  /\ rpc \in {"none", "arrived", "claims", "auth"} => ~done
  /\ rpc \notin {"returning", "ended"} => outcome = "none"
  /\ rpc # "ended" => code = "none" /\ rpcLine = "none"
  /\ rpc = "returning" =>
       /\ outcome # "none"
       /\ outcome = "nil" /\ request.target \in RPCs => done
       /\ outcome \in Refusals => ~done
  /\ rpc = "ended" =>
       /\ code # "none" /\ rpcLine \in {"none", code}
       /\ code = "OK" /\ request.target \in RPCs => done
       /\ code \in RefusedWith => ~done
       /\ code = "OK" => Excluded("grpc") \/ rpcLine = "OK"
       /\ done /\ outcome # "panic" => Excluded("grpc") \/ rpcLine # "none"

\* A new request has not reached anyone.
LEMMA RpcInit == Init => RpcInv
BY DEF Init, RpcInv, AuthorizedOnly

\* What leaves the RPC alone leaves RpcInv.
LEMMA RpcSame ==
  ASSUME RpcInv, UNCHANGED request, UNCHANGED back
  PROVE  RpcInv'
BY DEF RpcInv, AuthorizedOnly, Excluded

\* An RPC that ends before its use case has done nothing.
LEMMA RefusedEarly ==
  ASSUME RpcInv, rpc \in {"arrived", "claims", "auth"}, NEW c \in {"Internal", "Unauthenticated"},
         Return(c, "none")
  PROVE  RpcInv'
BY DEF Return, RpcInv, AuthorizedOnly, RefusedWith, Excluded

\* What an outcome is told as.
LEMMA CodeFits ==
  ASSUME NEW o, o \in Outcomes(request.target)
  PROVE  /\ CodeOf(o) # "none"
         /\ CodeOf(o) = "OK" <=> o = "nil"
         /\ CodeOf(o) \in RefusedWith => o \in Refusals
BY DEF CodeOf, mapCode, Outcomes, Errors, RefusedWith, Refusals

\* Every action keeps RpcInv, if an RPC is called only where none runs.
LEMMA RpcNext ==
  ASSUME TypeOK, RpcInv, inner = "gateway" => rpc = "none", [Next]_vars
  PROVE  RpcInv'
<1>1. CASE Outer
  BY <1>1, RpcSame DEF Outer, ClaimsMiddleware, HandlerDone, HandlerPanicked, TimedOut, Answer
<1>2. CASE CallRPC
  BY <1>2 DEF CallRPC, RpcInv, AuthorizedOnly
<1>3. CASE (Inner /\ ~CallRPC) \/ ConnectionLost \/ InnerPanics
  BY <1>3, RpcSame DEF Inner, Mux, Ready, NotCalled, RPCReturned, CallInterrupted,
     ConnectionLost, InnerPanics, Respond
<1>4. CASE DeadlinePasses \/ CallerLeaves \/ TokenExpires
  BY <1>4, RpcSame DEF DeadlinePasses, CallerLeaves, TokenExpires
<1>5. CASE DecodeMessage
  BY <1>5, RefusedEarly DEF DecodeMessage, RpcInv, AuthorizedOnly
<1>6. CASE UnaryServerClaims
  BY <1>6, RefusedEarly DEF UnaryServerClaims, RpcInv, AuthorizedOnly
<1>7. CASE UnaryServerAuth
  BY <1>7, RefusedEarly DEF UnaryServerAuth, RpcInv, AuthorizedOnly
<1>8. CASE UseCaseWorks
  BY <1>8 DEF UseCaseWorks, RpcInv, AuthorizedOnly
<1>9. ASSUME NEW o \in Outcomes(request.target), UseCaseEnds(o) PROVE RpcInv'
  <2>1. o # "none"
    BY DEF Outcomes, Errors
  <2> QED
    BY <1>9, <2>1 DEF UseCaseEnds, RpcInv, AuthorizedOnly, Refusals
<1>10. CASE ReturnRPC
  <2>1. outcome \in Outcomes(request.target)
    BY <1>10 DEF ReturnRPC, RpcInv, TypeOK
  <2> QED
    BY <1>10, <2>1, CodeFits DEF ReturnRPC, Return, RpcInv, AuthorizedOnly, Excluded
<1>11. CASE UNCHANGED vars
  BY <1>11, RpcSame DEF vars
<1> QED
  BY <1>1, <1>2, <1>3, <1>4, <1>5, <1>6, <1>7, <1>8, <1>9, <1>10, <1>11 DEF Next, Inner, RPC

-----------------------------------------------------------------------------
(* What comes back over HTTP                                               *)

\* A status that stands for what the RPC did, now and later.
Backed(status) ==
  request.target \in RPCs =>
    /\ Success(status) => rpc = "ended" /\ code = "OK"
    /\ status \in RefusedBy => rpc \in {"none", "ended"} /\ ~done

\* TimeoutHandler's goroutine calls one RPC, and writes what that is worth.
ResponseInv ==
  IF request.via = "grpc" THEN outer = "none" /\ inner = "none" /\ reply = 0 /\ httpLine = 0
  ELSE /\ inner \in {"none", "mux", "pinging", "gateway", "panicked"} => rpc = "none"
       /\ outer = "claims" => inner = "none"
       /\ inner = "pinging" => request.target \notin RPCs
       /\ inner = "done" => response # 0 /\ Backed(response)

\* The caller is told what it is worth too, and so is the log.
ReplyInv ==
  /\ reply # 0 =>
       /\ outer = "ended" /\ Backed(reply)
       /\ reply \in RefusedBy => inner \in {"none", "done"}
       /\ Success(reply) => Excluded("http") \/ httpLine = reply
  /\ outer = "ended" => reply # 0
  /\ httpLine \in {0, reply}

DeliveryInv == TypeOK /\ RpcInv /\ ResponseInv /\ ReplyInv

\* A new request has no answer.
LEMMA AnswerInit == Init => ResponseInv /\ ReplyInv
BY RequestTypes DEF Init, ResponseInv, ReplyInv

\* What a status stands for stays, unless an RPC is called.
LEMMA BackedStays ==
  ASSUME TypeOK, RpcInv, [Next]_vars, ~CallRPC, NEW status, Backed(status)
  PROVE  Backed(status)'
<1>1. request' = request
  BY DEF Next, vars, Outer, Inner, RPC, ClaimsMiddleware, HandlerDone, HandlerPanicked,
     TimedOut, Answer, Mux, Ready, NotCalled, RPCReturned, CallInterrupted, ConnectionLost,
     InnerPanics, Respond, DeadlinePasses, CallerLeaves, TokenExpires, DecodeMessage,
     UnaryServerClaims, UnaryServerAuth, UseCaseWorks, UseCaseEnds, ReturnRPC, Return
<1>2. rpc \in {"none", "ended"} => rpc' = rpc /\ done' = done /\ code' = code
  BY DEF Next, vars, Outer, Inner, RPC, ClaimsMiddleware, HandlerDone, HandlerPanicked,
     TimedOut, Answer, Mux, Ready, NotCalled, RPCReturned, CallInterrupted, ConnectionLost,
     InnerPanics, Respond, DeadlinePasses, CallerLeaves, TokenExpires, DecodeMessage,
     UnaryServerClaims, UnaryServerAuth, UseCaseWorks, UseCaseEnds, ReturnRPC, Return
<1> QED
  BY <1>1, <1>2 DEF Backed

\* A status that is neither a success nor a refusal stands for nothing.
LEMMA Unbacked == \A status \in {499, 500, 503, 504} : Backed(status) /\ status \notin RefusedBy
BY DEF Backed, RefusedBy, Success

\* What the gateway makes of a code.
LEMMA StatusFits ==
  ASSUME RpcInv, rpc = "ended"
  PROVE  Backed(HTTPStatusFromCode(code))
<1>1. HTTPStatusFromCode(code) \in RefusedBy => code \in RefusedWith
  BY DEF HTTPStatusFromCode, RefusedBy, RefusedWith
<1>2. Success(HTTPStatusFromCode(code)) => code = "OK"
  BY DEF HTTPStatusFromCode, Success
<1> QED
  BY <1>1, <1>2 DEF RpcInv, Backed

\* What has been written stays worth what it is worth.
LEMMA ResponseStays ==
  ASSUME TypeOK, RpcInv, ResponseInv, [Next]_vars, ~CallRPC, response' = response,
         inner = "done", request.via # "grpc"
  PROVE  Backed(response)'
<1>1. PICK s : s = response
  OBVIOUS
<1>2. Backed(s)
  BY <1>1 DEF ResponseInv
<1>3. Backed(s)'
  BY <1>2, BackedStays
<1> QED
  BY <1>1, <1>3 DEF Backed

\* A status that is worth something may be written.
LEMMA ResponseWritten ==
  ASSUME ResponseInv, NEW s, s # 0, Backed(s), inner # "none", Respond(s), UNCHANGED back
  PROVE  ResponseInv'
BY DEF Respond, ResponseInv, Backed

\* A step of another goroutine leaves ResponseInv.
LEMMA ResponseElsewhere ==
  ASSUME TypeOK, RpcInv, ResponseInv, [Next]_vars, UNCHANGED <<request, middle>>,
         outer' = "claims" => outer = "claims", rpc = "none" => rpc' = "none",
         request.via = "grpc" => UNCHANGED front
  PROVE  ResponseInv'
<1>1. ~CallRPC
  BY DEF CallRPC
<1>2. inner = "done" /\ request.via # "grpc" => Backed(response)'
  BY <1>1, ResponseStays
<1> QED
  BY <1>2 DEF ResponseInv

\* Every action keeps ResponseInv.
LEMMA ResponseNext ==
  ASSUME TypeOK, RpcInv, ResponseInv, [Next]_vars
  PROVE  ResponseInv'
<1>1. CASE ClaimsMiddleware
  BY <1>1 DEF ClaimsMiddleware, Answer, ResponseInv
<1>2. CASE HandlerDone \/ HandlerPanicked \/ TimedOut
  <2>1. request.via # "grpc"
    BY <1>2 DEF ResponseInv, HandlerDone, HandlerPanicked, TimedOut
  <2> QED
    BY <1>2, <2>1, ResponseElsewhere DEF HandlerDone, HandlerPanicked, TimedOut, Answer
<1>3. CASE Mux
  <2>1. CASE inner' = "done"
    <3>1. request.target \in {"preflight", "live", "swagger", "unknown"}
      BY <1>3, <2>1 DEF Mux
    <3>2. Backed(200) /\ Backed(204) /\ Backed(404)
      BY <3>1 DEF Backed, RPCs
    <3> QED
      BY <1>3, <2>1, <3>2, ResponseWritten DEF Mux
  <2>2. CASE inner' # "done"
    BY <1>3, <2>2 DEF Mux, Respond, ResponseInv, RPCs
  <2> QED
    BY <2>1, <2>2
<1>4. CASE Ready
  <2>1. Backed(200) /\ Backed(503)
    BY <1>4 DEF Ready, ResponseInv, Backed
  <2> QED
    BY <1>4, <2>1, ResponseWritten DEF Ready
<1>5. CASE CallRPC
  BY <1>5 DEF CallRPC, ResponseInv
<1>6. CASE NotCalled
  <2>1. Backed(400)
    BY <1>6 DEF NotCalled, ResponseInv, RpcInv, Backed, Success
  <2> QED
    BY <1>6, <2>1, Unbacked, ResponseWritten DEF NotCalled
<1>7. CASE RPCReturned
  <2>1. HTTPStatusFromCode(code) # 0
    BY DEF HTTPStatusFromCode
  <2> QED
    BY <1>7, <2>1, StatusFits, ResponseWritten DEF RPCReturned
<1>8. CASE CallInterrupted \/ ConnectionLost
  BY <1>8, Unbacked, ResponseWritten DEF CallInterrupted, ConnectionLost
<1>9. CASE InnerPanics
  BY <1>9 DEF InnerPanics, ResponseInv
<1>10. CASE DeadlinePasses \/ CallerLeaves \/ TokenExpires
  BY <1>10, ResponseElsewhere DEF DeadlinePasses, CallerLeaves, TokenExpires
<1>11. CASE RPC
  BY <1>11, ResponseElsewhere DEF RPC, DecodeMessage, UnaryServerClaims, UnaryServerAuth,
     UseCaseWorks, UseCaseEnds, ReturnRPC, Return
<1>12. CASE UNCHANGED vars
  BY <1>12, ResponseElsewhere DEF vars
<1> QED
  BY <1>1, <1>2, <1>3, <1>4, <1>5, <1>6, <1>7, <1>8, <1>9, <1>10, <1>11, <1>12
     DEF Next, Outer, Inner

\* An answer that is worth something may be given, with its line or none.
LEMMA ReplyGiven ==
  ASSUME ReplyInv, NEW s, s # 0, Backed(s), NEW line \in {0, s}, Answer(s, line),
         s \in RefusedBy => inner' \in {"none", "done"},
         Success(s) => Excluded("http") \/ line = s
  PROVE  ReplyInv'
BY DEF Answer, ReplyInv, Backed, Excluded

\* A step that is no answer leaves ReplyInv.
LEMMA ReplyStays ==
  ASSUME TypeOK, RpcInv, ResponseInv, ReplyInv, [Next]_vars, UNCHANGED request,
         UNCHANGED <<reply, httpLine>>, outer' = outer \/ outer = "claims",
         outer' = "ended" => outer = "ended",
         inner \in {"none", "done"} => inner' = inner \/ outer = "claims"
  PROVE  ReplyInv'
<1>1. CASE CallRPC
  <2>1. reply # 0 => reply \notin RefusedBy /\ ~(request.target \in RPCs /\ Success(reply))
    BY <1>1, RequestTypes DEF CallRPC, ReplyInv, ResponseInv, Backed, TypeOK
  <2> QED
    BY <1>1, <2>1 DEF CallRPC, ReplyInv, Backed, Excluded
<1>2. CASE ~CallRPC
  <2>1. PICK s : s = reply
    OBVIOUS
  <2>2. reply # 0 => Backed(s)
    BY <2>1 DEF ReplyInv
  <2>3. reply # 0 => Backed(s)'
    BY <1>2, <2>2, BackedStays
  <2>4. reply # 0 => Backed(reply)'
    BY <2>1, <2>3 DEF Backed
  <2> QED
    BY <2>4 DEF ReplyInv, Excluded
<1> QED
  BY <1>1, <1>2

\* Every action keeps ReplyInv.
LEMMA ReplyNext ==
  ASSUME TypeOK, RpcInv, ResponseInv, ReplyInv, [Next]_vars
  PROVE  ReplyInv'
<1>1. CASE ClaimsMiddleware
  <2>1. inner = "none" /\ rpc = "none"
    BY <1>1 DEF ClaimsMiddleware, ResponseInv
  <2>2. Backed(401) /\ ~Success(401)
    BY <2>1 DEF Backed, Success, RpcInv
  <2>3. CASE outer' = "ended"
    <3>1. Answer(401, 0) /\ UNCHANGED middle
      BY <1>1, <2>3 DEF ClaimsMiddleware
    <3> QED
      BY <2>1, <2>2, <3>1, ReplyGiven
  <2>4. CASE outer' # "ended"
    BY <1>1, <2>4, ReplyStays DEF ClaimsMiddleware, Answer
  <2> QED
    BY <2>3, <2>4
<1>2. CASE HandlerDone
  <2>1. response # 0 /\ Backed(response)
    BY <1>2 DEF HandlerDone, ResponseInv
  <2>2. PICK s : s = response
    OBVIOUS
  <2>3. Line(s) \in {0, s} /\ (Success(s) => Excluded("http") \/ Line(s) = s)
    BY DEF Line
  <2> QED
    BY <1>2, <2>1, <2>2, <2>3 DEF HandlerDone, Answer, ReplyInv, Backed, Excluded
<1>3. CASE HandlerPanicked
  BY <1>3, Unbacked, ReplyGiven DEF HandlerPanicked, Success
<1>4. CASE TimedOut
  BY <1>4, Unbacked, ReplyGiven DEF TimedOut, Line, Success
<1>5. CASE Inner \/ ConnectionLost \/ InnerPanics
  BY <1>5, ReplyStays DEF Inner, Mux, Ready, CallRPC, NotCalled, RPCReturned, CallInterrupted,
     ConnectionLost, InnerPanics, Respond
<1>6. CASE DeadlinePasses \/ CallerLeaves \/ TokenExpires
  BY <1>6, ReplyStays DEF DeadlinePasses, CallerLeaves, TokenExpires
<1>7. CASE RPC
  BY <1>7, ReplyStays DEF RPC, DecodeMessage, UnaryServerClaims, UnaryServerAuth,
     UseCaseWorks, UseCaseEnds, ReturnRPC, Return
<1>8. CASE UNCHANGED vars
  BY <1>8, ReplyStays DEF vars
<1> QED
  BY <1>1, <1>2, <1>3, <1>4, <1>5, <1>6, <1>7, <1>8 DEF Next, Outer

\* The invariant that the theorems follow from.
LEMMA Invariance == Spec => []DeliveryInv
<1>1. DeliveryInv /\ [Next]_vars => DeliveryInv'
  <2> SUFFICES ASSUME DeliveryInv, [Next]_vars PROVE DeliveryInv'
    OBVIOUS
  <2>1. inner = "gateway" => rpc = "none"
    BY DEF DeliveryInv, ResponseInv
  <2> QED
    BY <2>1, TypeNext, RpcNext, ResponseNext, ReplyNext DEF DeliveryInv
<1>2. Init => DeliveryInv
  BY TypeInit, RpcInit, AnswerInit DEF DeliveryInv
<1> QED
  BY <1>1, <1>2, PTL DEF Spec

\* Nobody's use case runs without a valid token that names a user, whichever
\* way the request came.
THEOREM Authorized == Spec => []AuthorizedOnly
<1>1. DeliveryInv => AuthorizedOnly
  BY DEF DeliveryInv, RpcInv
<1> QED
  BY <1>1, Invariance, PTL

\* Both logs agree with what callers were told, whatever is excluded from them.
THEOREM TruthfulLogs == Spec => []LogsTellTruth
<1>1. DeliveryInv => LogsTellTruth
  <2> SUFFICES ASSUME DeliveryInv PROVE LogsTellTruth
    OBVIOUS
  <2>1. httpLine \in {0, reply} /\ rpcLine \in {"none", code}
    BY DEF DeliveryInv, ReplyInv, RpcInv, TypeOK
  <2>2. ASSUME reply = 200, request.target \in RPCs
        PROVE  (Excluded("http") \/ httpLine = 200) /\ (Excluded("grpc") \/ rpcLine = "OK")
    BY <2>2 DEF DeliveryInv, ReplyInv, RpcInv, Backed, Success
  <2> QED
    BY <2>1, <2>2 DEF LogsTellTruth, DeliveryInv, RpcInv
<1> QED
  BY <1>1, Invariance, PTL

-----------------------------------------------------------------------------
(* The refinement                                                          *)

\* What the answers of an RPC mean for its work.
LEMMA VerdictMeans ==
  DeliveryInv => /\ Verdict \in {"none", "yes", "no", "unsure"}
                 /\ Verdict = "yes" => done
                 /\ Verdict = "no" => ~done /\ rpc # "running"
<1> SUFFICES ASSUME DeliveryInv
             PROVE  /\ Verdict \in {"none", "yes", "no", "unsure"}
                    /\ Verdict = "yes" => done
                    /\ Verdict = "no" => ~done /\ rpc # "running"
  OBVIOUS
<1>1. CASE request.target \notin RPCs
  BY <1>1 DEF Verdict
<1>2. CASE request.target \in RPCs /\ request.via = "grpc"
  BY <1>2 DEF Verdict, DeliveryInv, RpcInv, RefusedWith
<1>3. CASE request.target \in RPCs /\ request.via # "grpc"
  BY <1>3 DEF Verdict, DeliveryInv, RpcInv, ReplyInv, Backed, RefusedBy
<1> QED
  BY <1>1, <1>2, <1>3

\* Once there is a verdict it stays, and the work done stays done.
LEMMA VerdictStays ==
  ASSUME DeliveryInv, [Next]_vars
  PROVE  /\ Verdict # "none" => Verdict' = Verdict
         /\ done' = done \/ (UseCaseWorks /\ done' = TRUE /\ ~done)
<1>1. request' = request /\ (code # "none" => code' = code) /\ (reply # 0 => reply' = reply)
  BY DEF DeliveryInv, RpcInv, ReplyInv, Next, vars, Outer, Inner, RPC, ClaimsMiddleware, HandlerDone, HandlerPanicked,
     TimedOut, Answer, Mux, Ready, CallRPC, NotCalled, RPCReturned, CallInterrupted,
     ConnectionLost, InnerPanics, Respond, DeadlinePasses, CallerLeaves, TokenExpires,
     DecodeMessage, UnaryServerClaims, UnaryServerAuth, UseCaseWorks, UseCaseEnds, ReturnRPC, Return
<1>2. done' = done \/ (UseCaseWorks /\ done' = TRUE /\ ~done)
  BY DEF Next, vars, Outer, Inner, RPC, ClaimsMiddleware, HandlerDone, HandlerPanicked,
     TimedOut, Answer, Mux, Ready, CallRPC, NotCalled, RPCReturned, CallInterrupted,
     ConnectionLost, InnerPanics, Respond, DeadlinePasses, CallerLeaves, TokenExpires,
     DecodeMessage, UnaryServerClaims, UnaryServerAuth, UseCaseWorks, UseCaseEnds, ReturnRPC, Return
<1> QED
  BY <1>1, <1>2 DEF Verdict

\* From the error code of a use case to the envelope and through the timeout, a
\* caller is told what Answering lets it be told.
THEOREM Refinement == Spec => KeepsItsWord
<1>1. Init => Word!Init
  BY DEF Init, Word!Init, Verdict
<1>2. DeliveryInv /\ DeliveryInv' /\ [Next]_vars => [Word!Next]_(Word!vars)
  <2> SUFFICES ASSUME DeliveryInv, DeliveryInv', [Next]_vars PROVE [Word!Next]_(Word!vars)
    OBVIOUS
  <2> USE DEF Word!vars
  <2>1. CASE done' = done /\ Verdict' = Verdict
    BY <2>1
  <2>2. CASE done' = done /\ Verdict' # Verdict
    <3>1. Verdict = "none"
      BY <2>2, VerdictStays
    <3>2. (/\ Verdict \in {"none", "yes", "no", "unsure"}
           /\ Verdict = "yes" => done
           /\ Verdict = "no" => ~done /\ rpc # "running")'
      BY VerdictMeans, PTL
    <3>3. Word!Say(Verdict')
      BY <2>2, <3>1, <3>2 DEF Word!Say
    <3> QED
      BY <2>2, <3>1, <3>2, <3>3 DEF Word!Next
  <2>3. CASE done' # done
    <3>1. UseCaseWorks /\ done' = TRUE /\ ~done
      BY <2>3, VerdictStays
    <3>2. Verdict' = Verdict
      BY <3>1 DEF UseCaseWorks, Verdict
    <3>3. Verdict \in {"none", "unsure"}
      BY <3>1, VerdictMeans DEF UseCaseWorks
    <3>4. Word!Work
      BY <3>1, <3>2, <3>3 DEF Word!Work
    <3> QED
      BY <3>4 DEF Word!Next
  <2> QED
    BY <2>1, <2>2, <2>3
<1> QED
  BY <1>1, <1>2, Invariance, PTL DEF Spec, KeepsItsWord, Word!Spec

\* Through every layer between use case and caller: who was told of success has
\* the work done, who was refused has it not done.
THEOREM NeverMisled == Spec => []Word!NeverMisleads
<1>1. DeliveryInv => Word!NeverMisleads
  BY VerdictMeans DEF Word!NeverMisleads
<1> QED
  BY <1>1, Invariance, PTL
================================================================================
