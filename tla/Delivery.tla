-------------------------------- MODULE Delivery --------------------------------
(***************************************************************************)
(* One request on its way in and back: the HTTP middlewares, the gateway,  *)
(* the gRPC interceptors, the generated handler, the use case.  Requests   *)
(* share none of this, so one is enough; what calls share is in Endpoints  *)
(* and UserService.                                                        *)
(*                                                                         *)
(* Three goroutines take part: the HTTP server's (outer), the one that     *)
(* http.TimeoutHandler starts (inner), and the gRPC server's (rpc), at     *)
(* which a gRPC caller's request begins.                                   *)
(*                                                                         *)
(* External: http.TimeoutHandler's select, the gateway runtime's decoding  *)
(* and HTTPStatusFromCode, gRPC's client and server.                       *)
(***************************************************************************)
EXTENDS Naturals

CONSTANT ExcludedLogPaths  \* logging.excluded_log_paths, as <<via, target>>

\* The methods of proto.UserGrpcService.
RPCs == {"Add", "GetById", "GetAll", "GetAllPaginated", "Update", "Delete", "Search"}

publicGRPCMethods == {"Check"}

Probes == {"live", "ready"}

\* What is asked for: an RPC, and on HTTP what the top mux and CORS serve.
Targets(via) ==
  RPCs \cup (IF via = "grpc" THEN publicGRPCMethods
             ELSE Probes \cup {"swagger", "preflight", "unknown"})

\* The token a request carries; an anonymous one is valid and names no user.
Requests ==
  UNION {[via : {via}, target : Targets(via), wellFormed : BOOLEAN,
          token : {"none", "bad", "anonymous", "good"}] : via \in {"http", "grpc"}}

\* The typed errors of pkg/errors that a use case ends with, by RPC.
Errors(target) ==
  CASE target = "Add" -> {"VALIDATION_ERROR", "DUPLICATE_KEY", "DATA_ACCESS_ERROR"}
    [] target = "Update" -> {"VALIDATION_ERROR", "NOT_FOUND", "DUPLICATE_KEY", "DATA_ACCESS_ERROR"}
    [] target \in {"GetById", "Delete"} -> {"NOT_FOUND", "DATA_ACCESS_ERROR"}
    [] OTHER -> {"DATA_ACCESS_ERROR"}

Outcomes(target) == IF target \in RPCs THEN {"nil", "panic"} \cup Errors(target) ELSE {"nil"}

\* mutant: a database fault is told as a failed precondition.
mapCode_DataAccess(e) ==
  CASE e = "VALIDATION_ERROR" -> "InvalidArgument"
    [] e = "NOT_FOUND" -> "NotFound"
    [] e = "DUPLICATE_KEY" -> "AlreadyExists"
    [] e = "UNAUTHORIZED" -> "Unauthenticated"
    [] e = "FORBIDDEN" -> "PermissionDenied"
    [] e = "CONFLICT" -> "FailedPrecondition"
    [] e = "DATA_ACCESS_ERROR" -> "FailedPrecondition"
    [] e = "INTERNAL_ERROR" -> "Internal"
    [] OTHER -> "Unknown"

\* Of these a use case returns four; Unknown is for errors without a code.
mapCode(e) ==
  CASE e = "VALIDATION_ERROR" -> "InvalidArgument"
    [] e = "NOT_FOUND" -> "NotFound"
    [] e = "DUPLICATE_KEY" -> "AlreadyExists"
    [] e = "UNAUTHORIZED" -> "Unauthenticated"
    [] e = "FORBIDDEN" -> "PermissionDenied"
    [] e = "CONFLICT" -> "FailedPrecondition"
    [] e \in {"DATA_ACCESS_ERROR", "INTERNAL_ERROR"} -> "Internal"
    [] OTHER -> "Unknown"

Codes == {"OK", "InvalidArgument", "NotFound", "AlreadyExists", "Unauthenticated",
          "PermissionDenied", "FailedPrecondition", "Internal", "Unknown"}

HTTPStatusFromCode(c) ==
  CASE c = "OK" -> 200
    [] c \in {"InvalidArgument", "FailedPrecondition"} -> 400
    [] c = "Unauthenticated" -> 401
    [] c = "PermissionDenied" -> 403
    [] c = "NotFound" -> 404
    [] c = "AlreadyExists" -> 409
    [] OTHER -> 500

\* What the envelope says of a status, as a status says that has none.
Success(status) == status < 400

-----------------------------------------------------------------------------
VARIABLES
  validateJWT,  \* server.validate_jwt
  request,
  expired,      \* the token's time is over
  gone,         \* the HTTP caller has left
  late,         \* TimeoutHandler's deadline has passed
  outer,        \* where the HTTP server's goroutine is
  inner,        \* where TimeoutHandler's goroutine is
  response,     \* the status inner has written into TimeoutHandler's buffer
  reply,        \* the status the caller is sent, 0 for none yet
  httpLine,     \* the status of the request's log line, 0 for none
  rpc,          \* where the gRPC handler's goroutine is
  caller,       \* whether its context names a user
  outcome,      \* what the use case ended with
  done,         \* the use case has done its work
  code,         \* the RPC's status code
  rpcLine       \* the code of the RPC's log line

ends == <<validateJWT, request>>
faults == <<expired, gone, late>>
front == <<outer, reply, httpLine>>
middle == <<inner, response>>
back == <<rpc, caller, outcome, done, code, rpcLine>>
vars == <<ends, faults, front, middle, back>>

\* ParseAndValidate: signature and expiry.
Valid == request.token \in {"anonymous", "good"} /\ ~expired

\* A path or method that LoggingMiddleware or UnaryServerLogger skips.
Excluded(via) ==
  \/ request.target \in Probes \cup publicGRPCMethods
  \/ <<via, request.target>> \in ExcludedLogPaths

\* The context TimeoutHandler gives to what runs under it.
ContextDone == late \/ gone

\* The status of a call whose context is done: Canceled or DeadlineExceeded.
Interrupted(status) == (gone /\ status = 499) \/ (late /\ status = 504)

-----------------------------------------------------------------------------
(* The HTTP server's goroutine                                             *)

Answer(status, line) ==
  /\ outer' = "ended" /\ reply' = status /\ httpLine' = line
  /\ UNCHANGED <<ends, faults, back>>

\* LoggingMiddleware, once what it wraps has returned.
Line(status) == IF Excluded("http") THEN 0 ELSE status

\* A refused request is answered outside the other middlewares.
ClaimsMiddleware ==
  /\ outer = "claims"
  /\ \/ /\ validateJWT /\ ~Valid
        /\ Answer(401, 0)
        /\ UNCHANGED middle
     \/ /\ validateJWT => Valid
        /\ outer' = "waiting" /\ inner' = "mux"
        /\ UNCHANGED <<ends, faults, back, reply, httpLine, response>>

\* TimeoutHandler's select: what is ready first, or any if several are.
HandlerDone ==
  /\ outer = "waiting" /\ inner = "done"
  /\ Answer(response, Line(response))
  /\ UNCHANGED middle

\* RecoveryMiddleware answers for a panic that passes the Logging on its way.
HandlerPanicked ==
  /\ outer = "waiting" /\ inner = "panicked"
  /\ Answer(500, 0)
  /\ UNCHANGED middle

\* The deadline has passed or the caller has left; what inner writes is dropped.
TimedOut ==
  /\ outer = "waiting" /\ ContextDone
  /\ Answer(503, Line(503))
  /\ UNCHANGED middle

\* mutant: the paths of RPCs are among TimeoutMiddleware's excluded ones.
DeadlinePasses_ExcludesRPCs ==
  /\ outer = "waiting" /\ ~late /\ request.target \notin RPCs
  /\ late' = TRUE
  /\ UNCHANGED <<ends, expired, gone, front, middle, back>>

DeadlinePasses ==
  /\ outer = "waiting" /\ ~late
  /\ late' = TRUE
  /\ UNCHANGED <<ends, expired, gone, front, middle, back>>

CallerLeaves ==
  /\ outer = "waiting" /\ ~gone
  /\ gone' = TRUE
  /\ UNCHANGED <<ends, expired, late, front, middle, back>>

TokenExpires ==
  /\ ~expired /\ request.token \in {"anonymous", "good"}
  /\ expired' = TRUE
  /\ UNCHANGED <<ends, gone, late, front, middle, back>>

-----------------------------------------------------------------------------
(* TimeoutHandler's goroutine: the envelope, CORS, the mux, the gateway    *)

\* ResponseWrapperMiddleware writes when the handler has returned.
Respond(status) ==
  /\ inner' = "done" /\ response' = status
  /\ UNCHANGED <<ends, faults, front>>

\* CORS answers a preflight; the gateway's mux knows no other path.
Mux ==
  /\ inner = "mux"
  /\ \/ request.target = "preflight" /\ Respond(204) /\ UNCHANGED back
     \/ request.target \in {"live", "swagger"} /\ Respond(200) /\ UNCHANGED back
     \/ request.target = "unknown" /\ Respond(404) /\ UNCHANGED back
     \/ /\ request.target \in RPCs \cup {"ready"}
        /\ inner' = IF request.target = "ready" THEN "pinging" ELSE "gateway"
        /\ UNCHANGED <<ends, faults, front, back, response>>

\* Every wired dependency answers a ping within three seconds, or one does not.
Ready ==
  /\ inner = "pinging"
  /\ \E status \in {200, 503} : Respond(status)
  /\ UNCHANGED back

\* Only these have a body or a query to decode.
Decoded == {"Add", "Update", "GetAllPaginated", "Search"}

\* request_UserGrpcService_*: decode, then call the gRPC server.
CallRPC ==
  /\ inner = "gateway"
  /\ request.wellFormed \/ request.target \notin Decoded
  /\ inner' = "calling" /\ rpc' = "claims"
  /\ UNCHANGED <<ends, faults, front, response, caller, outcome, done, code, rpcLine>>

\* What does not decode (body, query or Grpc-Timeout header), or cannot be sent:
\* there is no connection, or no time left.
NotCalled ==
  /\ inner = "gateway"
  /\ \E status \in {400, 499, 503, 504} :
       /\ status = 400 => ~request.wellFormed
       /\ status \in {499, 504} => Interrupted(status)
       /\ Respond(status)
  /\ UNCHANGED back

RPCReturned ==
  /\ inner = "calling" /\ rpc = "ended"
  /\ Respond(HTTPStatusFromCode(code))
  /\ UNCHANGED back

\* mutant: the call is made under context.Background().
CallInterrupted_Background ==
  /\ inner = "calling" /\ rpc = "ended"
  /\ \E status \in {499, 504} : Interrupted(status) /\ Respond(status)
  /\ UNCHANGED back

CallInterrupted ==
  /\ inner = "calling"
  /\ \E status \in {499, 504} : Interrupted(status) /\ Respond(status)
  /\ UNCHANGED back

\* The gateway's connection is lost or closed under the call.
ConnectionLost ==
  /\ inner = "calling"
  /\ \E status \in {499, 503} : Respond(status)
  /\ UNCHANGED back

InnerPanics ==
  /\ inner \in {"mux", "pinging", "gateway"}
  /\ inner' = "panicked"
  /\ UNCHANGED <<ends, faults, front, back, response>>

-----------------------------------------------------------------------------
(* The gRPC server's goroutine: the generated handler and the interceptors *)

\* The RPC ends with a code and, if the logger was reached, a line.
Return(c, line) ==
  /\ rpc' = "ended" /\ code' = c /\ rpcLine' = line
  /\ UNCHANGED <<ends, faults, front, middle, caller, outcome, done>>

\* The message is decoded before the first interceptor.
DecodeMessage ==
  /\ rpc = "arrived"
  /\ \/ ~request.wellFormed /\ Return("Internal", "none")
     \/ /\ request.wellFormed /\ rpc' = "claims"
        /\ UNCHANGED <<ends, faults, front, middle, caller, outcome, done, code, rpcLine>>

\* The gateway forwards the Authorization header: the token is looked at again.
UnaryServerClaims ==
  /\ rpc = "claims"
  /\ \/ validateJWT /\ ~Valid /\ Return("Unauthenticated", "none")
     \/ /\ validateJWT => Valid
        /\ caller' = IF Valid /\ request.token = "good" THEN "user" ELSE "nobody"
        /\ rpc' = "auth"
        /\ UNCHANGED <<ends, faults, front, middle, outcome, done, code, rpcLine>>

\* mutant: with validation off everybody passes.
UnaryServerAuth_TrustsConfig ==
  /\ rpc = "auth"
  /\ \/ /\ request.target \in publicGRPCMethods \/ caller = "user" \/ ~validateJWT
        /\ rpc' = "running"
        /\ UNCHANGED <<ends, faults, front, middle, caller, outcome, done, code, rpcLine>>
     \/ /\ request.target \notin publicGRPCMethods /\ caller # "user" /\ validateJWT
        /\ Return("Unauthenticated", "none")

UnaryServerAuth ==
  /\ rpc = "auth"
  /\ \/ /\ request.target \in publicGRPCMethods \/ caller = "user"
        /\ rpc' = "running"
        /\ UNCHANGED <<ends, faults, front, middle, caller, outcome, done, code, rpcLine>>
     \/ /\ request.target \notin publicGRPCMethods /\ caller # "user"
        /\ Return("Unauthenticated", "none")

\* The point at which a use case has read, or committed.
UseCaseWorks ==
  /\ rpc = "running" /\ request.target \in RPCs /\ ~done
  /\ done' = TRUE
  /\ UNCHANGED <<ends, faults, front, middle, rpc, caller, outcome, code, rpcLine>>

\* A commit whose answer is lost, and a panic, leave it open.
UseCaseEnds(o) ==
  /\ rpc = "running" /\ o \in Outcomes(request.target)
  /\ o = "nil" /\ request.target \in RPCs => done
  /\ o \in {"VALIDATION_ERROR", "NOT_FOUND", "DUPLICATE_KEY"} => ~done
  /\ rpc' = "returning" /\ outcome' = o
  /\ UNCHANGED <<ends, faults, front, middle, caller, done, code, rpcLine>>

\* UnaryServerErrorHandler maps the error; a panic is UnaryServerRecovery's.
CodeOf(o) == IF o = "nil" THEN "OK" ELSE IF o = "panic" THEN "Internal" ELSE mapCode(o)

\* mutant: the logger inside the error handler, which sees the unmapped error.
ReturnRPC_LogsUnmapped ==
  /\ rpc = "returning"
  /\ Return(CodeOf(outcome),
            IF Excluded("grpc") \/ outcome = "panic" THEN "none" ELSE IF outcome = "nil" THEN "OK" ELSE "Unknown")

\* UnaryServerLogger logs on the way back, which a panic does not take.
ReturnRPC ==
  /\ rpc = "returning"
  /\ Return(CodeOf(outcome),
            IF Excluded("grpc") \/ outcome = "panic" THEN "none" ELSE CodeOf(outcome))

-----------------------------------------------------------------------------
Init ==
  /\ validateJWT \in BOOLEAN /\ request \in Requests
  /\ expired = FALSE /\ gone = FALSE /\ late = FALSE
  /\ outer = IF request.via = "http" THEN "claims" ELSE "none"
  /\ inner = "none" /\ response = 0
  /\ reply = 0 /\ httpLine = 0
  /\ rpc = IF request.via = "grpc" THEN "arrived" ELSE "none"
  /\ caller = "nobody" /\ outcome = "none" /\ done = FALSE
  /\ code = "none" /\ rpcLine = "none"

Outer == ClaimsMiddleware \/ HandlerDone \/ HandlerPanicked \/ TimedOut

Inner == Mux \/ Ready \/ CallRPC \/ NotCalled \/ RPCReturned \/ CallInterrupted

RPC == DecodeMessage \/ UnaryServerClaims \/ UnaryServerAuth \/ UseCaseWorks \/ ReturnRPC
       \/ \E o \in Outcomes(request.target) : UseCaseEnds(o)

Next ==
  \/ Outer \/ Inner \/ RPC
  \/ ConnectionLost \/ InnerPanics \/ DeadlinePasses \/ CallerLeaves \/ TokenExpires

Spec == Init /\ [][Next]_vars

\* The goroutines of HTTP run on and the timer fires; a ping ends after three
\* seconds.  Nothing is asked of the RPC, whose use case may hang.
Fairness == WF_vars(Outer) /\ WF_vars(Inner) /\ WF_vars(DeadlinePasses)

FairSpec == Spec /\ Fairness

-----------------------------------------------------------------------------
Statuses == {200, 204, 400, 401, 403, 404, 409, 499, 500, 503, 504}

TypeOK ==
  /\ validateJWT \in BOOLEAN /\ request \in Requests
  /\ expired \in BOOLEAN /\ gone \in BOOLEAN /\ late \in BOOLEAN
  /\ outer \in {"none", "claims", "waiting", "ended"}
  /\ inner \in {"none", "mux", "pinging", "gateway", "calling", "done", "panicked"}
  /\ response \in {0} \cup Statuses
  /\ reply \in {0} \cup Statuses /\ httpLine \in {0} \cup Statuses
  /\ rpc \in {"none", "arrived", "claims", "auth", "running", "returning", "ended"}
  /\ caller \in {"nobody", "user"}
  /\ outcome \in {"none"} \cup Outcomes(request.target)
  /\ done \in BOOLEAN
  /\ code \in {"none"} \cup Codes /\ rpcLine \in {"none"} \cup Codes

\* What the caller of an RPC makes of its answer: the RPC's code, or the HTTP
\* status and its envelope.  Answers that name a fault of the request or of its
\* state are refusals, all others leave it open.
Verdict ==
  IF request.target \notin RPCs THEN "none"
  ELSE IF request.via = "grpc"
  THEN CASE code = "none" -> "none"
         [] code = "OK" -> "yes"
         [] code \in {"InvalidArgument", "NotFound", "AlreadyExists", "Unauthenticated",
                     "PermissionDenied", "FailedPrecondition"} -> "no"
         [] OTHER -> "unsure"
  ELSE CASE reply = 0 -> "none"
         [] reply # 0 /\ Success(reply) -> "yes"
         [] reply # 0 /\ ~Success(reply) /\ reply \in {400, 401, 403, 404, 409} -> "no"
         [] OTHER -> "unsure"

Word == INSTANCE Answering WITH answer <- Verdict

\* Through error mapping, gateway, envelope and timeout: a caller told of success
\* has its work done, one that was refused never gets it done behind its back.
KeepsItsWord == Word!Spec

\* A use case runs only for a user whom a valid token names, by whichever port
\* the request came, also with validation off, and though the token of an HTTP
\* request may expire between the two looks at it.
AuthorizedOnly ==
  rpc \in {"running", "returning"} \/ done =>
    request.target \in publicGRPCMethods \/ (request.token = "good" /\ caller = "user")

\* Whoever reads the logs sees what callers saw: a line has the status its
\* caller got, a success told over HTTP is a success in both logs, and work that
\* was done leaves a line unless a panic or the configuration keeps it out.
LogsTellTruth ==
  /\ httpLine \in {0, reply} /\ rpcLine \in {"none", code}
  /\ reply = 200 /\ request.target \in RPCs =>
       /\ Excluded("http") \/ httpLine = 200
       /\ Excluded("grpc") \/ rpcLine = "OK"
  /\ done /\ rpc = "ended" /\ outcome # "panic" => Excluded("grpc") \/ rpcLine # "none"

\* An HTTP caller is answered even when the use case hangs.
HTTPAnswered == outer = "claims" ~> outer = "ended"

\* A call that hangs does not keep the goroutine that made it for ever.
InnerEnds == inner = "calling" ~> inner = "done"

================================================================================
