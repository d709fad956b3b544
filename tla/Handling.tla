------------------------------- MODULE Handling -------------------------------
(***************************************************************************)
(* What a message consumer's handler (internal/delivery/messaging) answers *)
(* to a broker adapter for one delivery, from what the endpoint returned.  *)
(* An outcome is "processed", "malformed" (the body is not JSON), or the   *)
(* code of the error; "UNTYPED" is an error that is not an AppError.       *)
(***************************************************************************)

Codes ==
  {"VALIDATION_ERROR", "NOT_FOUND", "DUPLICATE_KEY", "DATA_ACCESS_ERROR",
   "UNAUTHORIZED", "FORBIDDEN", "CONFLICT", "INTERNAL_ERROR"}

Outcomes == {"processed", "malformed", "UNTYPED"} \cup Codes

\* A deny-list: the codes below are final, every other error is retried.
IsRetryable(err) ==
  err \notin {"VALIDATION_ERROR", "NOT_FOUND", "DUPLICATE_KEY", "DATA_ACCESS_ERROR",
              "UNAUTHORIZED", "FORBIDDEN", "CONFLICT"}

\* Handle returns nil, which acknowledges the message, or the error.
Acknowledges(outcome) ==
  outcome \in {"processed", "malformed"} \/ ~IsRetryable(outcome)
=============================================================================
