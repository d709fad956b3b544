------------------------------ MODULE MCEndpoints ------------------------------
(***************************************************************************)
(* Finite instances of Endpoints for TLC.                                  *)
(***************************************************************************)
EXTENDS Endpoints

CONSTANTS u1, u2

\* A write, and two reads that ids tell apart.
MCRequests ==
  {[op |-> "add", arg |-> u1], [op |-> "get_user_by_id", arg |-> u1],
   [op |-> "get_user_by_id", arg |-> u2]}
================================================================================
