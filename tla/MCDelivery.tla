------------------------------- MODULE MCDelivery -------------------------------
(***************************************************************************)
(* Finite instances of Delivery for TLC: every request there is.           *)
(***************************************************************************)
EXTENDS Delivery

\* One path and one method that the configuration keeps out of the logs.
MCExcludedLogPaths == {<<"http", "Add">>, <<"grpc", "GetAll">>}
================================================================================
