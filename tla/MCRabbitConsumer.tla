---------------------------- MODULE MCRabbitConsumer ----------------------------
(***************************************************************************)
(* Finite instances of RabbitConsumer for TLC.                             *)
(***************************************************************************)
EXTENDS RabbitConsumer

\* One outcome of each kind Handle tells apart.
MCResults == {"processed", "DATA_ACCESS_ERROR", "INTERNAL_ERROR"}
================================================================================
