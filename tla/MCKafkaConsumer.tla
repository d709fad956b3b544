---------------------------- MODULE MCKafkaConsumer ----------------------------
(***************************************************************************)
(* Finite instances of KafkaConsumer for TLC.                              *)
(***************************************************************************)
EXTENDS KafkaConsumer, TLC

\* One outcome of each kind Handle tells apart.
MCResults == {"processed", "DATA_ACCESS_ERROR", "INTERNAL_ERROR"}
================================================================================
