---------------------------- MODULE MCPubSubConsumer ----------------------------
(***************************************************************************)
(* Finite instances of PubSubConsumer for TLC.                             *)
(***************************************************************************)
EXTENDS PubSubConsumer

\* The topic asks for two retries and no more than three seconds, and leaves the
\* rest to general_mq_config or to the defaults: waits of 2 and 3 seconds.
MCGeneral ==
  [MaxRetries |-> 0, InitialInterval |-> 0, MaxInterval |-> 9, Multiplier |-> 0,
   ExponentialBackoff |-> TRUE, EnableDLQ |-> FALSE]

MCOverride ==
  [MaxRetries |-> 2, InitialInterval |-> 0, MaxInterval |-> 3, Multiplier |-> 0,
   ExponentialBackoff |-> Nil, EnableDLQ |-> TRUE]

\* One outcome of each kind Handle tells apart.
MCResults == {"processed", "DATA_ACCESS_ERROR", "INTERNAL_ERROR"}
================================================================================
