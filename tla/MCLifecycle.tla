------------------------------ MODULE MCLifecycle ------------------------------
(***************************************************************************)
(* Finite instances of Lifecycle for TLC: one consumer per adapter, two    *)
(* topics published to.                                                    *)
(***************************************************************************)
EXTENDS Lifecycle, TLC

CONSTANTS k, r, p, t, u

MCBroker == k :> "kafka" @@ r :> "rabbitmq" @@ p :> "pubsub" @@ t :> "kafka" @@ u :> "rabbitmq"
MCKafkaOnly == k :> "kafka" @@ t :> "kafka"
================================================================================
