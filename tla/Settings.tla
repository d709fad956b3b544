-------------------------------- MODULE Settings --------------------------------
(***************************************************************************)
(* How a topic's delivery policy is made (internal/config/mq.go): each     *)
(* setting is the topic's own when it has one, else that of                *)
(* general_mq_config, else a default.  A zero is no setting, so that a     *)
(* topic cannot ask for no retries by MaxRetries = 0.  Multipliers are     *)
(* whole numbers here; the settings of the brokers themselves (addresses,  *)
(* credentials) are left out.                                              *)
(***************************************************************************)
EXTENDS Integers

CONSTANT Nil   \* a boolean that is not set

\* GeneralMQConfig
Configs ==
  [MaxRetries : Int, InitialInterval : Int, MaxInterval : Int, Multiplier : Int,
   ExponentialBackoff : BOOLEAN, EnableDLQ : BOOLEAN]

\* TopicOverride
Overrides ==
  [MaxRetries : Int, InitialInterval : Int, MaxInterval : Int, Multiplier : Int,
   ExponentialBackoff : BOOLEAN \cup {Nil}, EnableDLQ : BOOLEAN \cup {Nil}]

OrInt(v, fallback, defaultVal) ==
  IF v # 0 THEN v ELSE IF fallback # 0 THEN fallback ELSE defaultVal

OrBool(v, fallback) == IF v # Nil THEN v ELSE fallback

Resolve(g, ov) ==
  [MaxRetries         |-> OrInt(ov.MaxRetries, g.MaxRetries, 5),
   InitialInterval    |-> OrInt(ov.InitialInterval, g.InitialInterval, 2),
   MaxInterval        |-> OrInt(ov.MaxInterval, g.MaxInterval, 30),
   Multiplier         |-> OrInt(ov.Multiplier, g.Multiplier, 2),
   ExponentialBackoff |-> OrBool(ov.ExponentialBackoff, g.ExponentialBackoff),
   EnableDLQ          |-> OrBool(ov.EnableDLQ, g.EnableDLQ)]
=================================================================================
