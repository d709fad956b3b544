------------------------------ MODULE AtLeastOnce ------------------------------
(***************************************************************************)
(* What the service asks of every broker adapter ("every broker here       *)
(* guarantees at-least-once delivery", process_user_created.go): a message *)
(* may be delivered any number of times, and the broker lets go of it only *)
(* once the handler has settled it or it has been set aside as dead.       *)
(***************************************************************************)
CONSTANT Messages

VARIABLES
  sent,      \* messages the broker has accepted
  settled,   \* messages acknowledged by the handler, or dead-lettered
  released   \* messages the broker will not deliver any more

vars == <<sent, settled, released>>

Init == sent = {} /\ settled = {} /\ released = {}

Send(m) == sent' = sent \cup {m} /\ UNCHANGED <<settled, released>>

\* A broker that dead-letters a message itself lets go of it at once.
Settle(m) ==
  /\ m \in sent
  /\ settled' = settled \cup {m}
  /\ released' \in {released, released \cup {m}}
  /\ UNCHANGED sent

\* Releasing may be done in bulk, and undone (an older offset is committed).
Release == released' \in SUBSET settled /\ UNCHANGED <<sent, settled>>

Next == Release \/ \E m \in Messages : Send(m) \/ Settle(m)

Spec == Init /\ [][Next]_vars

\* Nothing is let go of that was not settled.
NothingLost == released \subseteq settled
=============================================================================
