------------------------------- MODULE Answering -------------------------------
(***************************************************************************)
(* What a caller may conclude from the answer to one call: a success means *)
(* that the work was done, a refusal that it was not and never will be; an *)
(* answer that leaves it open commits to nothing, the work may even follow *)
(* it.  A call is answered once.                                           *)
(***************************************************************************)
VARIABLES
  done,    \* the work the call asks for has been done
  answer   \* "none", "yes", "no" or "unsure"

vars == <<done, answer>>

Init == done = FALSE /\ answer = "none"

Work ==
  /\ ~done /\ answer \in {"none", "unsure"}
  /\ done' = TRUE
  /\ UNCHANGED answer

Say(a) ==
  /\ answer = "none"
  /\ a = "yes" => done
  /\ a = "no" => ~done
  /\ answer' = a
  /\ UNCHANGED done

Next == Work \/ \E a \in {"yes", "no", "unsure"} : Say(a)

Spec == Init /\ [][Next]_vars

\* What was said is true: for good, since Spec lets nobody take it back and no
\* work follow a refusal.
NeverMisleads == (answer = "yes" => done) /\ (answer = "no" => ~done)
================================================================================
