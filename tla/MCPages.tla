-------------------------------- MODULE MCPages --------------------------------
(***************************************************************************)
(* A finite instance of Pages for TLC: pages of one, two and three rows,   *)
(* asked for by sizes below, in and above the range.                       *)
(***************************************************************************)
EXTENDS Pages, TLC

MCPageRequests == {0, 2}
MCSizeRequests == {0, 1, 5}

\* No property tells one id from another.
AnyId == Permutations(Ids)
================================================================================
