---------------------------- MODULE MCUserService ----------------------------
(***************************************************************************)
(* Finite instances of UserService for TLC.                                *)
(***************************************************************************)
EXTENDS UserService

CONSTANTS u1, u2, p1, p2, t1, t2

MCProfiles == {"ann", "bob", "unnamed"}
MCValid == {"ann", "bob"}
MCUsername(profile) == profile
==============================================================================
