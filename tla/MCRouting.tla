----------------------------- MODULE MCRouting ------------------------------
(***************************************************************************)
(* Routing with two sessions that come and go, one record and one command. *)
(***************************************************************************)
EXTENDS Routing

CONSTANTS s1, s2, r1, c1
=============================================================================
