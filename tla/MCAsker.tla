------------------------------ MODULE MCAsker -------------------------------
(***************************************************************************)
(* Instances of Asker for TLC: questions of the same text, to one peer or   *)
(* to two.                                                                 *)
(***************************************************************************)
EXTENDS Asker

CONSTANTS q1, q2, p1, p2, h1

ToOne == [q \in Question |-> p1]
ToTwo == [q \in Question |-> IF q = q1 THEN p1 ELSE p2]
SameHash == [q \in Question |-> h1]
=============================================================================
