----------------------------- MODULE MCAdmission -----------------------------
(* Admission for TLC: one peer, two handlers, one command at a time; the overlay *)
(* sorts before the contact file, which is of this machine.                      *)
EXTENDS Admission, TLC

CONSTANTS p1, h1, h2, c1

HandlerSymmetry == Permutations(Handler)
=============================================================================
