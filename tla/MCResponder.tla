---------------------------- MODULE MCResponder ----------------------------
(***************************************************************************)
(* Instances of Responder for TLC: q1, q2, q3 are requests of one peer with *)
(* the same text; the constants say what kind they are and how they relate. *)
(***************************************************************************)
EXTENDS Responder

CONSTANTS q1, q2, q3, ann, bob, t1, h1

FromAnn == [q \in Question |-> ann]
FirstFromBob == [q \in Question |-> IF q = q1 THEN bob ELSE ann]
SameHash == [q \in Question |-> h1]
Unthreaded == [q \in Question |-> NoThread]
SecondInThread == [q \in Question |-> IF q = q2 THEN t1 ELSE NoThread]
OneThread == [q \in Question |-> t1]

AllQuestions == [q \in Question |-> "question"]
AllTools == [q \in Question |-> "tool-call"]
FirstIsContent == [q \in Question |-> IF q = q1 THEN "content" ELSE "question"]

Unset == [p \in Peer |-> "unset"]
Manual == [p \in Peer |-> "manual"]
OnlyBobAuto == [p \in Peer |-> IF p = bob THEN "auto" ELSE "unset"]
Auto == [p \in Peer |-> "auto"]
=============================================================================
