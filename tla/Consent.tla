------------------------------ MODULE Consent ------------------------------
(***************************************************************************)
(* What the answering side promises its owner: a request is answered only   *)
(* after the owner let it through, by a policy in force when it came or by   *)
(* releasing it; nothing asked or let through is forgotten, and an answer    *)
(* that left is never taken back.                                            *)
(***************************************************************************)
CONSTANT Question

VARIABLES asked, released, answered
promise == <<asked, released, answered>>

Init == asked = {} /\ released = {} /\ answered = {}

(* A request comes in, let through by its peer's policy or held.              *)
Arrive(q) ==
  /\ asked' = asked \union {q}
  /\ released' \in {released, released \union {q}}
  /\ UNCHANGED answered

(* The owner releases a request that came in.                                 *)
Release(q) ==
  /\ q \in asked
  /\ released' = released \union {q}
  /\ UNCHANGED <<asked, answered>>

Answer(q) ==
  /\ q \in released
  /\ answered' = answered \union {q}
  /\ UNCHANGED <<asked, released>>

Next == \E q \in Question : Arrive(q) \/ Release(q) \/ Answer(q)

Spec == Init /\ [][Next]_promise
=============================================================================
