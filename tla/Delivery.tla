------------------------------ MODULE Delivery ------------------------------
(***************************************************************************)
(* What the asking side promises its peers: an answer is received after it  *)
(* was sent, acknowledged only after it was received, and never given up    *)
(* once it was received.                                                    *)
(***************************************************************************)
CONSTANT Question

VARIABLES sent, received, acked

vars == <<sent, received, acked>>

Init == sent = {} /\ received = {} /\ acked = {}

Send(q) == q \notin sent /\ sent' = sent \union {q} /\ UNCHANGED <<received, acked>>

Receive(q) ==
  /\ q \in sent /\ q \notin received
  /\ received' = received \union {q}
  /\ UNCHANGED <<sent, acked>>

Acknowledge(q) ==
  /\ q \in received /\ q \notin acked
  /\ acked' = acked \union {q}
  /\ UNCHANGED <<sent, received>>

Next == \E q \in Question : Send(q) \/ Receive(q) \/ Acknowledge(q)

Spec == Init /\ [][Next]_vars
=============================================================================
