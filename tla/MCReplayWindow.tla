--------------------------- MODULE MCReplayWindow ---------------------------
(***************************************************************************)
(* ReplayWindow with a window of 2 and a TTL of 4: the code's 300 and 600    *)
(* seconds, in units of 150. One stamp is the oldest and one the newest a    *)
(* clock starting at 0 can meet within its bound.                            *)
(***************************************************************************)
EXTENDS ReplayWindow

CONSTANTS early, late, h1, h2

Stamps == [id \in Id |-> IF id = early THEN 1 ELSE 5]
HandlerSymmetry == {[h \in Handler |-> h], [h \in Handler |-> IF h = h1 THEN h2 ELSE h1]}
=============================================================================
