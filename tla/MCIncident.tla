-------------------------------- MODULE MCIncident --------------------------------
(* Small instances of Incident for TLC.                                         *)
EXTENDS Incident

CONSTANTS a1, a2, e1, e2, u1, r1, r2

\* Two alerts that begin one after the other, or together.
OwnOrShared == {[a \in Alerts |-> IF a = a1 THEN e1 ELSE e2], [a \in Alerts |-> e1]}
===================================================================================
