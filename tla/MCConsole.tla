-------------------------------- MODULE MCConsole --------------------------------
(* Small instances of Console for TLC.                                          *)
EXTENDS Console, TLC

CONSTANTS r1, r2, q1, q2, t1

\* The second replica's clock is one tick ahead.
AheadSkew == r1 :> 0 @@ r2 :> 1
NoSkew == r1 :> 0

\* Each replica may be started with a bootstrap user of its own; the first one
\* also without a webhook token, the second one also with half a user.
FirstUser == [named |-> TRUE, password |-> "p1", hooked |-> TRUE]
TwoConfigs ==
  r1 :> {FirstUser, [named |-> FALSE, password |-> Unset, hooked |-> FALSE]} @@
  r2 :> {[FirstUser EXCEPT !.password = "p2"], [FirstUser EXCEPT !.named = FALSE]}
OneConfig == r1 :> {FirstUser}

OneTab == [q \in Requests |-> t1]
===================================================================================
