------------------------------- MODULE MCScheduler -------------------------------
(* Small instances of Scheduler for TLC.                                        *)
EXTENDS Scheduler, TLC

CONSTANTS p1, p2, t1, t2

\* The second scheduler's clock is two ticks ahead, the API's one behind.
ApartClocks == p1 :> 0 @@ p2 :> 2 @@ "api" :> -1
===================================================================================
