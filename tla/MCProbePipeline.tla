----------------------------- MODULE MCProbePipeline -----------------------------
(* Small instances of ProbePipeline for TLC.                                    *)
EXTENDS ProbePipeline, TLC

CONSTANTS c1, c2, g1, g2, g3

\* One process with two goroutines and a second one with a single goroutine
\* whose clock runs one tick ahead.
TwoAndOneHome == g1 :> c1 @@ g2 :> c1 @@ g3 :> c2
OneEachHome == g1 :> c1 @@ g2 :> c2
AheadSkew == c1 :> 0 @@ c2 :> 1
NoSkew == c1 :> 0 @@ c2 :> 0
SoloHome == g1 :> c1
SoloSkew == c1 :> 0

\* The two goroutines of one process are interchangeable.
PoolSymmetry == Permutations({g1, g2})
===================================================================================
