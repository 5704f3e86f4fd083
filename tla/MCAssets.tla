--------------------------------- MODULE MCAssets ---------------------------------
(* Small instances of Assets for TLC.                                           *)
EXTENDS Assets, TLC

CONSTANTS h1, h2, s1, s2, t1, t2

\* Rows of one table are interchangeable.
RowSymmetry == Permutations({h1, h2}) \cup Permutations({s1, s2}) \cup Permutations({t1, t2})
===================================================================================
