----------------------------- MODULE MCModelCache -----------------------------
(* Two manifests that share file 1 and pin different contents of one size for *)
(* file 2: the case in which sizes say least.                                 *)
EXTENDS ModelCache, TLC

CONSTANTS m1, m2, a, b, c

TwoManifests == {m1, m2}
ThreeTags == {a, b, c}
WantOf(m, i) == IF i = 1 THEN a ELSE IF m = m1 THEN b ELSE c
UnitsOf(t) == IF t = a THEN 1 ELSE 2
=============================================================================
