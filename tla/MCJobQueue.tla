----------------------------- MODULE MCJobQueue -----------------------------
(* An instance of JobQueue for TLC: two workers and a job of two items.     *)
EXTENDS JobQueue, TLC

CONSTANTS j1, i1, i2, w1, w2

OneJob == i1 :> j1 @@ i2 :> j1

Symmetry == Permutations(Workers) \cup Permutations({i1, i2})
=============================================================================
