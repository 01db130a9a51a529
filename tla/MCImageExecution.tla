-------------------------- MODULE MCImageExecution --------------------------
(* Instances of ImageExecution for TLC: interchangeable workers. *)
EXTENDS ImageExecution, TLC

CONSTANTS w1, w2

Symmetry == Permutations(Workers)
=============================================================================
