--------------------------- MODULE MCTextExecution ---------------------------
(* Instances of TextExecution for TLC: interchangeable workers. *)
EXTENDS TextExecution, TLC

CONSTANTS w1, w2, w3

Symmetry == Permutations(Workers)
==============================================================================
