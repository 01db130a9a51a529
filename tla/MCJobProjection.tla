--------------------------- MODULE MCJobProjection ---------------------------
(* Instances of JobProjection for TLC: a text item beside an item of another *)
(* kind.                                                                     *)
EXTENDS JobProjection, TLC

CONSTANTS text, image, c1, c2, c3

Symmetry == Permutations(Clients)
==============================================================================
