---------------------------- MODULE MCReferences ----------------------------
(* An instance of AIReferences for TLC: one masked picture in two versions. *)
EXTENDS AIReferences

SomeMasks == {{<<1, 0>>, <<1, 1>>}}
=============================================================================
