----------------------------- MODULE MCManifests -----------------------------
(* An instance of FamilyManifests for TLC: one SKU of one family, a photo of *)
(* it as evidence, and forms with all that publication asks for and without. *)
EXTENDS FamilyManifests

OwnerOf == [a \in Assets |-> CHOOSE s \in Variants : TRUE]
SomeDimensions == {{"color"}}
SomeForms ==
    { [identity |-> {"color"}, regions |-> {Region("color", TRUE, TRUE, Assets)}],
      [identity |-> {"color"}, regions |-> {Region("color", TRUE, FALSE, {})}] }
=============================================================================
