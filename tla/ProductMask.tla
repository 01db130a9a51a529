----------------------------- MODULE ProductMask -----------------------------
(***************************************************************************)
(* What is left of a picture when the product on it is masked out           *)
(* (internal/app/reference_grants.go neutralizeMaskedProduct): everything    *)
(* outside the smallest rectangle around the mask, so that not even the      *)
(* outline of the product shows.  A picture is the set of its pixels, a mask *)
(* the set of the pixels it marks.                                           *)
(***************************************************************************)
EXTENDS Naturals, FiniteSetsExt

CONSTANTS Width, Height

ASSUME PictureAssumption == Width \in Nat \ {0} /\ Height \in Nat \ {0}

Pixels == (0 .. Width - 1) \X (0 .. Height - 1)

Between(n, numbers) == Min(numbers) <= n /\ n <= Max(numbers)
Box(mask) ==
    {p \in Pixels : /\ Between(p[1], {m[1] : m \in mask})
                    /\ Between(p[2], {m[2] : m \in mask})}

(* The pixels of the source that the derivative shows.                       *)
Retained(mask) == IF mask = {} THEN Pixels ELSE Pixels \ Box(mask)

(* A mask must mark something, and its rectangle must leave something.       *)
Protected(mask) ==
    \/ Min({m[1] : m \in mask}) > 0 \/ Max({m[1] : m \in mask}) < Width - 1
    \/ Min({m[2] : m \in mask}) > 0 \/ Max({m[2] : m \in mask}) < Height - 1
Usable(mask) == mask # {} /\ Protected(mask)
=============================================================================
