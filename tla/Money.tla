------------------------------- MODULE Money -------------------------------
(***************************************************************************)
(* Amounts of money (internal/money/decimal.go), each a whole number of the *)
(* smallest unit that is stored, the eighth decimal.                        *)
(***************************************************************************)
EXTENDS Integers, Functions

(* big.Rat.FloatString: to the nearest unit, halves away from zero. *)
Rounded(n, d) ==
    IF n >= 0 THEN (2 * n + d) \div (2 * d) ELSE - ((d - 2 * n) \div (2 * d))

(* What rows with an amount come to. *)
TotalOf(rows) == SumFunctionOnSet([r \in rows |-> r.amount], rows)
=============================================================================
