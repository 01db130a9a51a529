----------------------------- MODULE MCInventory -----------------------------
(* An instance of Inventory for TLC: two SKUs, one with an opening balance. *)
EXTENDS Inventory

CONSTANTS case, charger

Entered(sku, quantity, price) == [sku |-> sku, quantity |-> quantity, price |-> price]

(* A receipt of both whose cost does not divide evenly, a sale and a count.   *)
SomeDocuments ==
    { [type |-> "purchase_receipt", charges |-> 1,
       lines |-> <<Entered(case, 2, 2), Entered(charger, 1, 1)>>],
      [type |-> "sale_issue", charges |-> 0, lines |-> <<Entered(case, 2, 0)>>],
      [type |-> "stock_adjustment", charges |-> 0,
       lines |-> <<Entered(charger, -1, 0), Entered(case, 2, 0)>>] }

SomeRecosts == {[prices |-> [s \in {case, charger} |-> 3], charges |-> 2]}

SomeQuantities == {[s \in {case, charger} |-> 1]}

SomeOpening == [s \in {case, charger} |-> IF s = case THEN 0 ELSE 1]
=============================================================================
