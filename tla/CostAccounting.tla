-------------------------- MODULE CostAccounting --------------------------
(***************************************************************************)
(* What AI work costs: the estimates of the usage (UsagePricing) and how    *)
(* the provider's bill is spread by them (CostReconciliation).              *)
(***************************************************************************)
EXTENDS UsagePricing, CostReconciliation

(* The costs say what there is: a call that counts as priced is priced whole *)
(* (costing.go), and what a sync has allocated undisturbed adds up to the    *)
(* bill (cost_service.go).                                                   *)
CostsAddUp == PricedIsWhole /\ CalmSyncBalances
=============================================================================
