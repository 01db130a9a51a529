------------------------------ MODULE AIOffice ------------------------------
(***************************************************************************)
(* The components around the AI workers: templates and the creation of jobs, *)
(* the review of texts, the provider's settings and the costs.  They share   *)
(* no state; each belongs to an office of its own.                           *)
(***************************************************************************)
EXTENDS JobCreation, TextReview, ProviderSettings, CostAccounting

(* Every office keeps the types of its state.                                *)
OfficeTypeOK ==
    TypeOK /\ ReviewTypeOK /\ ProviderTypeOK /\ PricingTypeOK /\ CostTypeOK
=============================================================================
