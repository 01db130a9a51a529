----------------------------- MODULE BackOffice -----------------------------
(***************************************************************************)
(* The back office: the stock ledger, and the versioned content: capture    *)
(* SOPs, the manifests of the variants of model families, and AI reference  *)
(* SOPs.  They share no state; SOPs and manifests make the promise of       *)
(* VersionLifecycle.                                                        *)
(***************************************************************************)
EXTENDS Inventory, CaptureSOPs, FamilyManifests, AIReferences

(* Every office keeps the types of its state; TypeOK is that of the stock.   *)
OfficeTypeOK == TypeOK /\ SOPTypeOK /\ FamTypeOK /\ RefTypeOK

(* Capture SOPs and manifests live as VersionLifecycle says: one draft at a  *)
(* time, and what is published never changes (sop_service.go and             *)
(* variant_manifests.go).                                                    *)
LifecycleKept == SOPLifecycle /\ ManifestLifecycle
=============================================================================
