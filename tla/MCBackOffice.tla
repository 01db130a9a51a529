---------------------------- MODULE MCBackOffice ----------------------------
(***************************************************************************)
(* Instances of the components of the back office for TLC: the stock, the   *)
(* capture SOPs, the variant manifests and the AI references.  They share   *)
(* no state, so each behaviour is of one of them, chosen in Init as the     *)
(* office at work, and the others stay as they are.  An office that has two *)
(* hard cases is there twice, with bounds that let each case happen.        *)
(***************************************************************************)
EXTENDS MCInventory, BackOffice

VARIABLE office

-----------------------------------------------------------------------------
(* Capture SOPs: two editors of one view, one of two, or two uploads at once. *)

ViewForm(role, sound, multiple) == [role |-> role, sound |-> sound, multiple |-> multiple]
PlainView == ViewForm("capture", TRUE, TRUE)
SomeViewForms == {PlainView}

TwoViews == INSTANCE CaptureSOPs WITH
    Editors <- {"e1"}, Uploads <- {}, Tickets <- {},
    ViewForms <- {PlainView, ViewForm("other", FALSE, FALSE)},
    MaxVersions <- 2, MaxViews <- 2, MaxTime <- 1, MaxRevision <- 3, MaxKeys <- 2

TwoUploads == INSTANCE CaptureSOPs WITH
    Editors <- {"e1"}, Uploads <- {"u1", "u2"}, Tickets <- {"t1"},
    ViewForms <- {PlainView},
    MaxVersions <- 2, MaxViews <- 0, MaxTime <- 0, MaxRevision <- 2, MaxKeys <- 2

-----------------------------------------------------------------------------
(* Manifests: a SKU between two families, two writers with evidence, and grants. *)

SomeDimensions == {{"color"}, {"color", "finish"}}
PlainForm(kind) == [identity |-> {kind}, regions |-> {Region(kind, FALSE, TRUE, {})}]
ExactForm(views, evidence) ==
    [identity |-> {"color"}, regions |-> {Region("color", TRUE, views, evidence)}]
SomeForms == {PlainForm("finish")}
SomeOwner == [a \in {"a1"} |-> "s1"]

TwoWriters == INSTANCE FamilyManifests WITH
    Families <- {"f1"}, Variants <- {"s1"}, Assets <- {"a1"}, Owner <- SomeOwner,
    Dimensions <- {{"color"}}, Forms <- {ExactForm(TRUE, {"a1"}), ExactForm(FALSE, {})},
    Writers <- {"w1", "w2"}, Granters <- {}, MaxManifests <- 2, MaxGrants <- 0

TwoGranters == INSTANCE FamilyManifests WITH
    Families <- {"f1"}, Variants <- {"s1"}, Assets <- {"a1"}, Owner <- SomeOwner,
    Dimensions <- {{"color"}}, Forms <- {},
    Writers <- {}, Granters <- {"g1", "g2"}, MaxManifests <- 0, MaxGrants <- 2

-----------------------------------------------------------------------------
(* AI references: copies of versions, or one token and masked pictures. *)

SomeMasks == {{<<1, 0>>, <<1, 1>>}}

Masked == INSTANCE AIReferences WITH
    Requests <- {"r1", "r2"}, Tokens <- {"t1"}, Masks <- SomeMasks, Texts <- {"a"},
    MaxReferences <- 1, MaxPictures <- 2

-----------------------------------------------------------------------------

Offices == {"stock", "sops", "views", "uploads", "groups", "evidence", "grants", "copies", "pictures"}

OfficeInit ==
    /\ office \in Offices
    /\ Init
    /\ CASE office = "views" -> TwoViews!SOPInit
         [] office = "uploads" -> TwoUploads!SOPInit
         [] OTHER -> SOPInit
    /\ CASE office = "evidence" -> TwoWriters!FamInit
         [] office = "grants" -> TwoGranters!FamInit
         [] OTHER -> FamInit
    /\ IF office = "pictures" THEN Masked!RefInit ELSE RefInit

OfficeNext ==
    \/ office = "stock" /\ Next /\ UNCHANGED <<office, sopVars, famVars, refVars>>
    \/ /\ \/ office = "sops" /\ SOPNext
          \/ office = "views" /\ TwoViews!SOPNext
          \/ office = "uploads" /\ TwoUploads!SOPNext
       /\ UNCHANGED <<office, vars, famVars, refVars>>
    \/ /\ \/ office = "groups" /\ FamNext
          \/ office = "evidence" /\ TwoWriters!FamNext
          \/ office = "grants" /\ TwoGranters!FamNext
       /\ UNCHANGED <<office, vars, sopVars, refVars>>
    \/ /\ \/ office = "copies" /\ RefNext
          \/ office = "pictures" /\ Masked!RefNext
       /\ UNCHANGED <<office, vars, sopVars, famVars>>

OfficeSpec == OfficeInit /\ [][OfficeNext]_<<office, vars, sopVars, famVars, refVars>>
=============================================================================
