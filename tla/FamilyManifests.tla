--------------------------- MODULE FamilyManifests ---------------------------
(***************************************************************************)
(* Model families, their members, and the identity manifests of the members  *)
(* (internal/sop/model_families.go and variant_manifests.go), with the       *)
(* references taken from their assets (internal/app/reference_grants.go).    *)
(*                                                                         *)
(* A manifest write opens its read view with its first, plain read and then  *)
(* locks family, SKU and membership, in this order as every change of a      *)
(* membership does: it is two steps, the view and the commit.  What it reads *)
(* under locks is current at the commit.  The regions of a version, the      *)
(* assets, the count of drafts and the last number are read without.         *)
(***************************************************************************)
EXTENDS Naturals, Sequences, FiniteSets

CONSTANTS
    Families, Variants, Assets,
    Owner,          \* Owner[a] : the SKU of an asset
    Dimensions,     \* what a family may vary: sets of dimensions
    Forms,          \* what editors enter: an identity and its regions
    Writers,        \* manifest writes under way
    Granters,       \* requests that take a reference from an asset
    MaxManifests,   \* bound: manifest versions
    MaxGrants       \* bound: references

NoFamily == "none"
ASSUME OwnerAssumption == Assets \subseteq DOMAIN Owner

VARIABLES
    family,         \* family[f] : status and dimensions
    home,           \* home[s] : the family a SKU is an active member of
    manifest,       \* all manifest versions: family, sku, status, identity and regions
    approved,       \* approved assets
    writer,         \* writer[w] : what a write has seen
    granter,        \* granter[g] : what a request has seen
    grant           \* all references: kind, family, asset, status

famVars == <<family, home, manifest, approved, writer, granter, grant>>

Nothing == [op |-> "idle"]
Region(kind, exact, views, evidence) ==
    [kind |-> kind, exact |-> exact, views |-> views, evidence |-> evidence]
ActiveFamily(f) == family[f].status = "active"
OfManifest(f, s) == {i \in DOMAIN manifest : manifest[i].family = f /\ manifest[i].sku = s}
ManifestHasDraft(f, s) == \E i \in OfManifest(f, s) : manifest[i].status = "draft"

-----------------------------------------------------------------------------
(* Families *)

CreateFamily(f, dims) ==
    /\ family[f].status = "none"
    /\ family' = [family EXCEPT ![f] = [status |-> "active", dims |-> dims]]
    /\ UNCHANGED <<home, manifest, approved, writer, granter, grant>>

UpdateFamily(f, dims, status) ==
    /\ ActiveFamily(f)
    /\ family' = [family EXCEPT ![f] = [status |-> status, dims |-> dims]]
    /\ UNCHANGED <<home, manifest, approved, writer, granter, grant>>

AddMember(f, s) ==
    /\ ActiveFamily(f) /\ home[s] = NoFamily
    /\ home' = [home EXCEPT ![s] = f]
    /\ UNCHANGED <<family, manifest, approved, writer, granter, grant>>

RemoveMember(f, s) ==
    /\ ActiveFamily(f) /\ home[s] = f
    /\ home' = [home EXCEPT ![s] = NoFamily]
    /\ UNCHANGED <<family, manifest, approved, writer, granter, grant>>

Review(a) ==        \* an asset is approved, or its approval is withdrawn
    /\ approved' = IF a \in approved THEN approved \ {a} ELSE approved \cup {a}
    /\ UNCHANGED <<family, home, manifest, writer, granter, grant>>

-----------------------------------------------------------------------------
(* Manifest writes: what they see *)

Begin(w, seen) ==
    /\ writer[w] = Nothing /\ writer' = [writer EXCEPT ![w] = seen]
    /\ UNCHANGED <<family, home, manifest, approved, granter, grant>>

(* The current family of the SKU: the one a draft is made in.                *)
BeginCreate(w, s, form) ==
    /\ home[s] # NoFamily
    /\ Begin(w, [op |-> "create", family |-> home[s], sku |-> s, form |-> form,
                 hasDraft |-> ManifestHasDraft(home[s], s),
                 count |-> Cardinality(OfManifest(home[s], s)), approved |-> approved])
BeginCopy(w, i) ==
    LET s == manifest[i].sku
    IN  /\ home[s] # NoFamily
        /\ Begin(w, [op |-> "copy", source |-> i, family |-> home[s], sku |-> s,
                     regions |-> manifest[i].regions, hasDraft |-> ManifestHasDraft(home[s], s),
                     count |-> Cardinality(OfManifest(home[s], s))])

(* The version and its manifest: the family is the one it was made in.       *)
BeginUpdate(w, i, form) ==
    Begin(w, [op |-> "update", version |-> i, family |-> manifest[i].family,
              sku |-> manifest[i].sku, status |-> manifest[i].status, form |-> form,
              approved |-> approved])
BeginPublish(w, i) ==
    Begin(w, [op |-> "publish", version |-> i, family |-> manifest[i].family,
              sku |-> manifest[i].sku, status |-> manifest[i].status,
              regions |-> manifest[i].regions, approved |-> approved])

-----------------------------------------------------------------------------
(* Manifest writes: what they do once they have their locks *)

ScopeSeen(w) == writer[w].family # NoFamily  \* mutant: as the first reads found it
Scope(w) == ActiveFamily(writer[w].family) /\ home[writer[w].sku] = writer[w].family

StillDraft(w) == manifest[writer[w].version].status = "draft"

(* Identity and regions only use dimensions of the family, and evidence is   *)
(* an approved asset of the SKU.                                             *)
Evidence(s, seen) == {a \in seen : Owner[a] = s}
Normalized(w) ==
    LET form == writer[w].form
        dims == family[writer[w].family].dims
    IN  /\ form.identity \subseteq dims
        /\ \A r \in form.regions :
               /\ r.kind \in dims
               /\ r.evidence \subseteq Evidence(writer[w].sku, writer[w].approved)

Complete(regions) == \A r \in regions : r.exact => r.views /\ r.evidence # {}
Validate(w) ==
    /\ manifest[writer[w].version].identity \subseteq family[writer[w].family].dims
    /\ Complete(writer[w].regions)
    /\ \A r \in writer[w].regions :
           r.exact => r.evidence \subseteq Evidence(writer[w].sku, writer[w].approved)

(* A version's number and the guard of the one draft are unique.             *)
Unique(w) ==
    LET f == writer[w].family
        s == writer[w].sku
    IN  ~ManifestHasDraft(f, s) /\ Cardinality(OfManifest(f, s)) = writer[w].count
ManifestDraft(w, identity, regions) ==
    [family |-> writer[w].family, sku |-> writer[w].sku, status |-> "draft",
     identity |-> identity, regions |-> regions]

Commit(w, op, versions) ==
    /\ writer[w].op = op
    /\ manifest' = versions /\ writer' = [writer EXCEPT ![w] = Nothing]
    /\ UNCHANGED <<family, home, approved, granter, grant>>

CreateManifest(w) ==
    /\ Len(manifest) < MaxManifests
    /\ Commit(w, "create", Append(manifest,
           ManifestDraft(w, writer[w].form.identity, writer[w].form.regions)))
    /\ Scope(w) /\ Normalized(w) /\ ~writer[w].hasDraft /\ Unique(w)

CopyManifest(w) ==
    LET source == manifest[writer[w].source]
    IN  /\ Len(manifest) < MaxManifests
        /\ Commit(w, "copy", Append(manifest, ManifestDraft(w, source.identity, writer[w].regions)))
        /\ Scope(w) /\ source.family = writer[w].family /\ source.status = "published"
        /\ ~writer[w].hasDraft /\ Unique(w)

UpdateManifest(w) ==
    /\ Commit(w, "update", [manifest EXCEPT ![writer[w].version] =
           ManifestDraft(w, writer[w].form.identity, writer[w].form.regions)])
    /\ Scope(w) /\ StillDraft(w) /\ Normalized(w)

PublishManifest(w) ==
    /\ Commit(w, "publish", [manifest EXCEPT ![writer[w].version].status = "published"])
    /\ Scope(w) /\ StillDraft(w) /\ Validate(w)

Rollback(w) ==      \* any of it fails, or the server stops
    /\ writer[w] # Nothing /\ writer' = [writer EXCEPT ![w] = Nothing]
    /\ UNCHANGED <<family, home, manifest, approved, granter, grant>>

(* What photographers get: the latest published version in the SKU's family. *)
GetForSKU(s) ==
    LET shown == {i \in OfManifest(home[s], s) : manifest[i].status = "published"}
    IN  IF home[s] = NoFamily \/ ~ActiveFamily(home[s]) THEN {}
        ELSE {i \in shown : \A j \in shown : j <= i}

-----------------------------------------------------------------------------
(* References: checks, number and row are separate statements *)

Taken(kind, f, a) ==
    Cardinality({i \in DOMAIN grant : grant[i].kind = kind /\ grant[i].family = f
                                      /\ grant[i].asset = a})
Grants(g, to) ==
    /\ granter' = [granter EXCEPT ![g] = to]
    /\ UNCHANGED <<family, home, manifest, approved, writer>>

CheckStyle(g, a) ==
    /\ granter[g] = Nothing /\ a \in approved
    /\ Grants(g, [op |-> "checked", kind |-> "style", family |-> NoFamily, asset |-> a])
    /\ UNCHANGED grant
CheckStructure(g, f, a) ==
    /\ granter[g] = Nothing /\ ActiveFamily(f) /\ a \in approved /\ home[Owner[a]] = f
    /\ Grants(g, [op |-> "checked", kind |-> "structure", family |-> f, asset |-> a])
    /\ UNCHANGED grant
NumberGrant(g) ==
    LET s == granter[g]
    IN  /\ s.op = "checked"
        /\ Grants(g, [op |-> "numbered", kind |-> s.kind, family |-> s.family,
                      asset |-> s.asset, number |-> Taken(s.kind, s.family, s.asset) + 1])
        /\ UNCHANGED grant
InsertGrant(g) ==
    LET s == granter[g]
    IN  /\ s.op = "numbered" /\ Len(grant) < MaxGrants
        /\ grant' = IF s.number = Taken(s.kind, s.family, s.asset) + 1
                    THEN Append(grant, [kind |-> s.kind, family |-> s.family,
                                        asset |-> s.asset, status |-> "approved"])
                    ELSE grant
        /\ Grants(g, Nothing)
AbandonGrant(g) == granter[g] # Nothing /\ Grants(g, Nothing) /\ UNCHANGED grant

Revoke(i) ==
    /\ grant' = [grant EXCEPT ![i].status = "revoked"]
    /\ UNCHANGED <<family, home, manifest, approved, writer, granter>>

-----------------------------------------------------------------------------

FamInit ==
    /\ family = [f \in Families |-> [status |-> "none", dims |-> {}]]
    /\ home = [s \in Variants |-> NoFamily]
    /\ manifest = <<>>
    /\ approved = Assets
    /\ writer = [w \in Writers |-> Nothing]
    /\ granter = [g \in Granters |-> Nothing]
    /\ grant = <<>>

FamNext ==
    \/ \E f \in Families :
          \/ \E dims \in Dimensions : CreateFamily(f, dims)
          \/ \E dims \in Dimensions, status \in {"active", "archived"} :
                UpdateFamily(f, dims, status)
          \/ \E s \in Variants : AddMember(f, s) \/ RemoveMember(f, s)
          \/ \E g \in Granters, a \in Assets : CheckStructure(g, f, a)
    \/ \E a \in Assets : Review(a) \/ \E g \in Granters : CheckStyle(g, a)
    \/ \E w \in Writers :
          \/ \E s \in Variants, form \in Forms : BeginCreate(w, s, form)
          \/ \E i \in DOMAIN manifest :
                BeginCopy(w, i) \/ BeginPublish(w, i) \/ \E form \in Forms : BeginUpdate(w, i, form)
          \/ CreateManifest(w) \/ CopyManifest(w) \/ UpdateManifest(w) \/ PublishManifest(w)
          \/ Rollback(w)
    \/ \E g \in Granters : NumberGrant(g) \/ InsertGrant(g) \/ AbandonGrant(g)
    \/ \E i \in DOMAIN grant : Revoke(i)

FamSpec == FamInit /\ [][FamNext]_famVars

-----------------------------------------------------------------------------
(* Properties *)

(* A manifest speaks of dimensions that a family may vary, and of assets.    *)
FamTypeOK ==
    /\ \A f \in DOMAIN family : /\ family[f].status \in {"none", "active", "archived"}
                                /\ family[f].dims \in Dimensions \cup {{}}
    /\ \A s \in DOMAIN home : home[s] \in DOMAIN family \cup {NoFamily}
    /\ \A i \in DOMAIN manifest :
           /\ manifest[i].family \in DOMAIN family /\ manifest[i].sku \in DOMAIN home
           /\ manifest[i].status \in {"draft", "published"}
           /\ manifest[i].identity \subseteq UNION Dimensions
           /\ \A r \in manifest[i].regions :
                  r.kind \in UNION Dimensions /\ r.evidence \subseteq DOMAIN Owner
    /\ approved \subseteq DOMAIN Owner
    /\ \A w \in DOMAIN writer : writer[w].op \in {"idle", "create", "copy", "update", "publish"}
    /\ \A g \in DOMAIN granter : granter[g].op \in {"idle", "checked", "numbered"}
    /\ \A i \in DOMAIN grant :
           /\ grant[i].status \in {"approved", "revoked"}
           /\ grant[i].family \in DOMAIN family \cup {NoFamily}
           /\ grant[i].asset \in DOMAIN Owner

(* A manifest is written only while its SKU belongs to its family and the    *)
(* family is active, and published only with dimensions the family has then, *)
(* however the SKU was regrouped since the write began                       *)
(* (variant_manifests.go lockActiveManifestMembership).                      *)
WritesStayInScope ==
    [][\A i \in DOMAIN manifest' :
          (i \notin DOMAIN manifest \/ manifest'[i] # manifest[i]) =>
              LET v == manifest'[i]
              IN  /\ ActiveFamily(v.family) /\ home[v.sku] = v.family
                  /\ v.status = "published" => v.identity \subseteq family[v.family].dims]_famVars

(* The manifest photographers get has views and evidence for all its exact   *)
(* regions (docs/superpowers/plans/2026-07-17-model-family-variant-sop.md).  *)
ShownManifestIsComplete == \A s \in Variants : \A i \in GetForSKU(s) : Complete(manifest[i].regions)

(* The versions of a SKU in a family live as VersionLifecycle says.          *)
FamShelf ==
    [i \in DOMAIN manifest |->
        [parent |-> <<manifest[i].family, manifest[i].sku>>, status |-> manifest[i].status,
         content |-> <<manifest[i].identity, manifest[i].regions>>]]

ManifestLife == INSTANCE VersionLifecycle WITH Parents <- Families \X Variants, shelf <- FamShelf

(* The abstract promise of VersionLifecycle holds of the manifests of a SKU  *)
(* in a family: no late edit reaches a published one (variant_manifests.go). *)
ManifestLifecycle == ManifestLife!LifeSpec
=============================================================================
