--------------------------- MODULE BackOfficeProofs ---------------------------
(***************************************************************************)
(* What the back office's versioned content keeps, for any number of        *)
(* editors, writers, requests and versions.                                 *)
(*                                                                         *)
(* VersionLifecycle.tla: whatever keeps its promise has one draft at a time, *)
(* and its publications never change.                                       *)
(*                                                                         *)
(* Manifests (FamilyManifests.tla): a version never changes its family and   *)
(* SKU, so what a write has seen of them is still so when it commits         *)
(* (FamInv); what it writes is then a new draft or a change of one, in its   *)
(* family's scope (ManifestWritten).                                        *)
(*                                                                         *)
(* Capture SOPs (CaptureSOPs.tla): RevisionNamesViews is not inductive       *)
(* alone: a page must also never be ahead of its version (IsPage), and every *)
(* change of a draft must take a later revision (Onward).  An image is shown *)
(* once for a ticket, because whoever holds a ticket holds it alone and has  *)
(* brought nothing yet (TicketKept).                                        *)
(*                                                                         *)
(* Each write of manifests and SOPs is one step of the life cycle, by the    *)
(* facts of DataFacts.tla about what is made of rows one by one.             *)
(*                                                                         *)
(* AI references (AIReferences.tla): a copy still has the number it counted  *)
(* only if no draft was made since it found none (IsRequest), so what it     *)
(* adds is the only draft; a token that is held has brought nothing          *)
(* (TokenKept), and is held alone.  What is stored of a picture is what its  *)
(* mask leaves, because only usable masks are claimed (RefNamed); that this  *)
(* hides the product is a fact about boxes of pixels (BoxFacts).             *)
(*                                                                         *)
(* The types follow from these invariants and from what comes in and is      *)
(* handed on (SopNamed, FamNamed, RefNamed), the stock's from                *)
(* InventoryProofs.tla.                                                     *)
(***************************************************************************)
EXTENDS VersionLifecycle, BackOffice, InventoryProofs

-----------------------------------------------------------------------------
(* The promise of VersionLifecycle: one draft, and publications that stand.  *)

(* The shelf is a sequence of entries that have the three fields. *)
IsEntry(e) == e = [parent |-> e.parent, status |-> e.status, content |-> e.content]
Shelved ==
    /\ IsSeq(shelf)
    /\ \A i \in DOMAIN shelf : IsEntry(shelf[i])

LifeInv == Shelved /\ OneDraft

(* A draft is put at the end of the shelf, of a parent that has none. *)
LEMMA Appended ==
    ASSUME LifeInv, NEW p, NEW c, ~HasDraft(p), shelf' = Append(shelf, NewDraft(p, c))
    PROVE  /\ LifeInv' /\ DOMAIN shelf \subseteq DOMAIN shelf'
           /\ \A i \in DOMAIN shelf : shelf'[i] = shelf[i]
<1> DEFINE n == Len(shelf)
<1>2. n \in Nat /\ DOMAIN shelf = 1..n
  BY SeqFacts DEF LifeInv, Shelved
<1>3. /\ IsSeq(shelf') /\ DOMAIN shelf' = 1..(n + 1)
      /\ \A i \in 1..(n + 1) : shelf'[i] = IF i = n + 1 THEN NewDraft(p, c) ELSE shelf[i]
  BY AppendFacts DEF LifeInv, Shelved
<1>4. shelf'[n + 1] = NewDraft(p, c) /\ \A i \in 1..n : shelf'[i] = shelf[i]
  BY <1>2, <1>3
<1>7. \A i \in DOMAIN shelf' : i # n + 1 => i \in DOMAIN shelf
  BY <1>2, <1>3
<1>8. IsEntry(NewDraft(p, c)) /\ NewDraft(p, c).parent = p
  BY DEF IsEntry, NewDraft
<1> HIDE DEF n
<1>9. ASSUME NEW i \in DOMAIN shelf' PROVE IsEntry(shelf'[i])
  <2>1. CASE i = n + 1
    BY <1>4, <1>8, <2>1
  <2>2. CASE i # n + 1
    BY <1>2, <1>4, <1>7, <2>2 DEF LifeInv, Shelved
  <2> QED
    BY <2>1, <2>2
<1>10. ASSUME NEW i \in DOMAIN shelf, shelf'[i].status = "draft"
       PROVE  shelf'[i].parent # p
  BY <1>2, <1>4, <1>10 DEF HasDraft
<1>11. OneDraft'
  BY <1>2, <1>4, <1>7, <1>8, <1>10 DEF OneDraft, LifeInv
<1>12. Shelved'
  BY <1>3, <1>9 DEF Shelved
<1>13. DOMAIN shelf \subseteq DOMAIN shelf'
  BY <1>2, <1>3
<1> QED
  BY <1>2, <1>4, <1>11, <1>12, <1>13 DEF LifeInv

(* An entry is replaced by one of the same parent that is no draft unless it *)
(* was one.                                                                  *)
LEMMA Replaced ==
    ASSUME LifeInv, NEW i \in DOMAIN shelf, NEW e, IsEntry(e), e.parent = shelf[i].parent,
           e.status = "draft" => shelf[i].status = "draft",
           shelf' = [shelf EXCEPT ![i] = e]
    PROVE  LifeInv' /\ DOMAIN shelf' = DOMAIN shelf
<1>1. IsSeq(shelf')
  BY ExceptFacts DEF LifeInv, Shelved
<1>2. DOMAIN shelf' = DOMAIN shelf
      /\ \A j \in DOMAIN shelf : shelf'[j] = IF j = i THEN e ELSE shelf[j]
  OBVIOUS
<1>5. \A j \in DOMAIN shelf' : IsEntry(shelf'[j])
  BY <1>2 DEF LifeInv, Shelved
<1>6. \A j \in DOMAIN shelf' : /\ shelf'[j].parent = shelf[j].parent
                               /\ shelf'[j].status = "draft" => shelf[j].status = "draft"
  BY <1>2
<1>7. OneDraft'
  BY <1>2, <1>6 DEF OneDraft, LifeInv
<1> QED
  BY <1>1, <1>2, <1>5, <1>7 DEF LifeInv, Shelved

LEMMA TurnStep ==
    ASSUME LifeInv, NEW i \in DOMAIN shelf, NEW from, NEW to, to # "draft", Turn(i, from, to)
    PROVE  /\ LifeInv' /\ DOMAIN shelf' = DOMAIN shelf /\ shelf[i].status = from
           /\ shelf'[i].status = to
           /\ shelf'[i].content = shelf[i].content /\ shelf'[i].parent = shelf[i].parent
           /\ \A j \in DOMAIN shelf : j # i => shelf'[j] = shelf[j]
<1> DEFINE e == [shelf[i] EXCEPT !.status = to]
<1>1. shelf' = [shelf EXCEPT ![i] = e]
  BY DEF Turn
<1>2. IsEntry(shelf[i])
  BY DEF LifeInv, Shelved
<1>3. IsEntry(e) /\ e.parent = shelf[i].parent /\ e.status = to /\ e.content = shelf[i].content
  BY <1>2 DEF IsEntry
<1> HIDE DEF e
<1> QED
  BY <1>1, <1>3, Replaced DEF Turn

LEMMA EditStep ==
    ASSUME LifeInv, NEW i \in DOMAIN shelf, Edit(i)
    PROVE  /\ LifeInv' /\ DOMAIN shelf' = DOMAIN shelf /\ shelf[i].status = "draft"
           /\ \A j \in DOMAIN shelf : j # i => shelf'[j] = shelf[j]
<1> DEFINE c == shelf'[i].content
           e == [shelf[i] EXCEPT !.content = c]
<1>1. shelf' = [shelf EXCEPT ![i] = e]
  BY DEF Edit
<1>2. IsEntry(shelf[i])
  BY DEF LifeInv, Shelved
<1> HIDE DEF c
<1>3. IsEntry(e) /\ e.parent = shelf[i].parent /\ e.status = shelf[i].status
  BY <1>2 DEF IsEntry
<1> HIDE DEF e
<1> QED
  BY <1>1, <1>3, Replaced DEF Edit

-----------------------------------------------------------------------------
(* What a publication keeps in a step. *)
Stands ==
    \A i \in DOMAIN shelf :
        shelf[i].status \in {"published", "archived"} =>
            /\ i \in DOMAIN shelf'
            /\ shelf'[i].content = shelf[i].content
            /\ shelf'[i].parent = shelf[i].parent
            /\ shelf'[i].status \in {"published", "archived"}

LEMMA LifeStep == ASSUME LifeInv, LifeNext PROVE LifeInv' /\ Stands
<1>1. ASSUME NEW p \in Parents, Create(p) PROVE LifeInv' /\ Stands
  <2>1. PICK c : ~HasDraft(p) /\ shelf' = Append(shelf, NewDraft(p, c))
    BY <1>1 DEF Create
  <2> QED
    BY <2>1, Appended DEF Stands
<1>2. ASSUME NEW i \in DOMAIN shelf, Edit(i) PROVE LifeInv' /\ Stands
  BY <1>2, EditStep DEF Stands
<1>3. ASSUME NEW i \in DOMAIN shelf, Copy(i) PROVE LifeInv' /\ Stands
  BY <1>3, Appended DEF Copy, Stands
<1>4. ASSUME NEW i \in DOMAIN shelf,
             \/ Turn(i, "draft", "published") \/ Turn(i, "draft", "deleted")
             \/ Turn(i, "published", "archived") \/ Turn(i, "archived", "published")
      PROVE  LifeInv' /\ Stands
  <2>1. CASE Turn(i, "draft", "published")
    BY <2>1, TurnStep DEF Stands
  <2>2. CASE Turn(i, "draft", "deleted")
    BY <2>2, TurnStep DEF Stands
  <2>3. CASE Turn(i, "published", "archived")
    BY <2>3, TurnStep DEF Stands
  <2>4. CASE Turn(i, "archived", "published")
    BY <2>4, TurnStep DEF Stands
  <2> QED
    BY <1>4, <2>1, <2>2, <2>3, <2>4
<1> QED
  BY <1>1, <1>2, <1>3, <1>4 DEF LifeNext

LEMMA LifeInvariant == LifeSpec => []LifeInv
<1>1. LifeInit => LifeInv
  <2> SUFFICES ASSUME LifeInit PROVE LifeInv
    OBVIOUS
  <2>1. DOMAIN shelf = {} /\ shelf = [i \in 1..0 |-> shelf[i]] /\ 0 \in Nat
    BY DEF LifeInit
  <2>2. IsSeq(shelf)
    BY <2>1 DEF IsSeq
  <2> QED
    BY <2>1, <2>2 DEF LifeInv, Shelved, OneDraft
<1>2. LifeInv /\ [LifeNext]_shelf => LifeInv'
  <2>1. LifeInv /\ UNCHANGED shelf => LifeInv'
    BY DEF LifeInv, Shelved, OneDraft
  <2> QED
    BY <2>1, LifeStep
<1> QED
  BY <1>1, <1>2, PTL DEF LifeSpec

(* A parent never has two drafts, in anything that lives by this cycle:      *)
(* templates.go, sop_service.go and variant_manifests.go.                    *)
THEOREM DraftsAreSingle == LifeSpec => []OneDraft
<1>1. LifeInv => OneDraft
  BY DEF LifeInv
<1> QED
  BY <1>1, LifeInvariant, PTL

(* What was published keeps its content and its parent for ever, in anything *)
(* that lives by this cycle.                                                 *)
THEOREM PublicationsNeverChange == LifeSpec => PublishedStands
<1>1. LifeInv /\ [LifeNext]_shelf => [Stands]_shelf
  BY LifeStep
<1> QED
  BY <1>1, LifeInvariant, PTL DEF LifeSpec, PublishedStands, Stands

-----------------------------------------------------------------------------
(* Manifests *)

(* What the proofs know of manifests, of families and of the writes under    *)
(* way: what a write of a version has seen of its family and SKU is still    *)
(* so, because a version never changes either.                               *)
IsManifest(m) ==
    /\ m = [family |-> m.family, sku |-> m.sku, status |-> m.status,
            identity |-> m.identity, regions |-> m.regions]
    /\ m.family \in Families /\ m.sku \in Variants
IsWrite(q) ==
    \/ q.op = "idle"
    \/ q.op \in {"create", "copy"} /\ q.family \in Families /\ q.sku \in Variants
    \/ /\ q.op \in {"update", "publish"} /\ q.version \in DOMAIN manifest
       /\ q.family = manifest[q.version].family /\ q.sku = manifest[q.version].sku
FamInv ==
    /\ IsSeq(manifest) /\ \A i \in DOMAIN manifest : IsManifest(manifest[i])
    /\ home = [s \in Variants |-> home[s]]
    /\ \A s \in Variants : home[s] \in Families \cup {NoFamily}
    /\ writer = [w \in Writers |-> writer[w]] /\ \A w \in Writers : IsWrite(writer[w])

-----------------------------------------------------------------------------
(* What a step writes: nothing, a new draft, or a change of a draft. *)

InScope(m) == ActiveFamily(m.family) /\ home[m.sku] = m.family
ManifestAdded(m) ==
    /\ IsManifest(m) /\ m.status = "draft" /\ InScope(m) /\ ~ManifestHasDraft(m.family, m.sku)
    /\ manifest' = Append(manifest, m)
ManifestChanged(i, m) ==
    /\ IsManifest(m) /\ m.family = manifest[i].family /\ m.sku = manifest[i].sku /\ InScope(m)
    /\ manifest[i].status = "draft"
    /\ \/ m.status = "draft"
       \/ /\ m.status = "published" /\ m.identity \subseteq family[m.family].dims
          /\ m.identity = manifest[i].identity /\ m.regions = manifest[i].regions
    /\ manifest' = [manifest EXCEPT ![i] = m]
ManifestWritten ==
    \/ manifest' = manifest
    \/ \E m : ManifestAdded(m)
    \/ \E i \in DOMAIN manifest : \E m : ManifestChanged(i, m)

(* A version is put behind the others, or takes the place of one. *)
LEMMA ManifestAddedFacts ==
    ASSUME FamInv, NEW m, ManifestAdded(m)
    PROVE  /\ IsSeq(manifest') /\ DOMAIN manifest \subseteq DOMAIN manifest'
           /\ Len(manifest) + 1 \in DOMAIN manifest' /\ manifest'[Len(manifest) + 1] = m
           /\ \A i \in DOMAIN manifest : manifest'[i] = manifest[i] /\ i # Len(manifest) + 1
           /\ \A i \in DOMAIN manifest' : i # Len(manifest) + 1 => i \in DOMAIN manifest
<1> DEFINE n == Len(manifest)
<1>1. /\ n \in Nat /\ DOMAIN manifest = 1..n /\ IsSeq(manifest') /\ DOMAIN manifest' = 1..(n + 1)
      /\ \A i \in 1..(n + 1) : manifest'[i] = IF i = n + 1 THEN m ELSE manifest[i]
  BY AppendFacts, SeqFacts DEF FamInv, ManifestAdded
<1> HIDE DEF n
<1>2. \A i \in 1..(n + 1) : i # n + 1 => i \in 1..n
  BY <1>1
<1>3. 1..n \subseteq 1..(n + 1) /\ n + 1 \in 1..(n + 1) /\ n + 1 \notin 1..n
  BY <1>1
<1> QED
  BY <1>1, <1>2, <1>3 DEF n

LEMMA ManifestChangedFacts ==
    ASSUME FamInv, NEW i \in DOMAIN manifest, NEW m, ManifestChanged(i, m)
    PROVE  /\ IsSeq(manifest') /\ DOMAIN manifest' = DOMAIN manifest /\ manifest'[i] = m
           /\ \A j \in DOMAIN manifest : j # i => manifest'[j] = manifest[j]
<1>1. manifest' = [manifest EXCEPT ![i] = m] /\ IsSeq(manifest)
  BY DEF FamInv, ManifestChanged
<1>2. IsSeq(manifest') /\ DOMAIN manifest' = DOMAIN manifest
  BY <1>1, ExceptFacts
<1> QED
  BY <1>1, <1>2

(* A write that is written keeps the versions' families and SKUs. *)
LEMMA ManifestsKeep ==
    ASSUME FamInv, ManifestWritten
    PROVE  /\ IsSeq(manifest') /\ DOMAIN manifest \subseteq DOMAIN manifest'
           /\ \A i \in DOMAIN manifest' : IsManifest(manifest'[i])
           /\ \A i \in DOMAIN manifest : /\ manifest'[i].family = manifest[i].family
                                         /\ manifest'[i].sku = manifest[i].sku
<1>1. CASE manifest' = manifest
  BY <1>1 DEF FamInv
<1>2. ASSUME NEW m, ManifestAdded(m)
      PROVE  /\ IsSeq(manifest') /\ DOMAIN manifest \subseteq DOMAIN manifest'
             /\ \A i \in DOMAIN manifest' : IsManifest(manifest'[i])
             /\ \A i \in DOMAIN manifest : manifest'[i] = manifest[i]
  <2>1. IsManifest(m) /\ \A i \in DOMAIN manifest : IsManifest(manifest[i])
    BY <1>2 DEF ManifestAdded, FamInv
  <2> QED
    BY <1>2, <2>1, ManifestAddedFacts
<1>3. ASSUME NEW i \in DOMAIN manifest, NEW m, ManifestChanged(i, m)
      PROVE  /\ IsSeq(manifest') /\ DOMAIN manifest' = DOMAIN manifest
             /\ \A j \in DOMAIN manifest : /\ IsManifest(manifest'[j])
                                           /\ manifest'[j].family = manifest[j].family
                                           /\ manifest'[j].sku = manifest[j].sku
  <2>1. /\ IsManifest(m) /\ m.family = manifest[i].family /\ m.sku = manifest[i].sku
        /\ \A j \in DOMAIN manifest : IsManifest(manifest[j])
    BY <1>3 DEF ManifestChanged, FamInv
  <2> QED
    BY <1>3, <2>1, ManifestChangedFacts
<1> QED
  BY <1>1, <1>2, <1>3 DEF ManifestWritten

LEMMA FamInvKept ==
    ASSUME FamInv, ManifestWritten,
           home' = [s \in Variants |-> home'[s]],
           \A s \in Variants : home'[s] \in Families \cup {NoFamily},
           writer' = [w \in Writers |-> writer'[w]],
           \A w \in Writers : writer'[w] = writer[w] \/ IsWrite(writer'[w])
    PROVE  FamInv'
<1>1. ASSUME NEW q, IsWrite(q) PROVE IsWrite(q)'
  BY <1>1, ManifestsKeep DEF IsWrite
<1>2. ASSUME NEW w \in Writers PROVE IsWrite(writer[w])'
  <2>1. PICK q : q = writer'[w]
    OBVIOUS
  <2>2. IsWrite(q)
    BY <2>1 DEF FamInv
  <2>3. IsWrite(q)'
    BY <1>1, <2>2
  <2> QED
    BY <2>1, <2>3
<1>3. IsSeq(manifest') /\ \A i \in DOMAIN manifest' : IsManifest(manifest[i])'
  BY ManifestsKeep DEF IsManifest
<1> QED
  BY <1>2, <1>3 DEF FamInv

-----------------------------------------------------------------------------
(* The steps *)

(* A write that commits. *)
LEMMA ManifestCommitStep ==
    ASSUME FamInv, NEW w \in Writers,
           CreateManifest(w) \/ CopyManifest(w) \/ UpdateManifest(w) \/ PublishManifest(w)
    PROVE  ManifestWritten
<1>1. PICK q : q = writer[w] /\ IsWrite(q)
  BY DEF FamInv
<1>2. CASE CreateManifest(w) \/ CopyManifest(w)
  <2>1. q.family \in Families /\ q.sku \in Variants
    BY <1>1, <1>2 DEF CreateManifest, CopyManifest, Commit, IsWrite
  <2>2. PICK identity, regions : manifest' = Append(manifest, ManifestDraft(w, identity, regions))
    BY <1>2 DEF CreateManifest, CopyManifest, Commit
  <2>3. PICK m : m = ManifestDraft(w, identity, regions)
    OBVIOUS
  <2>4. /\ IsManifest(m) /\ m.status = "draft" /\ m.family = q.family /\ m.sku = q.sku
    BY <1>1, <2>1, <2>3 DEF ManifestDraft, IsManifest
  <2>5. Scope(w) /\ Unique(w)
    BY <1>2 DEF CreateManifest, CopyManifest
  <2>6. ManifestAdded(m)
    BY <1>1, <2>2, <2>3, <2>4, <2>5 DEF ManifestAdded, Scope, Unique, InScope
  <2> QED
    BY <2>6 DEF ManifestWritten
<1>3. CASE UpdateManifest(w) \/ PublishManifest(w)
  <2>1. PICK i \in DOMAIN manifest : /\ i = q.version /\ q.family = manifest[i].family
                                     /\ q.sku = manifest[i].sku
    BY <1>1, <1>3 DEF UpdateManifest, PublishManifest, Commit, IsWrite
  <2>2. IsManifest(manifest[i]) /\ manifest[i].status = "draft" /\ Scope(w)
    BY <1>1, <1>3, <2>1 DEF FamInv, UpdateManifest, PublishManifest, StillDraft
  <2>3. CASE UpdateManifest(w)
    <3>1. PICK m : m = ManifestDraft(w, q.form.identity, q.form.regions)
      OBVIOUS
    <3>2. IsManifest(m) /\ m.status = "draft" /\ m.family = q.family /\ m.sku = q.sku
      BY <1>1, <2>1, <2>2, <3>1 DEF ManifestDraft, IsManifest
    <3>3. manifest' = [manifest EXCEPT ![i] = m]
      BY <1>1, <2>1, <2>3, <3>1 DEF UpdateManifest, Commit
    <3>4. ManifestChanged(i, m)
      BY <1>1, <2>1, <2>2, <3>2, <3>3 DEF ManifestChanged, Scope, InScope
    <3> QED
      BY <3>4 DEF ManifestWritten
  <2>4. CASE PublishManifest(w)
    <3>1. PICK m : m = [manifest[i] EXCEPT !.status = "published"]
      OBVIOUS
    <3>2. /\ IsManifest(m) /\ m.status = "published"
          /\ m.family = manifest[i].family /\ m.sku = manifest[i].sku
          /\ m.identity = manifest[i].identity /\ m.regions = manifest[i].regions
      BY <2>2, <3>1 DEF IsManifest
    <3>3. manifest' = [manifest EXCEPT ![i] = m]
      BY <1>1, <2>1, <2>4, <3>1 DEF PublishManifest, Commit
    <3>4. m.identity \subseteq family[m.family].dims
      BY <1>1, <2>1, <2>4, <3>2 DEF PublishManifest, Validate
    <3>5. ManifestChanged(i, m)
      BY <1>1, <2>1, <2>2, <3>2, <3>3, <3>4 DEF ManifestChanged, Scope, InScope
    <3> QED
      BY <3>5 DEF ManifestWritten
  <2> QED
    BY <1>3, <2>3, <2>4
<1> QED
  BY <1>2, <1>3

LEMMA FamStep == ASSUME FamInv, FamNext PROVE ManifestWritten /\ FamInv'
<1>1. ASSUME NEW w \in Writers, NEW q, Begin(w, q), IsWrite(q) PROVE ManifestWritten /\ FamInv'
  <2>1. ManifestWritten /\ UNCHANGED home
    BY <1>1 DEF Begin, ManifestWritten
  <2>2. w \in DOMAIN writer /\ DOMAIN writer = Writers /\ writer' = [writer EXCEPT ![w] = q]
    BY <1>1 DEF Begin, FamInv
  <2>3. /\ writer' = [x \in Writers |-> writer'[x]]
        /\ \A x \in Writers : writer'[x] = writer[x] \/ IsWrite(writer'[x])
    BY <1>1, <2>2
  <2> QED
    BY <2>1, <2>3, FamInvKept DEF FamInv
<1>2. ASSUME NEW w \in Writers, NEW s \in Variants, NEW entered, BeginCreate(w, s, entered)
      PROVE  ManifestWritten /\ FamInv'
  <2>1. PICK q : Begin(w, q) /\ q.op = "create" /\ q.family = home[s] /\ q.sku = s
    BY <1>2 DEF BeginCreate
  <2>2. IsWrite(q)
    BY <1>2, <2>1 DEF BeginCreate, FamInv, IsWrite
  <2> QED
    BY <1>1, <2>1, <2>2
<1>3. ASSUME NEW w \in Writers, NEW i \in DOMAIN manifest, BeginCopy(w, i)
      PROVE  ManifestWritten /\ FamInv'
  <2>1. PICK q : Begin(w, q) /\ q.op = "copy" /\ q.family = home[manifest[i].sku]
                 /\ q.sku = manifest[i].sku /\ q.family # NoFamily
    BY <1>3 DEF BeginCopy
  <2>2. IsWrite(q)
    BY <2>1 DEF FamInv, IsManifest, IsWrite
  <2> QED
    BY <1>1, <2>1, <2>2
<1>4. ASSUME NEW w \in Writers, NEW i \in DOMAIN manifest, NEW entered,
             BeginUpdate(w, i, entered) \/ BeginPublish(w, i)
      PROVE  ManifestWritten /\ FamInv'
  <2>1. PICK q : Begin(w, q) /\ q.op \in {"update", "publish"} /\ q.version = i
                 /\ q.family = manifest[i].family /\ q.sku = manifest[i].sku
    BY <1>4 DEF BeginUpdate, BeginPublish
  <2>2. IsWrite(q)
    BY <2>1 DEF IsWrite
  <2> QED
    BY <1>1, <2>1, <2>2
<1>5. ASSUME NEW w \in Writers,
             \/ CreateManifest(w) \/ CopyManifest(w) \/ UpdateManifest(w) \/ PublishManifest(w)
             \/ Rollback(w)
      PROVE  ManifestWritten /\ FamInv'
  <2>1. ManifestWritten
    BY <1>5, ManifestCommitStep DEF Rollback, ManifestWritten
  <2>2. writer' = [writer EXCEPT ![w] = Nothing] /\ UNCHANGED home
    BY <1>5 DEF CreateManifest, CopyManifest, UpdateManifest, PublishManifest, Rollback, Commit
  <2>3. IsWrite(Nothing) /\ w \in DOMAIN writer /\ DOMAIN writer = Writers
    BY DEF IsWrite, Nothing, FamInv
  <2>4. /\ writer' = [x \in Writers |-> writer'[x]]
        /\ \A x \in Writers : writer'[x] = writer[x] \/ IsWrite(writer'[x])
    BY <2>2, <2>3
  <2> QED
    BY <2>1, <2>2, <2>4, FamInvKept DEF FamInv
<1>6. ASSUME NEW f \in Families, NEW s \in Variants, AddMember(f, s) \/ RemoveMember(f, s)
      PROVE  ManifestWritten /\ FamInv'
  <2>1. PICK to \in Families \cup {NoFamily} :
            home' = [home EXCEPT ![s] = to] /\ UNCHANGED <<manifest, writer>>
    BY <1>6 DEF AddMember, RemoveMember
  <2>2. DOMAIN home = Variants
    BY DEF FamInv
  <2>3. /\ home' = [x \in Variants |-> home'[x]]
        /\ \A x \in Variants : home'[x] \in Families \cup {NoFamily}
    BY <2>1, <2>2 DEF FamInv
  <2> QED
    BY <2>1, <2>3, FamInvKept DEF FamInv, ManifestWritten
<1>7. CASE UNCHANGED <<manifest, home, writer>>
  BY <1>7, FamInvKept DEF FamInv, ManifestWritten
<1>8. ASSUME NEW f \in Families, NEW dims \in Dimensions, NEW status \in {"active", "archived"},
             CreateFamily(f, dims) \/ UpdateFamily(f, dims, status)
      PROVE  UNCHANGED <<manifest, home, writer>>
  BY <1>8 DEF CreateFamily, UpdateFamily
<1>9. ASSUME NEW g \in Granters,
             \/ \E f \in Families, a \in Assets : CheckStructure(g, f, a)
             \/ \E a \in Assets : CheckStyle(g, a)
             \/ NumberGrant(g) \/ InsertGrant(g) \/ AbandonGrant(g)
      PROVE  UNCHANGED <<manifest, home, writer>>
  BY <1>9 DEF CheckStructure, CheckStyle, NumberGrant, InsertGrant, AbandonGrant, Grants
<1>10. ASSUME NEW a \in Assets, Review(a) PROVE UNCHANGED <<manifest, home, writer>>
  BY <1>10 DEF Review
<1>11. ASSUME NEW i \in DOMAIN grant, Revoke(i) PROVE UNCHANGED <<manifest, home, writer>>
  BY <1>11 DEF Revoke
<1> QED
  BY <1>2, <1>3, <1>4, <1>5, <1>6, <1>7, <1>8, <1>9, <1>10, <1>11 DEF FamNext

LEMMA FamInvariant == FamSpec => []FamInv
<1>1. FamInit => FamInv
  <2> SUFFICES ASSUME FamInit PROVE FamInv
    OBVIOUS
  <2>1. DOMAIN manifest = {} /\ manifest = [i \in 1..0 |-> manifest[i]] /\ 0 \in Nat
    BY DEF FamInit
  <2>2. IsSeq(manifest)
    BY <2>1 DEF IsSeq
  <2>3. \A w \in Writers : IsWrite(writer[w])
    BY DEF FamInit, IsWrite, Nothing
  <2> QED
    BY <2>1, <2>2, <2>3 DEF FamInv, FamInit
<1>2. FamInv /\ UNCHANGED famVars => FamInv'
  BY FamInvKept DEF FamInv, ManifestWritten, famVars
<1>3. FamInv /\ [FamNext]_famVars => FamInv'
  BY <1>2, FamStep
<1> QED
  BY <1>1, <1>3, PTL DEF FamSpec

-----------------------------------------------------------------------------
(* A manifest is written only while its SKU belongs to its family. *)

LEMMA WrittenInScope ==
    ASSUME FamInv, ManifestWritten, NEW i \in DOMAIN manifest',
           i \notin DOMAIN manifest \/ manifest'[i] # manifest[i]
    PROVE  /\ InScope(manifest'[i])
           /\ manifest'[i].status = "published" =>
                  manifest'[i].identity \subseteq family[manifest'[i].family].dims
<1>1. ASSUME NEW m, ManifestAdded(m) PROVE manifest'[i] = m
  BY <1>1, ManifestAddedFacts
<1>2. ASSUME NEW j \in DOMAIN manifest, NEW m, ManifestChanged(j, m) PROVE manifest'[i] = m
  BY <1>2, ManifestChangedFacts
<1>3. ASSUME NEW m, ManifestAdded(m)
      PROVE  InScope(m) /\ m.status = "draft"
  BY <1>3 DEF ManifestAdded
<1>4. ASSUME NEW j \in DOMAIN manifest, NEW m, ManifestChanged(j, m)
      PROVE  InScope(m) /\ (m.status = "draft" \/ m.identity \subseteq family[m.family].dims)
  BY <1>4 DEF ManifestChanged
<1>5. manifest' # manifest
  OBVIOUS
<1> QED
  BY <1>1, <1>2, <1>3, <1>4, <1>5 DEF ManifestWritten

(* However a SKU is regrouped since a write of its manifest began, the       *)
(* manifest is written only while the SKU belongs to its family, and         *)
(* published only with dimensions of that family (variant_manifests.go       *)
(* lockActiveManifestMembership).                                            *)
THEOREM ManifestsStayInScope == FamSpec => WritesStayInScope
<1> DEFINE Scoped ==
        \A i \in DOMAIN manifest' :
            (i \notin DOMAIN manifest \/ manifest'[i] # manifest[i]) =>
                LET v == manifest'[i]
                IN  /\ ActiveFamily(v.family) /\ home[v.sku] = v.family
                    /\ v.status = "published" => v.identity \subseteq family[v.family].dims
<1>1. FamInv /\ [FamNext]_famVars => [Scoped]_famVars
  <2> SUFFICES ASSUME FamInv, FamNext PROVE Scoped
    OBVIOUS
  <2>1. ManifestWritten
    BY FamStep
  <2> QED
    BY <2>1, WrittenInScope DEF InScope
<1> QED
  BY <1>1, FamInvariant, PTL DEF FamSpec, WritesStayInScope

-----------------------------------------------------------------------------
(* The manifests live as VersionLifecycle says. *)

ManifestEntry(m) ==
    [parent |-> <<m.family, m.sku>>, status |-> m.status, content |-> <<m.identity, m.regions>>]

LEMMA FamShelfFacts ==
    ASSUME FamInv, FamInv'
    PROVE  /\ FamShelf = [i \in DOMAIN manifest |-> FamShelf[i]]
           /\ FamShelf' = [i \in DOMAIN manifest' |-> FamShelf'[i]]
           /\ IsSeq(manifest) /\ DOMAIN FamShelf = DOMAIN manifest
           /\ \A i \in DOMAIN manifest : FamShelf[i] = ManifestEntry(manifest[i])
           /\ \A i \in DOMAIN manifest' : FamShelf'[i] = ManifestEntry(manifest'[i])
  BY DEF FamShelf, ManifestEntry, FamInv

LEMMA AddedIsCreate ==
    ASSUME FamInv, FamInv', NEW m, ManifestAdded(m)
    PROVE  ManifestLife!Create(<<m.family, m.sku>>)
<1> DEFINE p == <<m.family, m.sku>>
<1>1. manifest' = Append(manifest, m) /\ m.status = "draft"
  BY DEF ManifestAdded
<1>2. \A i \in DOMAIN manifest : manifest'[i] = manifest[i] => FamShelf'[i] = FamShelf[i]
  BY <1>1, ManifestAddedFacts, FamShelfFacts
<1>3. PICK n : n = Len(FamShelf) + 1
  OBVIOUS
<1>4. /\ Len(FamShelf') = n /\ FamShelf' = Append(FamShelf, FamShelf'[n])
      /\ n \in DOMAIN manifest' /\ manifest'[n] = m
  BY <1>1, <1>2, <1>3, FamShelfFacts, ImageGrows
<1>5. FamShelf'[n] = ManifestLife!NewDraft(p, FamShelf'[n].content)
  <2>1. FamShelf'[n] = [parent |-> p, status |-> "draft", content |-> <<m.identity, m.regions>>]
    BY <1>1, <1>4, FamShelfFacts DEF ManifestEntry
  <2>2. FamShelf'[n].content = <<m.identity, m.regions>>
    BY <2>1
  <2> QED
    BY <2>1, <2>2 DEF ManifestLife!NewDraft
<1>6. ~ManifestLife!HasDraft(p)
  BY FamShelfFacts
     DEF ManifestLife!HasDraft, ManifestAdded, ManifestHasDraft, OfManifest, ManifestEntry
<1> QED
  BY <1>3, <1>4, <1>5, <1>6 DEF ManifestLife!Create

LEMMA ChangedIsStep ==
    ASSUME FamInv, FamInv', NEW i \in DOMAIN manifest, NEW m, ManifestChanged(i, m)
    PROVE  ManifestLife!Edit(i) \/ ManifestLife!Turn(i, "draft", "published")
<1>1. /\ manifest' = [manifest EXCEPT ![i] = m] /\ DOMAIN manifest' = DOMAIN manifest
      /\ manifest'[i] = m
  BY ManifestChangedFacts DEF ManifestChanged
<1>2. \A j \in DOMAIN manifest : manifest'[j] = manifest[j] => FamShelf'[j] = FamShelf[j]
  BY <1>1, FamShelfFacts
<1>3. PICK entry : entry = FamShelf'[i]
  OBVIOUS
<1>4. /\ Len(FamShelf') = Len(FamShelf) /\ FamShelf' = [FamShelf EXCEPT ![i] = entry]
      /\ i \in DOMAIN FamShelf
  BY <1>1, <1>2, <1>3, FamShelfFacts, ImageChanges
<1>5. entry = ManifestEntry(m) /\ FamShelf[i] = ManifestEntry(manifest[i])
  BY <1>1, <1>3, FamShelfFacts
<1>6. FamShelf[i].status = "draft"
  BY <1>5 DEF ManifestEntry, ManifestChanged
<1>7. CASE m.status = "draft"
  <2>1. [FamShelf[i] EXCEPT !.content = entry.content] = entry
    BY <1>5, <1>7 DEF ManifestEntry, ManifestChanged
  <2>2. FamShelf' = [FamShelf EXCEPT ![i] = [FamShelf[i] EXCEPT !.content = entry.content]]
    BY <1>4, <2>1
  <2> QED
    BY <1>3, <1>4, <1>6, <2>2 DEF ManifestLife!Edit
<1>8. CASE m.status # "draft"
  <2>1. entry = [FamShelf[i] EXCEPT !.status = "published"]
    BY <1>5, <1>8 DEF ManifestEntry, ManifestChanged
  <2> QED
    BY <1>4, <1>6, <2>1 DEF ManifestLife!Turn
<1> QED
  BY <1>7, <1>8

(* The abstract promise of VersionLifecycle holds of the manifests of every  *)
(* SKU in every family: one draft, and no late edit reaches a published      *)
(* manifest (variant_manifests.go).                                          *)
THEOREM ManifestsLive == FamSpec => ManifestLifecycle
<1>1. FamInit => ManifestLife!LifeInit
  BY DEF FamInit, ManifestLife!LifeInit, FamShelf
<1>2. FamInv /\ FamInv' /\ [FamNext]_famVars => [ManifestLife!LifeNext]_FamShelf
  <2> SUFFICES ASSUME FamInv, FamInv', [FamNext]_famVars
               PROVE  ManifestLife!LifeNext \/ UNCHANGED FamShelf
    OBVIOUS
  <2>1. ManifestWritten
    BY FamStep DEF ManifestWritten, famVars
  <2>2. CASE manifest' = manifest
    BY <2>2 DEF FamShelf
  <2>3. ASSUME NEW m, ManifestAdded(m) PROVE ManifestLife!LifeNext
    <3>1. <<m.family, m.sku>> \in Families \X Variants
      BY <2>3 DEF ManifestAdded, IsManifest
    <3> QED
      BY <2>3, <3>1, AddedIsCreate DEF ManifestLife!LifeNext
  <2>4. ASSUME NEW i \in DOMAIN manifest, NEW m, ManifestChanged(i, m) PROVE ManifestLife!LifeNext
    <3>1. i \in DOMAIN FamShelf
      BY FamShelfFacts
    <3> QED
      BY <2>4, <3>1, ChangedIsStep DEF ManifestLife!LifeNext
  <2> QED
    BY <2>1, <2>2, <2>3, <2>4 DEF ManifestWritten
<1> QED
  BY <1>1, <1>2, FamInvariant, PTL DEF FamSpec, ManifestLifecycle, ManifestLife!LifeSpec

-----------------------------------------------------------------------------
(* AI references *)

(* What the proofs know of the versions of a reference, of its tokens and of *)
(* the requests under way.                                                   *)
IsReference(e) ==
    /\ e = [status |-> e.status, text |-> e.text, items |-> e.items]
    /\ DOMAIN e.items \subseteq DOMAIN made
IsToken(e) ==
    \/ e = [state |-> "unused"]
    \/ /\ e = [state |-> e.state, version |-> e.version, mask |-> e.mask, arrived |-> e.arrived]
       /\ e.state \in {"issued", "consumed"} /\ e.version \in DOMAIN reference
Claimer(q) == q = [stage |-> q.stage, token |-> q.token, version |-> q.version, mask |-> q.mask]
IsRequest(q) ==
    \/ q = NoRequest
    \/ /\ q.stage = "copying"
       /\ q.number \in 2..(Len(reference) + 1) /\ DOMAIN q.items \subseteq DOMAIN made
       /\ q.number = Len(reference) + 1 => ~DraftExists
    \/ /\ q.stage = "checked" /\ Claimer(q) /\ q.version \in DOMAIN reference
       /\ q.token \in Tokens /\ token[q.token].state # "unused"
    \/ /\ q.stage = "claimed" /\ Claimer(q) /\ q.version \in DOMAIN reference
       /\ q.token \in Tokens \cup {NoToken}
    \/ /\ q.stage = "stored" /\ q.version \in DOMAIN reference
       /\ q.token \in Tokens \cup {NoToken}
       /\ q.key \in DOMAIN made /\ made[q.key].token = q.token
    \/ /\ q.stage = "found" /\ q = [stage |-> q.stage, version |-> q.version, key |-> q.key]
       /\ q.version \in DOMAIN reference
    \/ q.stage = "deleted"
    \/ q.stage = "ordering" /\ q.version \in DOMAIN reference

RefTypes ==
    /\ IsSeq(reference) /\ \A v \in DOMAIN reference : IsReference(reference[v])
    /\ IsSeq(made) /\ \A k \in DOMAIN made : made[k].token \in Tokens \cup {NoToken}
    /\ token = [t \in Tokens |-> token[t]] /\ \A t \in Tokens : IsToken(token[t])
    /\ request = [r \in Requests |-> request[r]] /\ \A r \in Requests : IsRequest(request[r])

(* Images that are an item of a version, or of one that is being copied; and *)
(* the requests that hold a token they have claimed.                         *)
Named(k) ==
    \/ \E v \in DOMAIN reference : k \in Items(v)
    \/ \E r \in Requests : At(r, "copying") /\ k \in DOMAIN request[r].items
Holds(r, t) == (At(r, "claimed") \/ At(r, "stored")) /\ request[r].token = t
Brought(k, t) == Named(k) /\ made[k].token = t

(* A token that is held or has brought an item is consumed; it is held once, *)
(* or has brought one image.                                                 *)
TokenKept(t) ==
    /\ \A k \in DOMAIN made : Brought(k, t) =>
           /\ token[t].state = "consumed"
           /\ \A r \in Requests : ~Holds(r, t)
           /\ \A j \in DOMAIN made : Brought(j, t) => j = k
    /\ \A r \in Requests : Holds(r, t) =>
           /\ token[t].state = "consumed"
           /\ \A s \in Requests : Holds(s, t) => s = r
TokensKept == \A t \in Tokens : TokenKept(t)

RefInv == RefTypes /\ OneReferenceDraft /\ TokensKept

-----------------------------------------------------------------------------
(* Versions and images only come, so what names one keeps naming it. *)

Grows ==
    /\ DOMAIN reference \subseteq DOMAIN reference'
    /\ DOMAIN made \subseteq DOMAIN made' /\ \A k \in DOMAIN made : made'[k] = made[k]
TokensStay == \A t \in Tokens : token[t].state # "unused" => token'[t].state # "unused"

LEMMA RequestStands ==
    ASSUME NEW q, IsRequest(q), Grows, TokensStay,
           q.stage = "copying" =>
               q.number \in 2..(Len(reference') + 1)
               /\ (q.number = Len(reference') + 1 => ~DraftExists')
    PROVE  IsRequest(q)'
<1>1. CASE q = NoRequest
  BY <1>1 DEF IsRequest
<1>2. CASE q.stage = "copying"
  <2>1. DOMAIN q.items \subseteq DOMAIN made
    BY <1>2 DEF IsRequest, NoRequest
  <2> QED
    BY <1>2, <2>1 DEF IsRequest, Grows
<1>3. CASE q.stage = "checked" \/ q.stage = "claimed"
  <2>1. /\ Claimer(q) /\ q.version \in DOMAIN reference
        /\ q.stage = "checked" => q.token \in Tokens /\ token[q.token].state # "unused"
        /\ q.stage = "claimed" => q.token \in Tokens \cup {NoToken}
    BY <1>3 DEF IsRequest, NoRequest
  <2> QED
    BY <1>3, <2>1 DEF IsRequest, Grows, TokensStay, Claimer
<1>4. CASE q.stage = "stored"
  <2>1. /\ q.version \in DOMAIN reference /\ q.token \in Tokens \cup {NoToken}
        /\ q.key \in DOMAIN made /\ made[q.key].token = q.token
    BY <1>4 DEF IsRequest, NoRequest
  <2>2. q.key \in DOMAIN made' /\ made'[q.key].token = q.token
    BY <2>1 DEF Grows
  <2> QED
    BY <1>4, <2>1, <2>2 DEF IsRequest, Grows
<1>5. CASE q.stage \in {"found", "deleted", "ordering"}
  BY <1>5 DEF IsRequest, Grows, NoRequest
<1> QED
  BY <1>1, <1>2, <1>3, <1>4, <1>5 DEF IsRequest

(* A step that adds no version, and no draft.                                *)
LEMMA TypesKept ==
    ASSUME RefTypes, Grows, TokensStay,
           IsSeq(reference'), Len(reference') = Len(reference), DraftExists' => DraftExists,
           \A v \in DOMAIN reference' : IsReference(reference[v])',
           IsSeq(made'), \A k \in DOMAIN made' : made'[k].token \in Tokens \cup {NoToken},
           token' = [t \in Tokens |-> token'[t]], \A t \in Tokens : IsToken(token[t])',
           request' = [r \in Requests |-> request'[r]],
           \A r \in Requests : request'[r] = request[r] \/ IsRequest(request[r])'
    PROVE  RefTypes'
<1>1. ASSUME NEW r \in Requests PROVE IsRequest(request[r])'
  <2>1. CASE request'[r] = request[r]
    <3>1. PICK q : q = request[r]
      OBVIOUS
    <3>2. IsRequest(q) /\ (q.stage = "copying" => q.number \in 2..(Len(reference) + 1)
                                          /\ (q.number = Len(reference) + 1 => ~DraftExists))
      BY <3>1 DEF RefTypes, IsRequest, NoRequest
    <3>3. IsRequest(q)'
      BY <3>2, RequestStands
    <3> QED
      BY <2>1, <3>1, <3>3
  <2> QED
    BY <2>1
<1> QED
  BY <1>1 DEF RefTypes

(* A step after which nothing new holds a token, no image is named anew, and *)
(* tokens stay consumed, but for those that brought nothing and are let go.  *)
LEMMA TokensStand ==
    ASSUME RefTypes, TokensKept, Grows,
           \A k : Named(k)' => Named(k),
           \A r \in Requests, t \in Tokens : Holds(r, t)' => Holds(r, t),
           \A t \in Tokens : token[t].state = "consumed" =>
               \/ token'[t].state = "consumed"
               \/ /\ \A k \in DOMAIN made : ~Brought(k, t)
                  /\ \A r \in Requests : ~Holds(r, t)'
    PROVE  TokensKept'
<1>1. ASSUME NEW k, Named(k) PROVE k \in DOMAIN made
  BY <1>1 DEF RefTypes, Named, IsReference, IsRequest, Items, At, NoRequest
<1>2. ASSUME NEW k \in DOMAIN made', NEW t \in Tokens, Brought(k, t)'
      PROVE  k \in DOMAIN made /\ Brought(k, t)
  BY <1>1, <1>2 DEF Brought, Grows
<1>3. ASSUME NEW t \in Tokens PROVE TokenKept(t)'
  <2>1. TokenKept(t)
    BY DEF TokensKept
  <2>2. ASSUME NEW k \in DOMAIN made', Brought(k, t)'
        PROVE  /\ token'[t].state = "consumed"
               /\ \A r \in Requests : ~Holds(r, t)'
               /\ \A j \in DOMAIN made' : Brought(j, t)' => j = k
    <3>1. k \in DOMAIN made /\ Brought(k, t)
      BY <1>2, <2>2
    <3>2. token[t].state = "consumed" /\ (\A r \in Requests : ~Holds(r, t))
          /\ \A j \in DOMAIN made : Brought(j, t) => j = k
      BY <2>1, <3>1 DEF TokenKept
    <3> QED
      BY <1>2, <3>1, <3>2
  <2>3. ASSUME NEW r \in Requests, Holds(r, t)'
        PROVE  token'[t].state = "consumed" /\ \A s \in Requests : Holds(s, t)' => s = r
    <3>1. Holds(r, t)
      BY <2>3
    <3>2. token[t].state = "consumed" /\ \A s \in Requests : Holds(s, t) => s = r
      BY <2>1, <3>1 DEF TokenKept
    <3> QED
      BY <2>3, <3>1, <3>2
  <2> QED
    BY <2>2, <2>3 DEF TokenKept
<1> QED
  BY <1>3 DEF TokensKept

-----------------------------------------------------------------------------
(* Steps that change one row: a request, a version, or a token. *)

LEMMA Becomes ==
    ASSUME RefTypes, NEW r \in Requests, NEW q, Goes(r, q)
    PROVE  /\ request' = [s \in Requests |-> request'[s]] /\ request'[r] = q
           /\ \A s \in Requests : s # r => request'[s] = request[s]
<1>1. r \in DOMAIN request /\ DOMAIN request = Requests
  BY DEF RefTypes
<1>2. request' = [request EXCEPT ![r] = q]
  BY DEF Goes
<1> QED
  BY <1>1, <1>2

LEMMA RowChanged ==
    ASSUME RefInv, NEW v \in DOMAIN reference, NEW e, IsReference(e),
           e.status = "draft" => IsDraft(v),
           reference' = [reference EXCEPT ![v] = e], UNCHANGED made
    PROVE  /\ IsSeq(reference') /\ Len(reference') = Len(reference) /\ Grows
           /\ DOMAIN reference' = DOMAIN reference /\ reference'[v] = e
           /\ \A w \in DOMAIN reference : w # v => reference'[w] = reference[w]
           /\ \A w \in DOMAIN reference' : IsReference(reference[w])'
           /\ DraftExists' => DraftExists
           /\ OneReferenceDraft'
<1>1. /\ IsSeq(reference') /\ Len(reference') = Len(reference)
      /\ DOMAIN reference' = DOMAIN reference
  BY ExceptFacts DEF RefInv, RefTypes
<1>2. reference'[v] = e /\ \A w \in DOMAIN reference : w # v => reference'[w] = reference[w]
  OBVIOUS
<1>3. ASSUME NEW w \in DOMAIN reference' PROVE IsReference(reference[w])'
  <2>1. w \in DOMAIN reference /\ IsReference(reference[w])
    BY <1>1 DEF RefInv, RefTypes
  <2> QED
    BY <1>2, <2>1 DEF IsReference
<1>4. \A w \in DOMAIN reference' : IsDraft(w)' => IsDraft(w)
  BY <1>1, <1>2 DEF IsDraft
<1> QED
  BY <1>1, <1>2, <1>3, <1>4 DEF Grows, DraftExists, RefInv, OneReferenceDraft

(* A request goes on without a claim, or with a picture that came without a  *)
(* token.                                                                    *)
LEMMA RequestStep ==
    ASSUME RefInv, NEW r \in Requests, NEW q, Goes(r, q), IsRequest(q),
           q.stage = "copying" => \A k \in DOMAIN q.items : Named(k),
           q.stage \in {"claimed", "stored"} => q.token = NoToken,
           UNCHANGED <<reference, token, made>>
    PROVE  RefInv'
<1>1. /\ request' = [s \in Requests |-> request'[s]] /\ request'[r] = q
      /\ \A s \in Requests : s # r => request'[s] = request[s]
  BY Becomes DEF RefInv
<1>2. Grows /\ TokensStay
  BY DEF Grows, TokensStay
<1>3. IsRequest(q)'
  BY DEF IsRequest, Claimer, DraftExists, IsDraft
<1>4. \A t \in Tokens : IsToken(token[t])'
  BY DEF RefInv, RefTypes, IsToken
<1>5. \A v \in DOMAIN reference' : IsReference(reference[v])'
  BY DEF RefInv, RefTypes, IsReference
<1>6. DraftExists' => DraftExists
  BY DEF DraftExists, IsDraft
<1>7. ASSUME NEW s \in Requests PROVE request'[s] = request[s] \/ IsRequest(request[s])'
  <2>1. CASE s = r
    BY <1>1, <1>3, <2>1
  <2> QED
    BY <1>1, <2>1
<1>8. RefTypes'
  BY <1>1, <1>2, <1>4, <1>5, <1>6, <1>7, TypesKept DEF RefInv, RefTypes
<1>9. \A k : Named(k)' => Named(k)
  BY <1>1 DEF Named, Items, At
<1>10. \A s \in Requests, t \in Tokens : Holds(s, t)' => Holds(s, t)
  BY <1>1, TokenAssumption DEF Holds, At
<1>11. TokensKept'
  BY <1>2, <1>9, <1>10, TokensStand DEF RefInv
<1> QED
  BY <1>8, <1>11 DEF RefInv, OneReferenceDraft, IsDraft

(* A version becomes no draft and gets no item, while a request may go on    *)
(* without a claim.                                                          *)
LEMMA ReferenceStep ==
    ASSUME RefInv, NEW v \in DOMAIN reference, NEW e, IsReference(e),
           e.status = "draft" => IsDraft(v), DOMAIN e.items \subseteq Items(v),
           reference' = [reference EXCEPT ![v] = e], UNCHANGED <<token, made>>,
           \/ UNCHANGED request
           \/ \E r \in Requests : \E q :
                  Goes(r, q) /\ IsRequest(q)' /\ q.stage \notin {"copying", "claimed", "stored"}
    PROVE  RefInv'
<1>1. /\ IsSeq(reference') /\ Len(reference') = Len(reference) /\ Grows
      /\ DOMAIN reference' = DOMAIN reference /\ reference'[v] = e
      /\ \A w \in DOMAIN reference : w # v => reference'[w] = reference[w]
      /\ \A w \in DOMAIN reference' : IsReference(reference[w])'
      /\ DraftExists' => DraftExists
      /\ OneReferenceDraft'
  BY RowChanged
<1>2. /\ request' = [s \in Requests |-> request'[s]]
      /\ \A s \in Requests : \/ request'[s] = request[s]
                             \/ IsRequest(request[s])'
                                /\ request'[s].stage \notin {"copying", "claimed", "stored"}
  <2>1. CASE UNCHANGED request
    BY <2>1 DEF RefInv, RefTypes
  <2>2. ASSUME NEW r \in Requests, NEW q, Goes(r, q), IsRequest(q)',
               q.stage \notin {"copying", "claimed", "stored"}
        PROVE  /\ request' = [s \in Requests |-> request'[s]]
               /\ \A s \in Requests :
                      \/ request'[s] = request[s]
                      \/ /\ IsRequest(request[s])'
                         /\ request'[s].stage \notin {"copying", "claimed", "stored"}
    <3>1. /\ request' = [s \in Requests |-> request'[s]] /\ request'[r] = q
          /\ \A s \in Requests : s # r => request'[s] = request[s]
      BY <2>2, Becomes DEF RefInv
    <3>2. ASSUME NEW s \in Requests, s = r
          PROVE  IsRequest(request[s])'
                 /\ request'[s].stage \notin {"copying", "claimed", "stored"}
      BY <2>2, <3>1, <3>2
    <3> QED
      BY <3>1, <3>2
  <2> QED
    BY <2>1, <2>2
<1>3. TokensStay
  BY DEF TokensStay
<1>4. \A t \in Tokens : IsToken(token[t])'
  BY <1>1 DEF RefInv, RefTypes, IsToken
<1>5. RefTypes'
  BY <1>1, <1>2, <1>3, <1>4, TypesKept DEF RefInv, RefTypes
<1>6. \A k : Named(k)' => Named(k)
  BY <1>1, <1>2 DEF Named, Items, At
<1>7. \A s \in Requests, t \in Tokens : Holds(s, t)' => Holds(s, t)
  BY <1>2 DEF Holds, At
<1>8. TokensKept'
  BY <1>1, <1>6, <1>7, TokensStand DEF RefInv
<1> QED
  BY <1>1, <1>5, <1>8 DEF RefInv

(* A token goes on, and stays consumed if it was. *)
LEMMA TokenStep ==
    ASSUME RefInv, NEW t \in Tokens, NEW e, IsToken(e), e.state # "unused",
           token[t].state = "consumed" => e.state = "consumed",
           token' = [token EXCEPT ![t] = e], UNCHANGED <<reference, made, request>>
    PROVE  RefInv'
<1>1. /\ token' = [u \in Tokens |-> token'[u]] /\ token'[t] = e
      /\ \A u \in Tokens : u # t => token'[u] = token[u]
  <2>1. DOMAIN token = Tokens
    BY DEF RefInv, RefTypes
  <2> QED
    BY <2>1
<1>2. Grows /\ TokensStay
  BY <1>1 DEF Grows, TokensStay
<1>3. ASSUME NEW u \in Tokens PROVE IsToken(token[u])'
  <2>1. IsToken(token[u])
    BY DEF RefInv, RefTypes
  <2>2. IsToken(token'[u])
    BY <1>1, <2>1
  <2> QED
    BY <2>2 DEF IsToken
<1>4. \A v \in DOMAIN reference' : IsReference(reference[v])'
  BY DEF RefInv, RefTypes, IsReference
<1>5. DraftExists' => DraftExists
  BY DEF DraftExists, IsDraft
<1>6. RefTypes'
  BY <1>1, <1>2, <1>3, <1>4, <1>5, TypesKept DEF RefInv, RefTypes
<1>7. \A k : Named(k)' => Named(k)
  BY DEF Named, Items, At
<1>8. \A s \in Requests, u \in Tokens : Holds(s, u)' => Holds(s, u)
  BY DEF Holds, At
<1>9. TokensKept'
  BY <1>1, <1>2, <1>7, <1>8, TokensStand DEF RefInv
<1> QED
  BY <1>6, <1>9 DEF RefInv, OneReferenceDraft, IsDraft

-----------------------------------------------------------------------------
(* Versions: their life, their text, and the order of their items. *)

LEMMA TransitionStep ==
    ASSUME RefInv, NEW v \in DOMAIN reference, NEW from, NEW to, to # "draft",
           Transition(v, from, to)
    PROVE  RefInv'
<1> DEFINE e == [reference[v] EXCEPT !.status = to]
<1>1. reference' = [reference EXCEPT ![v] = e]
  BY DEF Transition
<1>2. IsReference(reference[v])
  BY DEF RefInv, RefTypes
<1>3. IsReference(e) /\ e.status = to /\ e.items = reference[v].items
  BY <1>2 DEF IsReference
<1> HIDE DEF e
<1> QED
  BY <1>1, <1>3, ReferenceStep DEF Transition, Items

LEMMA UpdateReferenceStep ==
    ASSUME RefInv, NEW v \in DOMAIN reference, NEW text, UpdateReference(v, text)
    PROVE  RefInv'
<1> DEFINE e == [reference[v] EXCEPT !.text = text]
<1>1. reference' = [reference EXCEPT ![v] = e]
  BY DEF UpdateReference
<1>2. IsReference(reference[v])
  BY DEF RefInv, RefTypes
<1>3. IsReference(e) /\ e.status = reference[v].status /\ e.items = reference[v].items
  BY <1>2 DEF IsReference
<1> HIDE DEF e
<1> QED
  BY <1>1, <1>3, ReferenceStep DEF UpdateReference, Items

(* What a request in some stage says. *)
LEMMA Asked ==
    ASSUME RefInv, NEW r \in Requests, NEW stage, At(r, stage), stage # "idle"
    PROVE  /\ request[r].stage = stage /\ IsRequest(request[r]) /\ request[r] # NoRequest
  BY DEF RefInv, RefTypes, At, NoRequest

LEMMA ReorderCommitStep ==
    ASSUME RefInv, NEW r \in Requests, ReorderCommit(r)
    PROVE  RefInv'
<1> DEFINE v == request[r].version
           placed == reference[v].items
           moved == [k \in DOMAIN placed |->
                        IF k \in DOMAIN request[r].order THEN request[r].order[k] ELSE placed[k]]
           e == [reference[v] EXCEPT !.items = moved]
<1>1. v \in DOMAIN reference
  BY Asked DEF ReorderCommit, IsRequest
<1>2. IsReference(reference[v])
  BY <1>1 DEF RefInv, RefTypes
<1>3. IsRequest(NoRequest) /\ IsRequest(NoRequest)'
  BY DEF IsRequest
<1>4. CASE reference' = reference
  BY <1>3, <1>4, RequestStep DEF ReorderCommit, Ends, NoRequest
<1>5. CASE reference' = [reference EXCEPT ![v].items = moved]
  <2>1. reference' = [reference EXCEPT ![v] = e]
    BY <1>5
  <2>2. DOMAIN moved = DOMAIN placed
    OBVIOUS
  <2> HIDE DEF moved
  <2>3. IsReference(e) /\ e.status = reference[v].status /\ e.items = moved
    BY <1>2, <2>2 DEF IsReference
  <2>4. Goes(r, NoRequest) /\ UNCHANGED <<token, made>>
    BY DEF ReorderCommit, Ends
  <2> HIDE DEF e, v
  <2>5. DOMAIN e.items \subseteq Items(v) /\ (e.status = "draft" => IsDraft(v))
    BY <2>2, <2>3 DEF Items, IsDraft
  <2>6. \E s \in Requests : \E q :
            Goes(s, q) /\ IsRequest(q)' /\ q.stage \notin {"copying", "claimed", "stored"}
    BY <1>3, <2>4 DEF NoRequest
  <2> QED
    BY <1>1, <2>1, <2>3, <2>4, <2>5, <2>6, ReferenceStep
<1>6. reference' = reference \/ reference' = [reference EXCEPT ![v].items = moved]
  BY DEF ReorderCommit
<1> QED
  BY <1>4, <1>5, <1>6

LEMMA DeleteRowStep ==
    ASSUME RefInv, NEW r \in Requests, DeleteRow(r)
    PROVE  RefInv'
<1> DEFINE v == request[r].version
           left == Dropping(reference[v].items, request[r].key)
           e == [reference[v] EXCEPT !.items = left]
           q == [request[r] EXCEPT !.stage = "deleted"]
<1>1. v \in DOMAIN reference
      /\ request[r] = [stage |-> request[r].stage, version |-> v, key |-> request[r].key]
  BY Asked DEF DeleteRow, IsRequest
<1>2. IsReference(reference[v])
  BY <1>1 DEF RefInv, RefTypes
<1>3. IsRequest(NoRequest)
  BY DEF IsRequest
<1>4. CASE reference' = reference /\ Ends(r)
  BY <1>3, <1>4, RequestStep DEF DeleteRow, Ends, NoRequest
<1>5. CASE reference' = [reference EXCEPT ![v].items = left] /\ Goes(r, q)
  <2>1. reference' = [reference EXCEPT ![v] = e]
    BY <1>5
  <2>2. DOMAIN left \subseteq DOMAIN reference[v].items
    BY DEF Dropping
  <2>3. q.stage = "deleted"
    BY <1>1
  <2> HIDE DEF left
  <2>4. IsReference(e) /\ e.status = reference[v].status /\ e.items = left
    BY <1>2, <2>2 DEF IsReference
  <2>5. PICK p : p = q
    OBVIOUS
  <2>6. UNCHANGED <<token, made>>
    BY DEF DeleteRow
  <2> HIDE DEF e, v, q
  <2>7. Goes(r, p) /\ IsRequest(p)' /\ p.stage \notin {"copying", "claimed", "stored"}
    BY <1>5, <2>3, <2>5 DEF IsRequest
  <2>8. DOMAIN e.items \subseteq Items(v) /\ (e.status = "draft" => IsDraft(v))
    BY <2>2, <2>4 DEF Items, IsDraft
  <2> QED
    BY <1>1, <2>1, <2>4, <2>6, <2>7, <2>8, ReferenceStep
<1> QED
  BY <1>4, <1>5 DEF DeleteRow

(* A draft is added at the end of a reference that has none.                 *)
LEMMA DraftAdded ==
    ASSUME RefInv, ~DraftExists, NEW e, IsReference(e),
           reference' = Append(reference, e), UNCHANGED <<token, made>>,
           request' = [r \in Requests |-> request'[r]],
           \A r \in Requests : request'[r] = request[r] \/ request'[r] = NoRequest,
           \A k \in DOMAIN e.items : Named(k),
           \A r \in Requests : At(r, "copying")' => request[r].number # Len(reference) + 2
    PROVE  RefInv'
<1> DEFINE n == Len(reference)
<1>1. /\ n \in Nat /\ DOMAIN reference = 1..n /\ IsSeq(reference') /\ Len(reference') = n + 1
      /\ DOMAIN reference' = 1..(n + 1)
      /\ \A v \in 1..(n + 1) : reference'[v] = IF v = n + 1 THEN e ELSE reference[v]
  BY AppendFacts, SeqFacts DEF RefInv, RefTypes
<1> HIDE DEF n
<1>2. /\ DOMAIN reference \subseteq DOMAIN reference' /\ reference'[n + 1] = e
      /\ \A v \in DOMAIN reference : reference'[v] = reference[v] /\ v # n + 1
      /\ \A v \in DOMAIN reference' : v # n + 1 => v \in DOMAIN reference
  BY <1>1
<1>3. Grows /\ TokensStay
  BY <1>2 DEF Grows, TokensStay
<1>4. ASSUME NEW v \in DOMAIN reference' PROVE IsReference(reference[v])'
  <2>1. IsReference(reference'[v])
    <3>1. CASE v = n + 1
      BY <1>2, <3>1
    <3>2. CASE v # n + 1
      BY <1>2, <3>2 DEF RefInv, RefTypes
    <3> QED
      BY <3>1, <3>2
  <2> QED
    BY <2>1 DEF IsReference
<1>5. ASSUME NEW t \in Tokens PROVE IsToken(token[t])'
  BY <1>2 DEF RefInv, RefTypes, IsToken
<1>6. ASSUME NEW r \in Requests PROVE IsRequest(request[r])'
  <2>1. PICK q : q = request[r]
    OBVIOUS
  <2>2. CASE request'[r] = NoRequest
    BY <2>2 DEF IsRequest
  <2>3. CASE request'[r] = q
    <3>1. IsRequest(q)
      BY <2>1 DEF RefInv, RefTypes
    <3>2. ASSUME q.stage = "copying"
          PROVE  q.number \in 2..(Len(reference') + 1) /\ q.number # Len(reference') + 1
      <4>1. q.number # n + 2
        BY <2>1, <2>3, <3>2 DEF At, n
      <4>2. q.number \in 2..(n + 1)
        BY <3>1, <3>2 DEF IsRequest, NoRequest, n
      <4> QED
        BY <1>1, <4>1, <4>2
    <3>3. IsRequest(q)'
      BY <1>3, <3>1, <3>2, RequestStands
    <3> QED
      BY <2>3, <3>3
  <2> QED
    BY <2>1, <2>2, <2>3
<1>7. RefTypes'
  BY <1>1, <1>4, <1>5, <1>6 DEF RefInv, RefTypes
<1>8. ASSUME NEW k, Named(k)' PROVE Named(k)
  BY <1>2, <1>8 DEF Named, Items, At, NoRequest
<1>9. \A r \in Requests, t \in Tokens : Holds(r, t)' => Holds(r, t)
  BY DEF Holds, At, NoRequest
<1>10. TokensKept'
  BY <1>3, <1>8, <1>9, TokensStand DEF RefInv
<1>11. \A v \in DOMAIN reference' : IsDraft(v)' => v = n + 1
  BY <1>2 DEF DraftExists, IsDraft
<1> QED
  BY <1>7, <1>10, <1>11 DEF RefInv, OneReferenceDraft

LEMMA CreateReferenceStep ==
    ASSUME RefInv, NEW text, CreateReference(text)
    PROVE  RefInv'
<1> DEFINE e == [status |-> "draft", text |-> text, items |-> NoItems]
<1>1. reference = <<>> /\ Len(reference) = 0 /\ DOMAIN reference = {}
  BY DEF CreateReference
<1>2. reference' = Append(reference, e)
  BY <1>1 DEF CreateReference
<1>3. DOMAIN e.items = {} /\ IsReference(e)
  BY DEF IsReference, NoItems
<1>4. ~DraftExists
  BY <1>1 DEF DraftExists
<1>5. ASSUME NEW r \in Requests, At(r, "copying")' PROVE request[r].number # Len(reference) + 2
  <2>1. request[r].number \in 2..(Len(reference) + 1)
    BY <1>5 DEF CreateReference, RefInv, RefTypes, IsRequest, At, NoRequest
  <2> QED
    BY <1>1, <2>1
<1>6. request' = [r \in Requests |-> request'[r]] /\ UNCHANGED <<token, made, request>>
  BY DEF CreateReference, RefInv, RefTypes
<1> HIDE DEF e
<1> QED
  BY <1>2, <1>3, <1>4, <1>5, <1>6, DraftAdded

LEMMA CopyAsked ==
    ASSUME RefInv, NEW r \in Requests, At(r, "copying")
    PROVE  LET q == request[r]
           IN  /\ q.stage = "copying" /\ q.number \in 2..(Len(reference) + 1)
               /\ DOMAIN q.items \subseteq DOMAIN made
               /\ q.number = Len(reference) + 1 => ~DraftExists
<1>1. request[r].stage = "copying" /\ IsRequest(request[r]) /\ request[r] # NoRequest
  BY Asked
<1> QED
  BY <1>1 DEF IsRequest

LEMMA CopyCommitStep ==
    ASSUME RefInv, NEW r \in Requests, CopyCommit(r)
    PROVE  RefInv'
<1> DEFINE q == request[r]
           e == [status |-> "draft", text |-> q.text, items |-> q.items]
<1>1. /\ Goes(r, NoRequest) /\ UNCHANGED <<token, made>>
      /\ q.stage = "copying" /\ q.number \in 2..(Len(reference) + 1)
      /\ DOMAIN q.items \subseteq DOMAIN made
      /\ q.number = Len(reference) + 1 => ~DraftExists
  BY CopyAsked DEF CopyCommit, Ends
<1>2. CASE NumberFree(r)
  <2>1. reference' = Append(reference, e) /\ ~DraftExists
    BY <1>1, <1>2 DEF CopyCommit, NumberFree
  <2>2. IsReference(e)
    BY <1>1 DEF IsReference
  <2>3. \A k \in DOMAIN e.items : Named(k)
    BY <1>1 DEF Named, At
  <2>4. /\ request' = [s \in Requests |-> request'[s]]
        /\ \A s \in Requests : request'[s] = request[s] \/ request'[s] = NoRequest
    BY <1>1, Becomes DEF RefInv
  <2>5. ASSUME NEW s \in Requests, At(s, "copying")' PROVE request[s].number # Len(reference) + 2
    <3>1. At(s, "copying")
      BY <2>4, <2>5 DEF At, NoRequest
    <3>2. request[s].number \in 2..(Len(reference) + 1)
      BY <3>1, CopyAsked
    <3>3. Len(reference) \in Nat
      BY SeqFacts DEF RefInv, RefTypes
    <3> QED
      BY <3>2, <3>3
  <2> HIDE DEF e, q
  <2> QED
    BY <1>1, <2>1, <2>2, <2>3, <2>4, <2>5, DraftAdded
<1>3. CASE ~NumberFree(r)
  <2>1. IsRequest(NoRequest) /\ reference' = reference
    BY <1>3 DEF IsRequest, CopyCommit
  <2> QED
    BY <1>1, <2>1, RequestStep DEF NoRequest
<1> QED
  BY <1>2, <1>3

LEMMA CopyBeginStep ==
    ASSUME RefInv, NEW r \in Requests, NEW v \in DOMAIN reference, CopyBegin(r, v)
    PROVE  RefInv'
<1> DEFINE q == [stage |-> "copying", number |-> Len(reference) + 1,
                 text |-> reference[v].text, items |-> reference[v].items]
<1>1. Goes(r, q) /\ ~DraftExists /\ UNCHANGED <<reference, token, made>>
  BY DEF CopyBegin
<1>2. Len(reference) + 1 \in 2..(Len(reference) + 1)
  BY SeqFacts DEF RefInv, RefTypes
<1>3. IsReference(reference[v])
  BY DEF RefInv, RefTypes
<1>4. IsRequest(q)
  BY <1>1, <1>2, <1>3 DEF IsRequest, IsReference
<1>5. q.stage = "copying" /\ \A k \in DOMAIN q.items : Named(k)
  BY DEF Named, Items
<1> HIDE DEF q
<1> QED
  BY <1>1, <1>4, <1>5, RequestStep

-----------------------------------------------------------------------------
(* Items: tokens are claimed, images stored, rows inserted. *)

LEMMA IssueTokenStep ==
    ASSUME RefInv, NEW t \in Tokens, NEW v \in DOMAIN reference, NEW mask, IssueToken(t, v, mask)
    PROVE  RefInv'
<1> DEFINE e == [state |-> "issued", version |-> v, mask |-> mask, arrived |-> FALSE]
<1>1. IsToken(e) /\ e.state = "issued"
  BY DEF IsToken
<1>2. /\ token[t].state = "unused" /\ token' = [token EXCEPT ![t] = e]
      /\ UNCHANGED <<reference, made, request>>
  BY DEF IssueToken
<1> HIDE DEF e
<1> QED
  BY <1>1, <1>2, TokenStep

(* A token that is in use. *)
LEMMA InUse ==
    ASSUME RefInv, NEW t \in Tokens, token[t].state # "unused", NEW state \in {"issued", "consumed"}
    PROVE  /\ token[t].version \in DOMAIN reference
           /\ \E e : e = [token[t] EXCEPT !.state = state] /\ IsToken(e) /\ e.state = state
           /\ \E e : /\ e = [token[t] EXCEPT !.arrived = TRUE] /\ IsToken(e)
                     /\ e.state = token[t].state
<1>1. PICK old : old = token[t]
  OBVIOUS
<1>2. /\ old = [state |-> old.state, version |-> old.version,
                mask |-> old.mask, arrived |-> old.arrived]
      /\ old.state \in {"issued", "consumed"} /\ old.version \in DOMAIN reference
  BY <1>1 DEF RefInv, RefTypes, IsToken
<1>3. PICK e : e = [old EXCEPT !.state = state]
  OBVIOUS
<1>4. e = [state |-> state, version |-> old.version, mask |-> old.mask, arrived |-> old.arrived]
  BY <1>2, <1>3
<1>5. IsToken(e) /\ e.state = state
  BY <1>2, <1>4 DEF IsToken
<1>6. PICK f : f = [old EXCEPT !.arrived = TRUE]
  OBVIOUS
<1>7. f = [state |-> old.state, version |-> old.version, mask |-> old.mask, arrived |-> TRUE]
  BY <1>2, <1>6
<1>8. IsToken(f) /\ f.state = old.state
  BY <1>2, <1>7 DEF IsToken
<1> QED
  BY <1>1, <1>2, <1>3, <1>5, <1>6, <1>8

LEMMA PutPictureStep ==
    ASSUME RefInv, NEW t \in Tokens, PutPicture(t)
    PROVE  RefInv'
<1>1. PICK e : /\ e = [token[t] EXCEPT !.arrived = TRUE] /\ IsToken(e)
               /\ e.state = token[t].state
  BY InUse DEF PutPicture
<1>2. /\ token' = [token EXCEPT ![t] = e] /\ token[t].state = "issued"
      /\ UNCHANGED <<reference, made, request>>
  BY <1>1 DEF PutPicture
<1> QED
  BY <1>1, <1>2, TokenStep

LEMMA CheckTokenStep ==
    ASSUME RefInv, NEW r \in Requests, NEW t \in Tokens, CheckToken(r, t)
    PROVE  RefInv'
<1> DEFINE q == [stage |-> "checked", token |-> t, version |-> token[t].version,
                 mask |-> token[t].mask]
<1>1. Goes(r, q) /\ token[t].state = "issued" /\ UNCHANGED <<reference, token, made>>
  BY DEF CheckToken
<1>2. token[t].version \in DOMAIN reference
  BY <1>1, InUse
<1>3. IsRequest(q) /\ q.stage = "checked"
  BY <1>1, <1>2 DEF IsRequest, Claimer
<1> HIDE DEF q
<1> QED
  BY <1>1, <1>3, RequestStep

LEMMA AddItemStep ==
    ASSUME RefInv, NEW r \in Requests, NEW v \in DOMAIN reference, NEW mask, AddItem(r, v, mask)
    PROVE  RefInv'
<1> DEFINE q == [stage |-> "claimed", token |-> NoToken, version |-> v, mask |-> mask]
<1>1. Goes(r, q) /\ UNCHANGED <<reference, token, made>>
  BY DEF AddItem
<1>2. IsRequest(q) /\ q.stage = "claimed" /\ q.token = NoToken
  BY DEF IsRequest, Claimer
<1> HIDE DEF q
<1> QED
  BY <1>1, <1>2, RequestStep

LEMMA ChoiceStep ==
    ASSUME RefInv, NEW r \in Requests, NEW v \in DOMAIN reference,
           (\E key : FindItem(r, v, key)) \/ (\E order : ReorderBegin(r, v, order))
    PROVE  RefInv'
<1>1. ASSUME NEW key, FindItem(r, v, key) PROVE RefInv'
  <2> DEFINE q == [stage |-> "found", version |-> v, key |-> key]
  <2>1. Goes(r, q) /\ UNCHANGED <<reference, token, made>>
    BY <1>1 DEF FindItem
  <2>2. IsRequest(q) /\ q.stage = "found"
    BY DEF IsRequest
  <2> HIDE DEF q
  <2> QED
    BY <2>1, <2>2, RequestStep
<1>2. ASSUME NEW order, ReorderBegin(r, v, order) PROVE RefInv'
  <2> DEFINE q == [stage |-> "ordering", version |-> v, order |-> order]
  <2>1. Goes(r, q) /\ UNCHANGED <<reference, token, made>>
    BY <1>2 DEF ReorderBegin
  <2>2. IsRequest(q) /\ q.stage = "ordering"
    BY DEF IsRequest
  <2> HIDE DEF q
  <2> QED
    BY <2>1, <2>2, RequestStep
<1> QED
  BY <1>1, <1>2

LEMMA EndStep ==
    ASSUME RefInv, NEW r \in Requests, DeleteObjects(r) \/ StopRequest(r)
    PROVE  RefInv'
<1>1. Goes(r, NoRequest) /\ UNCHANGED <<reference, token, made>>
  BY DEF DeleteObjects, StopRequest, Ends
<1>2. IsRequest(NoRequest) /\ NoRequest.stage = "idle"
  BY DEF IsRequest, NoRequest
<1> QED
  BY <1>1, <1>2, RequestStep

LEMMA ClaimTokenStep ==
    ASSUME RefInv, NEW r \in Requests, ClaimToken(r)
    PROVE  RefInv'
<1>1. PICK old : old = request[r]
  OBVIOUS
<1>2. /\ old.stage = "checked" /\ Claimer(old) /\ old.version \in DOMAIN reference
      /\ old.token \in Tokens /\ token[old.token].state # "unused"
  <2>1. old.stage = "checked" /\ IsRequest(old) /\ old # NoRequest
    BY <1>1, Asked DEF ClaimToken
  <2> QED
    BY <2>1 DEF IsRequest
<1>3. PICK t \in Tokens : t = old.token
  BY <1>2
<1>4. UNCHANGED <<reference, made>>
  BY DEF ClaimToken
<1>5. CASE ~Unclaimed(t)
  <2>1. Goes(r, NoRequest) /\ UNCHANGED token
    BY <1>1, <1>3, <1>5 DEF ClaimToken, Ends
  <2>2. IsRequest(NoRequest) /\ NoRequest.stage = "idle"
    BY DEF IsRequest, NoRequest
  <2> QED
    BY <1>4, <2>1, <2>2, RequestStep
<1>6. CASE Unclaimed(t)
  <2>1. PICK q : q = [old EXCEPT !.stage = "claimed"]
    OBVIOUS
  <2>2. PICK e : e = [token[t] EXCEPT !.state = "consumed"] /\ IsToken(e) /\ e.state = "consumed"
    BY <1>2, <1>3, InUse
  <2>3. Goes(r, q) /\ token' = [token EXCEPT ![t] = e] /\ token[t].state # "consumed"
    BY <1>1, <1>3, <1>6, <2>1, <2>2 DEF ClaimToken, Unclaimed
  <2>4. q = [stage |-> "claimed", token |-> t, version |-> old.version, mask |-> old.mask]
    BY <1>2, <1>3, <2>1 DEF Claimer
  <2>5. /\ request' = [s \in Requests |-> request'[s]] /\ request'[r] = q
        /\ \A s \in Requests : s # r => request'[s] = request[s]
    BY <2>3, Becomes DEF RefInv
  <2>6. /\ token' = [u \in Tokens |-> token'[u]] /\ token'[t] = e
        /\ \A u \in Tokens : u # t => token'[u] = token[u]
    <3>1. DOMAIN token = Tokens
      BY DEF RefInv, RefTypes
    <3> QED
      BY <2>3, <3>1
  <2>7. Grows /\ TokensStay
    BY <1>4, <2>2, <2>6 DEF Grows, TokensStay
  <2>8. IsRequest(request[r])'
    BY <1>2, <1>4, <2>4, <2>5 DEF IsRequest, Claimer
  <2>9. ASSUME NEW u \in Tokens PROVE IsToken(token[u])'
    <3>1. IsToken(token[u])
      BY DEF RefInv, RefTypes
    <3>2. IsToken(token'[u])
      BY <2>2, <2>6, <3>1
    <3> QED
      BY <1>4, <3>2 DEF IsToken
  <2>10. /\ \A v \in DOMAIN reference' : IsReference(reference[v])'
         /\ DraftExists' => DraftExists
    BY <1>4 DEF RefInv, RefTypes, IsReference, DraftExists, IsDraft
  <2>11. RefTypes'
    BY <1>4, <2>5, <2>6, <2>7, <2>8, <2>9, <2>10, TypesKept DEF RefInv, RefTypes
  <2>12. ASSUME NEW k, Named(k)' PROVE Named(k)
    BY <1>4, <2>4, <2>5, <2>12 DEF Named, Items, At
  <2>13. ASSUME NEW s \in Requests, NEW u \in Tokens, Holds(s, u)'
         PROVE  Holds(s, u) \/ (s = r /\ u = t)
    BY <2>4, <2>5, <2>13 DEF Holds, At
  <2>14. ASSUME NEW u \in Tokens PROVE TokenKept(u)'
    <3>1. TokenKept(u)
      BY DEF RefInv, TokensKept
    <3>2. CASE u = t
      <4>1. (\A s \in Requests : ~Holds(s, t)) /\ \A k \in DOMAIN made : ~Brought(k, t)
        BY <2>3, <3>1, <3>2 DEF TokenKept
      <4>2. \A k \in DOMAIN made' : ~Brought(k, t)'
        BY <1>4, <2>12, <4>1 DEF Brought
      <4>3. \A s \in Requests : Holds(s, t)' => s = r
        BY <2>13, <4>1
      <4> QED
        BY <2>2, <2>6, <3>2, <4>2, <4>3 DEF TokenKept
    <3>3. CASE u # t
      <4>1. token'[u] = token[u]
        BY <2>6, <3>3
      <4>2. \A s \in Requests : Holds(s, u)' => Holds(s, u)
        BY <2>13, <3>3
      <4>3. \A k \in DOMAIN made' : Brought(k, u)' => Brought(k, u) /\ k \in DOMAIN made
        BY <1>4, <2>12 DEF Brought
      <4> QED
        BY <3>1, <4>1, <4>2, <4>3 DEF TokenKept
    <3> QED
      BY <3>2, <3>3
  <2> QED
    BY <1>4, <2>11, <2>14 DEF RefInv, TokensKept, OneReferenceDraft, IsDraft
<1> QED
  BY <1>5, <1>6

(* A request ends and gives its token back. *)
LEMMA LetGo ==
    ASSUME RefInv, NEW r \in Requests, NEW t, t = request[r].token,
           At(r, "claimed") \/ At(r, "stored"),
           Goes(r, NoRequest), GiveBack(t), UNCHANGED <<reference, made>>
    PROVE  RefInv'
<1>1. IsRequest(NoRequest) /\ NoRequest.stage = "idle"
  BY DEF IsRequest, NoRequest
<1>2. CASE t = NoToken
  BY <1>1, <1>2, RequestStep DEF GiveBack
<1>3. CASE t # NoToken
  <2>1. t \in Tokens
    <3>1. PICK q : q = request[r]
      OBVIOUS
    <3>2. (q.stage = "claimed" \/ q.stage = "stored") /\ IsRequest(q) /\ q # NoRequest
      BY <3>1, Asked DEF At
    <3>3. q.token \in Tokens \cup {NoToken}
      BY <3>2 DEF IsRequest
    <3> QED
      BY <1>3, <3>1, <3>3
  <2>2. Holds(r, t) /\ TokenKept(t)
    BY <2>1 DEF Holds, RefInv, TokensKept
  <2>3. /\ token[t].state = "consumed" /\ (\A s \in Requests : Holds(s, t) => s = r)
        /\ \A k \in DOMAIN made : ~Brought(k, t)
    BY <2>2 DEF TokenKept
  <2>4. PICK e : e = [token[t] EXCEPT !.state = "issued"] /\ IsToken(e) /\ e.state = "issued"
    BY <2>1, <2>3, InUse
  <2>5. token' = [token EXCEPT ![t] = e]
    BY <1>3, <2>4 DEF GiveBack
  <2>6. /\ request' = [s \in Requests |-> request'[s]] /\ request'[r] = NoRequest
        /\ \A s \in Requests : s # r => request'[s] = request[s]
    BY Becomes DEF RefInv
  <2>7. /\ token' = [u \in Tokens |-> token'[u]] /\ token'[t] = e
        /\ \A u \in Tokens : u # t => token'[u] = token[u]
    <3>1. DOMAIN token = Tokens
      BY DEF RefInv, RefTypes
    <3> QED
      BY <2>1, <2>5, <3>1
  <2>8. Grows /\ TokensStay
    BY <2>4, <2>7 DEF Grows, TokensStay
  <2>9. IsRequest(request[r])'
    BY <2>6 DEF IsRequest
  <2>10. ASSUME NEW u \in Tokens PROVE IsToken(token[u])'
    <3>1. IsToken(token[u])
      BY DEF RefInv, RefTypes
    <3>2. IsToken(token'[u])
      BY <2>4, <2>7, <3>1
    <3> QED
      BY <3>2 DEF IsToken
  <2>11. /\ \A v \in DOMAIN reference' : IsReference(reference[v])'
         /\ DraftExists' => DraftExists
    BY DEF RefInv, RefTypes, IsReference, DraftExists, IsDraft
  <2>12. RefTypes'
    BY <2>6, <2>7, <2>8, <2>9, <2>10, <2>11, TypesKept DEF RefInv, RefTypes
  <2>13. \A k : Named(k)' => Named(k)
    BY <2>6 DEF Named, Items, At, NoRequest
  <2>14. \A s \in Requests, u \in Tokens : Holds(s, u)' => Holds(s, u) /\ s # r
    BY <2>6 DEF Holds, At, NoRequest
  <2>15. TokensKept'
    BY <2>3, <2>7, <2>8, <2>13, <2>14, TokensStand DEF RefInv
  <2> QED
    BY <2>12, <2>15 DEF RefInv, OneReferenceDraft, IsDraft
<1> QED
  BY <1>2, <1>3

(* What a request that has claimed its token asks for.                       *)
LEMMA ClaimAsked ==
    ASSUME RefInv, NEW r \in Requests, At(r, "claimed")
    PROVE  request[r].version \in DOMAIN reference /\ request[r].token \in Tokens \cup {NoToken}
<1>1. PICK q : q = request[r]
  OBVIOUS
<1>2. q.stage = "claimed" /\ IsRequest(q) /\ q # NoRequest
  BY <1>1, Asked
<1> QED
  BY <1>1, <1>2 DEF IsRequest

LEMMA StoreStep ==
    ASSUME RefInv, NEW r \in Requests, Store(r)
    PROVE  RefInv'
<1>1. PICK old : old = request[r]
  OBVIOUS
<1>2. /\ old.stage = "claimed" /\ old.version \in DOMAIN reference
      /\ old.token \in Tokens \cup {NoToken}
  BY <1>1, ClaimAsked DEF Store, At
<1> DEFINE n == Len(made)
           e == [token |-> old.token, mask |-> old.mask, shown |-> Retained(old.mask)]
           q == [stage |-> "stored", token |-> old.token, version |-> old.version, key |-> n + 1]
<1>3. made' = Append(made, e) /\ Goes(r, q) /\ UNCHANGED <<reference, token>>
  BY <1>1 DEF Store
<1>4. /\ n \in Nat /\ DOMAIN made = 1..n /\ IsSeq(made') /\ DOMAIN made' = 1..(n + 1)
      /\ \A k \in 1..(n + 1) : made'[k] = IF k = n + 1 THEN e ELSE made[k]
  BY <1>3, AppendFacts, SeqFacts DEF RefInv, RefTypes
<1>5. e.token = old.token /\ q.stage = "stored" /\ q.token = old.token
      /\ q.version = old.version /\ q.key = n + 1
  OBVIOUS
<1> HIDE DEF n, e, q
<1>6. /\ DOMAIN made \subseteq DOMAIN made' /\ \A k \in DOMAIN made : made'[k] = made[k]
      /\ n + 1 \in DOMAIN made' /\ made'[n + 1] = e
  BY <1>4
<1>7. /\ request' = [s \in Requests |-> request'[s]] /\ request'[r] = q
      /\ \A s \in Requests : s # r => request'[s] = request[s]
  BY <1>3, Becomes DEF RefInv
<1>8. Grows /\ TokensStay
  BY <1>3, <1>6 DEF Grows, TokensStay
<1>9. IsRequest(request[r])'
  BY <1>2, <1>3, <1>5, <1>6, <1>7 DEF IsRequest
<1>10. ASSUME NEW v \in DOMAIN reference' PROVE IsReference(reference[v])'
  <2>1. IsReference(reference[v])
    BY <1>3 DEF RefInv, RefTypes
  <2> QED
    BY <1>3, <1>6, <2>1 DEF IsReference
<1>11. /\ \A t \in Tokens : IsToken(token[t])'
       /\ DraftExists' => DraftExists
  BY <1>3 DEF RefInv, RefTypes, IsToken, DraftExists, IsDraft
<1>12. \A k \in DOMAIN made' : made'[k].token \in Tokens \cup {NoToken}
  BY <1>2, <1>4, <1>5 DEF RefInv, RefTypes
<1>13. RefTypes'
  BY <1>12, <1>3, <1>4, <1>7, <1>8, <1>9, <1>10, <1>11, TypesKept DEF RefInv, RefTypes
<1>14. \A k : Named(k)' => Named(k)
  BY <1>3, <1>5, <1>7 DEF Named, Items, At
<1>15. \A s \in Requests, t \in Tokens : Holds(s, t)' => Holds(s, t)
  BY <1>1, <1>2, <1>5, <1>7 DEF Holds, At
<1>16. TokensKept'
  BY <1>3, <1>8, <1>14, <1>15, TokensStand DEF RefInv
<1> QED
  BY <1>3, <1>13, <1>16 DEF RefInv, OneReferenceDraft, IsDraft

LEMMA StoreFailsStep ==
    ASSUME RefInv, NEW r \in Requests, StoreFails(r)
    PROVE  RefInv'
BY LetGo DEF StoreFails, Ends

LEMMA InsertItemStep ==
    ASSUME RefInv, NEW r \in Requests, InsertItem(r)
    PROVE  RefInv'
<1>1. PICK old : old = request[r]
  OBVIOUS
<1>2. /\ old.stage = "stored" /\ old.version \in DOMAIN reference
      /\ old.token \in Tokens \cup {NoToken}
      /\ old.key \in DOMAIN made /\ made[old.key].token = old.token
  <2>1. old.stage = "stored" /\ IsRequest(old) /\ old # NoRequest
    BY <1>1, Asked DEF InsertItem
  <2> QED
    BY <2>1 DEF IsRequest
<1>3. PICK v, t, key : v = old.version /\ t = old.token /\ key = old.key
  OBVIOUS
<1>4. Goes(r, NoRequest) /\ UNCHANGED made /\ At(r, "stored")
  BY DEF InsertItem, Ends
<1>5. CASE ~IsDraft(v)
  <2>1. GiveBack(t) /\ UNCHANGED reference
    BY <1>1, <1>3, <1>5 DEF InsertItem
  <2> QED
    BY <1>1, <1>3, <1>4, <2>1, LetGo
<1>6. CASE IsDraft(v)
  <2>1. PICK items : items = Adding(reference[v].items, key)
    OBVIOUS
  <2>2. PICK e : e = [reference[v] EXCEPT !.items = items]
    OBVIOUS
  <2>3. reference' = [reference EXCEPT ![v] = e] /\ UNCHANGED token
    BY <1>1, <1>3, <1>6, <2>1, <2>2 DEF InsertItem
  <2>4. DOMAIN items = Items(v) \cup {key}
    BY <2>1 DEF Adding, Items
  <2>5. IsReference(reference[v])
    BY <1>2, <1>3 DEF RefInv, RefTypes
  <2>6. IsReference(e) /\ e.status = reference[v].status /\ e.items = items
    BY <1>2, <1>3, <2>2, <2>4, <2>5 DEF IsReference, Items
  <2>7. e.status = "draft" => IsDraft(v)
    BY <1>6
  <2>8. /\ IsSeq(reference') /\ Len(reference') = Len(reference) /\ Grows
        /\ DOMAIN reference' = DOMAIN reference /\ reference'[v] = e
        /\ \A w \in DOMAIN reference : w # v => reference'[w] = reference[w]
        /\ \A w \in DOMAIN reference' : IsReference(reference[w])'
        /\ DraftExists' => DraftExists
        /\ OneReferenceDraft'
    BY <1>2, <1>3, <1>4, <2>3, <2>6, <2>7, RowChanged
  <2>9. /\ request' = [s \in Requests |-> request'[s]] /\ request'[r] = NoRequest
        /\ \A s \in Requests : s # r => request'[s] = request[s]
    BY <1>4, Becomes DEF RefInv
  <2>10. TokensStay
    BY <2>3 DEF TokensStay
  <2>11. IsRequest(request[r])'
    BY <2>9 DEF IsRequest
  <2>12. \A u \in Tokens : IsToken(token[u])'
    BY <2>3, <2>8 DEF RefInv, RefTypes, IsToken
  <2>13. RefTypes'
    BY <1>4, <2>3, <2>8, <2>9, <2>10, <2>11, <2>12, TypesKept DEF RefInv, RefTypes
  <2>14. ASSUME NEW k, Named(k)' PROVE Named(k) \/ k = key
    BY <2>4, <2>6, <2>8, <2>9, <2>14 DEF Named, Items, At, NoRequest
  <2>15. \A s \in Requests, u \in Tokens : Holds(s, u)' => Holds(s, u) /\ s # r
    BY <2>9 DEF Holds, At, NoRequest
  <2>16. ASSUME NEW u \in Tokens PROVE TokenKept(u)'
    <3>1. TokenKept(u)
      BY DEF RefInv, TokensKept
    <3>2. CASE u = t
      <4>1. Holds(r, u)
        BY <1>1, <1>2, <1>3, <3>2 DEF Holds, At
      <4>2. /\ token[u].state = "consumed" /\ (\A s \in Requests : Holds(s, u) => s = r)
            /\ \A k \in DOMAIN made : ~Brought(k, u)
        BY <3>1, <4>1 DEF TokenKept
      <4>3. \A k \in DOMAIN made' : Brought(k, u)' => k = key
        BY <1>4, <2>14, <4>2 DEF Brought
      <4>4. \A s \in Requests : ~Holds(s, u)'
        BY <2>15, <4>2
      <4> QED
        BY <2>3, <4>2, <4>3, <4>4 DEF TokenKept
    <3>3. CASE u # t
      <4>1. \A k \in DOMAIN made' : Brought(k, u)' => Brought(k, u) /\ k \in DOMAIN made
        BY <1>2, <1>3, <1>4, <2>14, <3>3 DEF Brought
      <4> QED
        BY <2>3, <2>15, <3>1, <4>1 DEF TokenKept
    <3> QED
      BY <3>2, <3>3
  <2> QED
    BY <2>8, <2>13, <2>16 DEF RefInv, TokensKept
<1> QED
  BY <1>5, <1>6

-----------------------------------------------------------------------------

LEMMA RefStep == ASSUME RefInv, RefNext PROVE RefInv'
<1>1. ASSUME NEW text \in Texts, CreateReference(text) PROVE RefInv'
  BY <1>1, CreateReferenceStep
<1>2. ASSUME NEW v \in DOMAIN reference, NEW text \in Texts, UpdateReference(v, text) PROVE RefInv'
  BY <1>2, UpdateReferenceStep
<1>3. ASSUME NEW v \in DOMAIN reference,
             PublishReference(v) \/ ArchiveReference(v) \/ RestoreReference(v)
      PROVE  RefInv'
  BY <1>3, TransitionStep DEF PublishReference, ArchiveReference, RestoreReference
<1>4. ASSUME NEW v \in DOMAIN reference, NEW t \in Tokens, NEW mask \in Masks,
             IssueToken(t, v, mask)
      PROVE  RefInv'
  BY <1>4, IssueTokenStep
<1>5. ASSUME NEW v \in DOMAIN reference, NEW r \in Requests, CopyBegin(r, v) PROVE RefInv'
  BY <1>5, CopyBeginStep
<1>6. ASSUME NEW v \in DOMAIN reference, NEW r \in Requests, NEW order \in Orders(v),
             ReorderBegin(r, v, order)
      PROVE  RefInv'
  BY <1>6, ChoiceStep
<1>7. ASSUME NEW v \in DOMAIN reference, NEW r \in Requests, NEW mask \in Masks, AddItem(r, v, mask)
      PROVE  RefInv'
  BY <1>7, AddItemStep
<1>8. ASSUME NEW v \in DOMAIN reference, NEW r \in Requests, NEW key \in DOMAIN made,
             FindItem(r, v, key)
      PROVE  RefInv'
  BY <1>8, ChoiceStep
<1>9. ASSUME NEW t \in Tokens, PutPicture(t) PROVE RefInv'
  BY <1>9, PutPictureStep
<1>10. ASSUME NEW r \in Requests, NEW t \in Tokens, CheckToken(r, t) PROVE RefInv'
  BY <1>10, CheckTokenStep
<1>11. ASSUME NEW r \in Requests,
              \/ CopyCommit(r) \/ ReorderCommit(r) \/ ClaimToken(r) \/ Store(r) \/ StoreFails(r)
              \/ InsertItem(r) \/ DeleteRow(r) \/ DeleteObjects(r) \/ StopRequest(r)
       PROVE  RefInv'
  BY <1>11, CopyCommitStep, ReorderCommitStep, ClaimTokenStep, StoreStep, StoreFailsStep,
     InsertItemStep, DeleteRowStep, EndStep
<1> QED
  BY <1>1, <1>2, <1>3, <1>4, <1>5, <1>6, <1>7, <1>8, <1>9, <1>10, <1>11 DEF RefNext

LEMMA RefInvariant == RefSpec => []RefInv
<1>1. RefInit => RefInv
  <2> SUFFICES ASSUME RefInit PROVE RefInv
    OBVIOUS
  <2>1. /\ DOMAIN reference = {} /\ reference = [i \in 1..0 |-> reference[i]]
        /\ made = [i \in 1..0 |-> made[i]] /\ 0 \in Nat
    BY DEF RefInit
  <2>2. IsSeq(reference) /\ IsSeq(made)
    BY <2>1 DEF IsSeq
  <2>3. /\ token = [t \in Tokens |-> token[t]] /\ \A t \in Tokens : IsToken(token[t])
        /\ request = [r \in Requests |-> request[r]]
        /\ \A r \in Requests : request[r] = NoRequest
    BY DEF RefInit, IsToken
  <2>4. \A r \in Requests : IsRequest(request[r])
    BY <2>3 DEF IsRequest
  <2>5. \A k : ~Named(k)
    BY <2>1, <2>3 DEF Named, At, NoRequest
  <2>6. \A r \in Requests, t \in Tokens : ~Holds(r, t)
    BY <2>3 DEF Holds, At, NoRequest
  <2>7. TokensKept
    BY <2>5, <2>6 DEF TokensKept, TokenKept, Brought
  <2> QED
    BY <2>1, <2>2, <2>3, <2>4, <2>7 DEF RefInv, RefTypes, OneReferenceDraft
<1>2. RefInv /\ UNCHANGED refVars => RefInv'
  BY DEF RefInv, RefTypes, IsReference, IsToken, IsRequest, Claimer, DraftExists, IsDraft,
     OneReferenceDraft, TokensKept, TokenKept, Brought, Named, Items, Holds, At, refVars
<1>3. RefInv /\ [RefNext]_refVars => RefInv'
  BY <1>2, RefStep
<1> QED
  BY <1>1, <1>3, PTL DEF RefSpec

(* However uploads are repeated, interrupted or given back, and however      *)
(* copies overlap, the SOP has one draft and a token has brought one item    *)
(* (ai_reference_sops.go copyAIReferenceSOPVersion and                       *)
(* completeAIReferenceItemUpload).                                           *)
THEOREM ReferencesStaySingle == RefSpec => []ReferencesAreSingle
<1>1. RefInv => ReferencesAreSingle
  <2> SUFFICES ASSUME RefInv PROVE TokenBringsOneItem
    BY DEF RefInv, ReferencesAreSingle
  <2>1. ASSUME NEW a \in UNION {Items(v) : v \in DOMAIN reference},
               NEW b \in UNION {Items(v) : v \in DOMAIN reference},
               made[a].token = made[b].token, made[a].token # NoToken
        PROVE  a = b
    <3>1. Named(a) /\ Named(b) /\ a \in DOMAIN made /\ b \in DOMAIN made
      BY DEF Named, RefInv, RefTypes, IsReference, Items
    <3>2. PICK t \in Tokens : made[a].token = t /\ made[b].token = t
      BY <2>1, <3>1 DEF RefInv, RefTypes
    <3>3. Brought(a, t) /\ Brought(b, t) /\ TokenKept(t)
      BY <3>1, <3>2 DEF Brought, RefInv, TokensKept
    <3> QED
      BY <3>1, <3>3 DEF TokenKept
  <2> QED
    BY <2>1 DEF TokenBringsOneItem
<1> QED
  BY <1>1, RefInvariant, PTL

-----------------------------------------------------------------------------
(* Capture SOPs *)

(* The views of a version: each with a place of its own, 1 to their number,  *)
(* and the front at the first.                                               *)
IsView(view) ==
    /\ view = [role |-> view.role, sound |-> view.sound, multiple |-> view.multiple,
               sequence |-> view.sequence, images |-> view.images]
    /\ IsSeq(view.images)
Places(views, n) ==
    /\ \A id \in DOMAIN views : views[id].sequence \in 1..n
    /\ \A k \in 1..n : \E id \in DOMAIN views : views[id].sequence = k
    /\ \A a, b \in DOMAIN views : views[a].sequence = views[b].sequence => a = b
    /\ \A id \in DOMAIN views : views[id].role = RefFront <=> views[id].sequence = 1
IsViews(views) ==
    /\ \A id \in DOMAIN views : IsView(views[id])
    /\ \E n \in Nat \ {0} : Places(views, n)
Shown(views) == UNION {ToSet(views[id].images) : id \in DOMAIN views}

IsVersion(e) ==
    /\ e = [status |-> e.status, revision |-> e.revision, views |-> e.views]
    /\ e.revision \in Nat
    /\ IsViews(e.views)
    /\ \A id \in DOMAIN e.views : id \in 0..stored.views
VersionsHold ==
    /\ IsSeq(version) /\ \A v \in DOMAIN version : IsVersion(version[v])
    /\ now \in Nat /\ stored = [views |-> stored.views, keys |-> stored.keys]
    /\ stored.views \in Nat /\ stored.keys \in Nat
    /\ \A v, w \in DOMAIN version :
           version[v].status = "draft" /\ version[w].status = "draft" => v = w

(* A page shows a version that is there, and never a revision the version    *)
(* does not have yet.                                                        *)
IsPage(p) ==
    \/ p = NoPage
    \/ /\ p.stage \in {"row", "ready"} /\ p.version \in DOMAIN version
       /\ version[p.version].status = "draft" =>
              /\ p.revision \in Nat /\ p.revision <= version[p.version].revision
              /\ p.stage = "ready" /\ p.revision = version[p.version].revision
                     => p.views = version[p.version].views
PagesHold == page = [e \in Editors |-> page[e]] /\ \A e \in Editors : IsPage(page[e])

IsTicket(e) ==
    \/ e = [state |-> "unused"]
    \/ /\ e = [state |-> e.state, version |-> e.version, view |-> e.view, object |-> e.object]
       /\ e.state \in {"issued", "expired", "consumed"} /\ e.version \in DOMAIN version
IsUpload(q) ==
    \/ q = Idle
    \/ /\ q = [stage |-> q.stage, ticket |-> q.ticket, revision |-> q.revision]
       /\ q.stage \in {"checked", "claimed"}
       /\ q.ticket \in Tickets /\ ticket[q.ticket].state # "unused"
    \/ /\ q.stage = "promoted" /\ q.ticket \in Tickets
       /\ q.key \in objects /\ q.key.ticket = q.ticket
Holding(u, t) == upload[u].stage \in {"claimed", "promoted"} /\ upload[u].ticket = t
Depicted(k) == \E v \in DOMAIN version : k \in Shown(version[v].views)

(* A ticket that is held or has brought an image is consumed; it is held     *)
(* once, or has brought one image.                                           *)
TicketKept(t) ==
    /\ \A k : Depicted(k) /\ k.ticket = t =>
           /\ ticket[t].state = "consumed"
           /\ \A u \in Uploads : ~Holding(u, t)
           /\ \A j : Depicted(j) /\ j.ticket = t => j = k
    /\ \A u \in Uploads : Holding(u, t) =>
           /\ ticket[t].state = "consumed"
           /\ \A w \in Uploads : Holding(w, t) => w = u
UploadsHold ==
    /\ ticket = [t \in Tickets |-> ticket[t]] /\ \A t \in Tickets : IsTicket(ticket[t])
    /\ upload = [u \in Uploads |-> upload[u]] /\ \A u \in Uploads : IsUpload(upload[u])
    /\ \A k : Depicted(k) => k \in objects /\ k.ticket \in Tickets
    /\ \A t \in Tickets : TicketKept(t)

SopInv == VersionsHold /\ PagesHold /\ UploadsHold

-----------------------------------------------------------------------------
(* Numbers: the later of two, the next after 1 to n, and how many of 1 to m  *)
(* are left without d.                                                       *)

LEMMA LaterStamp ==
    ASSUME VersionsHold, NEW r \in Nat
    PROVE  NextRevision(r) \in Nat /\ NextRevision(r) > r
<1>1. now \in Nat
  BY DEF VersionsHold
<1>2. \E x \in {now, r + 1} : \A y \in {now, r + 1} : x >= y
  BY <1>1
<1>3. Max({now, r + 1}) \in {now, r + 1} /\ \A y \in {now, r + 1} : Max({now, r + 1}) >= y
  BY <1>2 DEF Max
<1>4. Max({now, r + 1}) >= r + 1
  BY <1>3
<1> HIDE DEF Max
<1> QED
  BY <1>1, <1>3, <1>4 DEF NextRevision

LEMMA LargestPlace ==
    ASSUME NEW n \in Nat PROVE Max((1..n) \cup {0}) = n
<1>1. n \in (1..n) \cup {0} /\ \A y \in (1..n) \cup {0} : y \in Nat /\ n >= y
  OBVIOUS
<1>2. \A x \in (1..n) \cup {0} : (\A y \in (1..n) \cup {0} : x >= y) => x = n
  BY <1>1
<1> QED
  BY <1>1, <1>2 DEF Max

LEMMA PlacesLeft ==
    ASSUME NEW m \in Nat, NEW d \in Nat \ {0}
    PROVE  IsFiniteSet((1..m) \ {d})
           /\ Cardinality((1..m) \ {d}) = IF d > m THEN m ELSE m - 1
<1>1. IsFiniteSet(1..m) /\ Cardinality(1..m) = m
  BY FS_Interval
<1>2. d \in 1..m <=> ~(d > m)
  OBVIOUS
<1>3. IsFiniteSet((1..m) \ {d})
      /\ Cardinality((1..m) \ {d}) = IF d \in 1..m THEN m - 1 ELSE m
  BY <1>1, FS_RemoveElement
<1> QED
  BY <1>2, <1>3

-----------------------------------------------------------------------------
(* The places of views *)

(* The views that have the places of a set are as many as it has.            *)
LEMMA PlacesCounted ==
    ASSUME NEW views, NEW n \in Nat, Places(views, n), NEW D \in SUBSET DOMAIN views,
           NEW T \in SUBSET (1..n), \A id \in D : views[id].sequence \in T,
           \A k \in T : \E id \in D : views[id].sequence = k
    PROVE  IsFiniteSet(D) /\ Cardinality(D) = Cardinality(T)
<1> DEFINE f == [id \in D |-> views[id].sequence]
<1>1. f \in Injection(D, T) /\ f \in Surjection(D, T)
  BY DEF Places, Injection, Surjection, IsInjective
<1>2. IsFiniteSet(1..n)
  BY FS_Interval
<1>3. IsFiniteSet(T)
  BY <1>2, FS_Subset
<1> QED
  BY <1>1, <1>3, FS_Injection

LEMMA ViewsCounted ==
    ASSUME NEW views, NEW n \in Nat, Places(views, n)
    PROVE  /\ IsFiniteSet(DOMAIN views) /\ Cardinality(DOMAIN views) = n
           /\ {views[id].sequence : id \in DOMAIN views} = 1..n
<1>1. {views[id].sequence : id \in DOMAIN views} = 1..n
  BY DEF Places
<1>2. IsFiniteSet(1..n) /\ Cardinality(1..n) = n
  BY FS_Interval
<1>3. PICK T, D : T = 1..n /\ D = DOMAIN views
  OBVIOUS
<1>4. /\ T \in SUBSET (1..n) /\ D \in SUBSET DOMAIN views
      /\ \A id \in D : views[id].sequence \in T
      /\ \A k \in T : \E id \in D : views[id].sequence = k
  BY <1>1, <1>3
<1>5. IsFiniteSet(D) /\ Cardinality(D) = Cardinality(T)
  BY <1>4, PlacesCounted
<1> QED
  BY <1>1, <1>2, <1>3, <1>5

(* A view without the front is put at the end. *)
LEMMA PlaceAdded ==
    ASSUME NEW views, NEW n \in Nat \ {0}, Places(views, n), NEW id, id \notin DOMAIN views,
           NEW more, DOMAIN more = DOMAIN views \cup {id},
           \A x \in DOMAIN views : more[x] = views[x],
           more[id].sequence = n + 1, more[id].role # RefFront
    PROVE  Places(more, n + 1)
<1>1. \A x \in DOMAIN views : more[x].sequence \in 1..n
  BY DEF Places
<1>2. \A k \in 1..(n + 1) : \E x \in DOMAIN more : more[x].sequence = k
  <2> TAKE k \in 1..(n + 1)
  <2>1. CASE k = n + 1
    BY <2>1
  <2>2. CASE k # n + 1
    <3>1. k \in 1..n
      BY <2>2
    <3> QED
      BY <3>1 DEF Places
  <2> QED
    BY <2>1, <2>2
<1>3. \A x \in DOMAIN more : more[x].sequence \in 1..(n + 1)
  BY <1>1
<1>4. n + 1 \notin 1..n /\ n + 1 # 1
  OBVIOUS
<1>5. \A a, b \in DOMAIN more : more[a].sequence = more[b].sequence => a = b
  BY <1>1, <1>4 DEF Places
<1>6. \A x \in DOMAIN more : more[x].role = RefFront <=> more[x].sequence = 1
  BY <1>4 DEF Places
<1> QED
  BY <1>2, <1>3, <1>5, <1>6 DEF Places

(* Views that keep their places and whether they are the front keep order. *)
LEMMA PlacesStay ==
    ASSUME NEW views, NEW n \in Nat, Places(views, n), NEW other, DOMAIN other = DOMAIN views,
           \A x \in DOMAIN views : /\ other[x].sequence = views[x].sequence
                                   /\ other[x].role = RefFront <=> views[x].role = RefFront
    PROVE  Places(other, n)
  BY DEF Places

(* Behind a view that is deleted the others move up. *)
LEMMA PlaceDeleted ==
    ASSUME NEW views, NEW n \in Nat \ {0}, Places(views, n), NEW id \in DOMAIN views,
           views[id].role # RefFront, NEW order, order = InOrder(Without(views, id))
    PROVE  /\ n - 1 \in Nat \ {0}
           /\ \A x \in DOMAIN views \ {id} :
                  order[x] = IF views[x].sequence < views[id].sequence
                             THEN views[x].sequence ELSE views[x].sequence - 1
<1> DEFINE d == views[id].sequence
           left == Without(views, id)
<1>1. d \in 1..n /\ d # 1
  BY DEF Places
<1>2. ASSUME NEW x \in DOMAIN views \ {id}
      PROVE  order[x] = IF views[x].sequence < d THEN views[x].sequence
                        ELSE views[x].sequence - 1
  <2> DEFINE m == views[x].sequence
             D == Before(left, x)
             T == (1..m) \ {d}
  <2>1. m \in 1..n /\ m # d
    BY DEF Places
  <2>2. D = {y \in DOMAIN views \ {id} : views[y].sequence <= m}
    BY DEF Before, Without
  <2> HIDE DEF D
  <2>3. T \in SUBSET (1..n)
    BY <2>1
  <2>4. \A y \in DOMAIN views : views[y].sequence \in 1..n /\ (views[y].sequence = d => y = id)
    BY DEF Places
  <2>5. \A y \in D : views[y].sequence \in T
    BY <2>2, <2>4, <2>1
  <2>6. ASSUME NEW k \in T PROVE \E y \in D : views[y].sequence = k
    <3>1. k \in 1..n /\ k <= m /\ k # d
      BY <2>1
    <3>2. PICK y \in DOMAIN views : views[y].sequence = k
      BY <3>1 DEF Places
    <3> QED
      BY <2>2, <3>1, <3>2
  <2>7. D \in SUBSET DOMAIN views
    BY <2>2
  <2> HIDE DEF T
  <2>8. Cardinality(D) = Cardinality(T)
    BY <2>3, <2>5, <2>6, <2>7, PlacesCounted
  <2>9. order[x] = Cardinality(D)
    BY DEF InOrder, Without, D
  <2>10. m \in Nat /\ d \in Nat \ {0}
    BY <1>1, <2>1
  <2> HIDE DEF d, m
  <2>11. Cardinality(T) = IF d > m THEN m ELSE m - 1
    BY <2>10, PlacesLeft DEF T
  <2> QED
    BY <2>8, <2>9, <2>10, <2>11 DEF d, m
<1> QED
  BY <1>1, <1>2

LEMMA PlacesClosed ==
    ASSUME NEW views, NEW n \in Nat \ {0}, Places(views, n), NEW id \in DOMAIN views,
           views[id].role # RefFront, NEW order, order = InOrder(Without(views, id)), NEW left,
           DOMAIN left = DOMAIN views \ {id},
           \A x \in DOMAIN left : left[x].sequence = order[x] /\ left[x].role = views[x].role
    PROVE  n - 1 \in Nat \ {0} /\ Places(left, n - 1)
<1> DEFINE d == views[id].sequence
           seq(x) == views[x].sequence
<1>1. /\ n - 1 \in Nat \ {0}
      /\ \A x \in DOMAIN left : left[x].sequence = IF seq(x) < d THEN seq(x) ELSE seq(x) - 1
  BY PlaceDeleted
<1>2. /\ d \in 2..n /\ \A x \in DOMAIN left : seq(x) \in 1..n /\ seq(x) # d
      /\ \A k \in 1..n : k = d \/ \E x \in DOMAIN left : seq(x) = k
      /\ \A x, y \in DOMAIN left : seq(x) = seq(y) => x = y
      /\ \A x \in DOMAIN left : left[x].role = RefFront <=> seq(x) = 1
  <2>1. d \in 1..n /\ d # 1
    BY DEF Places
  <2>2. \A k \in 1..n : \E x \in DOMAIN views : seq(x) = k
    BY DEF Places
  <2>3. \A x \in DOMAIN left : seq(x) \in 1..n /\ seq(x) # d
    BY DEF Places
  <2>4. \A x, y \in DOMAIN left : seq(x) = seq(y) => x = y
    BY DEF Places
  <2>5. \A x \in DOMAIN left : left[x].role = RefFront <=> seq(x) = 1
    BY DEF Places
  <2> QED
    BY <2>1, <2>2, <2>3, <2>4, <2>5
<1> HIDE DEF d, seq
<1>3. \A x \in DOMAIN left : left[x].sequence \in 1..(n - 1)
  BY <1>1, <1>2
<1>4. \A k \in 1..(n - 1) : \E x \in DOMAIN left : left[x].sequence = k
  <2> TAKE k \in 1..(n - 1)
  <2>1. CASE k < d
    <3>1. PICK x \in DOMAIN left : seq(x) = k
      BY <1>2, <2>1
    <3> QED
      BY <1>1, <2>1, <3>1
  <2>2. CASE ~(k < d)
    <3>1. k + 1 \in 1..n /\ k + 1 # d /\ ~(k + 1 < d) /\ (k + 1) - 1 = k
      BY <1>2, <2>2
    <3>2. PICK x \in DOMAIN left : seq(x) = k + 1
      BY <1>2, <3>1
    <3> QED
      BY <1>1, <3>1, <3>2
  <2> QED
    BY <2>1, <2>2
<1>5. \A x, y \in DOMAIN left : left[x].sequence = left[y].sequence => x = y
  <2> SUFFICES ASSUME NEW x \in DOMAIN left, NEW y \in DOMAIN left,
                      left[x].sequence = left[y].sequence
               PROVE  seq(x) = seq(y)
    BY <1>2
  <2> QED
    BY <1>1, <1>2
<1>6. \A x \in DOMAIN left : left[x].sequence = 1 <=> seq(x) = 1
  BY <1>1, <1>2
<1> QED
  BY <1>1, <1>2, <1>3, <1>4, <1>5, <1>6 DEF Places

(* An order of the views that puts the front first is an order of places. *)
LEMMA PlacesOrdered ==
    ASSUME NEW views, NEW n \in Nat, Places(views, n), NEW order \in ViewOrders(views),
           NEW id \in DOMAIN views, order[id] = 1, views[id].role = RefFront,
           NEW other, DOMAIN other = DOMAIN views,
           \A x \in DOMAIN views : other[x].sequence = order[x] /\ other[x].role = views[x].role
    PROVE  Places(other, n)
<1>1. Cardinality(DOMAIN views) = n
  BY ViewsCounted
<1>2. order \in Bijection(DOMAIN views, 1..n)
  BY <1>1 DEF ViewOrders
<1>3. /\ order \in [DOMAIN views -> 1..n]
      /\ \A x, y \in DOMAIN views : order[x] = order[y] => x = y
      /\ \A k \in 1..n : \E x \in DOMAIN views : order[x] = k
  BY <1>2 DEF Bijection, Injection, Surjection, IsInjective
<1>4. \A x \in DOMAIN views : views[x].role = RefFront <=> x = id
  BY DEF Places
<1>5. \A x \in DOMAIN views : order[x] = 1 <=> x = id
  BY <1>3
<1> QED
  BY <1>3, <1>4, <1>5 DEF Places

-----------------------------------------------------------------------------
(* Sequences of images: one is put in, or taken out, or they are turned.     *)

(* A part of a sequence. *)
LEMMA PartFacts ==
    ASSUME NEW S, NEW s \in Seq(S), NEW a \in 1..(Len(s) + 1), NEW b \in 0..Len(s), a <= b + 1
    PROVE  /\ SubSeq(s, a, b) \in Seq(S) /\ Len(SubSeq(s, a, b)) = b - a + 1
           /\ \A j \in 1..(b - a + 1) : SubSeq(s, a, b)[j] = s[a + j - 1]
  OBVIOUS

LEMMA JoinFacts ==
    ASSUME NEW S, NEW s \in Seq(S), NEW t \in Seq(S)
    PROVE  s \o t \in Seq(S) /\ ToSet(s \o t) = ToSet(s) \cup ToSet(t)
<1>1. s \o t \in Seq(S) /\ Len(s \o t) = Len(s) + Len(t) /\ Len(s) \in Nat /\ Len(t) \in Nat
      /\ DOMAIN s = 1..Len(s) /\ DOMAIN t = 1..Len(t) /\ DOMAIN (s \o t) = 1..Len(s \o t)
  OBVIOUS
<1>2. \A i \in 1..(Len(s) + Len(t)) :
         (s \o t)[i] = IF i <= Len(s) THEN s[i] ELSE t[i - Len(s)]
  OBVIOUS
<1>3. ASSUME NEW i \in DOMAIN s PROVE s[i] \in ToSet(s \o t)
  BY <1>1, <1>2 DEF ToSet
<1>4. ASSUME NEW i \in DOMAIN t PROVE t[i] \in ToSet(s \o t)
  <2>1. i + Len(s) \in 1..(Len(s) + Len(t)) /\ ~(i + Len(s) <= Len(s)) /\ (i + Len(s)) - Len(s) = i
    BY <1>1
  <2> QED
    BY <1>1, <1>2, <2>1 DEF ToSet
<1>5. ASSUME NEW i \in DOMAIN (s \o t) PROVE (s \o t)[i] \in ToSet(s) \cup ToSet(t)
  <2>1. CASE i <= Len(s)
    BY <1>1, <1>2, <2>1 DEF ToSet
  <2>2. CASE ~(i <= Len(s))
    <3>1. i - Len(s) \in DOMAIN t
      BY <1>1, <2>2
    <3> QED
      BY <1>1, <1>2, <2>2, <3>1 DEF ToSet
  <2> QED
    BY <2>1, <2>2
<1> QED
  BY <1>1, <1>3, <1>4, <1>5 DEF ToSet

LEMMA SeqIsSeq == ASSUME NEW S, NEW s \in Seq(S) PROVE IsSeq(s)
<1>1. Len(s) \in Nat /\ s = [i \in 1..Len(s) |-> s[i]]
  OBVIOUS
<1> QED
  BY <1>1 DEF IsSeq

LEMMA InsertFacts ==
    ASSUME NEW s, IsSeq(s), NEW i \in 1..(Len(s) + 1), NEW k
    PROVE  IsSeq(InsertAt(s, i, k)) /\ ToSet(InsertAt(s, i, k)) = ToSet(s) \cup {k}
<1> DEFINE n == Len(s)
           a == SubSeq(s, 1, i - 1)
           b == SubSeq(s, i, n)
           S == Range(s) \cup {k}
<1>1. n \in Nat /\ DOMAIN s = 1..n /\ s \in Seq(S)
  BY SeqFacts, SeqMonotonic
<1>2. a \in Seq(S) /\ Len(a) = i - 1 /\ \A j \in 1..(i - 1) : a[j] = s[j]
  BY <1>1, PartFacts
<1>3. b \in Seq(S) /\ Len(b) = n - i + 1 /\ \A j \in 1..(n - i + 1) : b[j] = s[i + j - 1]
  BY <1>1, PartFacts
<1>4. InsertAt(s, i, k) = a \o <<k>> \o b /\ <<k>> \in Seq(S) /\ ToSet(<<k>>) = {k}
  BY DEF InsertAt, ToSet
<1>5. DOMAIN a = 1..(i - 1) /\ DOMAIN b = 1..(n - i + 1)
  BY <1>2, <1>3
<1> HIDE DEF n, a, b, S
<1>6. a \o <<k>> \o b \in Seq(S) /\ ToSet(a \o <<k>> \o b) = (ToSet(a) \cup {k}) \cup ToSet(b)
  <2>1. PICK c, d : c = <<k>> /\ d = a \o c
    OBVIOUS
  <2>2. a \in Seq(S) /\ b \in Seq(S) /\ c \in Seq(S) /\ ToSet(c) = {k}
    BY <1>2, <1>3, <1>4, <2>1
  <2>3. a \o c \in Seq(S) /\ ToSet(a \o c) = ToSet(a) \cup ToSet(c)
    BY <2>2, JoinFacts
  <2>4. d \in Seq(S) /\ ToSet(d) = ToSet(a) \cup ToSet(c)
    BY <2>1, <2>3
  <2>5. d \o b \in Seq(S) /\ ToSet(d \o b) = ToSet(d) \cup ToSet(b)
    BY <2>2, <2>4, JoinFacts
  <2> QED
    BY <2>1, <2>2, <2>4, <2>5
<1>7. ToSet(a) \cup ToSet(b) = ToSet(s)
  <2>1. \A j \in 1..(i - 1) : j \in 1..n
    BY <1>1 DEF n
  <2>2. \A j \in 1..(n - i + 1) : i + j - 1 \in 1..n
    BY <1>1 DEF n
  <2>3. \A j \in 1..n : \/ j \in 1..(i - 1)
                        \/ j - i + 1 \in 1..(n - i + 1) /\ i + (j - i + 1) - 1 = j
    BY <1>1 DEF n
  <2>4. \A x \in ToSet(a) \cup ToSet(b) : x \in ToSet(s)
    <3>1. \A j \in DOMAIN a : a[j] \in ToSet(s)
      BY <1>1, <1>2, <1>5, <2>1 DEF ToSet
    <3>2. \A j \in DOMAIN b : b[j] \in ToSet(s)
      BY <1>1, <1>3, <1>5, <2>2 DEF ToSet
    <3> QED
      BY <3>1, <3>2 DEF ToSet
  <2>5. \A x \in ToSet(s) : x \in ToSet(a) \cup ToSet(b)
    <3> TAKE x \in ToSet(s)
    <3>1. PICK j \in 1..n : s[j] = x
      BY <1>1 DEF ToSet
    <3>2. CASE j \in 1..(i - 1)
      BY <1>2, <1>5, <3>1, <3>2 DEF ToSet
    <3>3. CASE j - i + 1 \in 1..(n - i + 1) /\ i + (j - i + 1) - 1 = j
      BY <1>3, <1>5, <3>1, <3>3 DEF ToSet
    <3> QED
      BY <2>3, <3>2, <3>3
  <2> QED
    BY <2>4, <2>5
<1> QED
  BY <1>4, <1>6, <1>7, SeqIsSeq

LEMMA RemoveFacts ==
    ASSUME NEW s, IsSeq(s), NEW i \in DOMAIN s
    PROVE  IsSeq(RemoveAt(s, i)) /\ ToSet(RemoveAt(s, i)) \subseteq ToSet(s)
<1> DEFINE n == Len(s)
           a == SubSeq(s, 1, i - 1)
           b == SubSeq(s, i + 1, n)
           S == Range(s)
<1>1. n \in Nat /\ DOMAIN s = 1..n /\ s \in Seq(S) /\ i \in 1..n
  BY SeqFacts
<1>2. a \in Seq(S) /\ b \in Seq(S)
  <2>1. i \in 1..(n + 1) /\ i + 1 \in 1..(n + 1) /\ i - 1 \in 0..n /\ i + 1 <= n + 1
        /\ 1 <= (i - 1) + 1 /\ 1 \in 1..(n + 1) /\ n \in 0..n
    BY <1>1
  <2> QED
    BY <1>1, <2>1, PartFacts
<1>3. RemoveAt(s, i) = a \o b
  BY DEF RemoveAt
<1> HIDE DEF n, a, b
<1>4. a \o b \in Seq(S)
  BY <1>2
<1> HIDE DEF S
<1>5. ToSet(a \o b) \subseteq S
  BY <1>4 DEF ToSet
<1>6. S = ToSet(s)
  BY DEF S, ToSet, Range
<1> QED
  BY <1>3, <1>4, <1>5, <1>6, SeqIsSeq

LEMMA ReverseFacts ==
    ASSUME NEW s, IsSeq(s)
    PROVE  IsSeq(Reverse(s)) /\ ToSet(Reverse(s)) \subseteq ToSet(s)
<1>1. PICK n : n = Len(s) /\ n \in Nat /\ DOMAIN s = 1..n
  BY SeqFacts
<1>2. Reverse(s) = [i \in 1..n |-> s[(n - i) + 1]]
  BY <1>1 DEF Reverse
<1>3. \A i \in 1..n : (n - i) + 1 \in 1..n
  BY <1>1
<1>4. ToSet(Reverse(s)) \subseteq ToSet(s)
  BY <1>1, <1>2, <1>3 DEF ToSet
<1>5. IsSeq(Reverse(s))
  BY <1>1, <1>2 DEF IsSeq
<1> QED
  BY <1>4, <1>5

-----------------------------------------------------------------------------
(* What a step writes: nothing, a new draft, or a change of a version.  A    *)
(* draft changes with a later revision, anything else in its status alone.   *)

SopStarted(e) ==
    /\ IsVersion(e) /\ e.status = "draft" /\ \A v \in DOMAIN version : version[v].status # "draft"
    /\ version' = Append(version, e)
SopTurned(v, e, from, to) ==
    version[v].status = from /\ e.status = to /\ e.views = version[v].views
SopChanged(v, e) ==
    /\ IsVersion(e)'
    /\ \/ /\ version[v].status = "draft" /\ e.revision > version[v].revision
          /\ e.status = "draft" \/ SopTurned(v, e, "draft", "published")
       \/ SopTurned(v, e, "published", "archived") \/ SopTurned(v, e, "archived", "published")
    /\ version' = [version EXCEPT ![v] = e]
SopWritten ==
    \/ version' = version
    \/ \E e : SopStarted(e)
    \/ \E v \in DOMAIN version : \E e : SopChanged(v, e)

Counted ==     \* time goes on, and so do the numbers of views and objects
    /\ now' \in Nat /\ stored' = [views |-> stored'.views, keys |-> stored'.keys]
    /\ stored'.views \in Nat /\ stored'.keys \in Nat /\ stored.views <= stored'.views

LEMMA SopStartedFacts ==
    ASSUME VersionsHold, NEW e, SopStarted(e)
    PROVE  /\ IsSeq(version') /\ DOMAIN version \subseteq DOMAIN version'
           /\ Len(version) + 1 \in DOMAIN version' /\ version'[Len(version) + 1] = e
           /\ \A v \in DOMAIN version : version'[v] = version[v] /\ v # Len(version) + 1
           /\ \A v \in DOMAIN version' : v # Len(version) + 1 => v \in DOMAIN version
<1> DEFINE n == Len(version)
<1>1. /\ n \in Nat /\ DOMAIN version = 1..n /\ IsSeq(version') /\ DOMAIN version' = 1..(n + 1)
      /\ \A v \in 1..(n + 1) : version'[v] = IF v = n + 1 THEN e ELSE version[v]
  BY AppendFacts, SeqFacts DEF VersionsHold, SopStarted
<1> HIDE DEF n
<1>2. \A v \in 1..(n + 1) : v # n + 1 => v \in 1..n
  BY <1>1
<1>3. 1..n \subseteq 1..(n + 1) /\ n + 1 \in 1..(n + 1) /\ n + 1 \notin 1..n
  BY <1>1
<1> QED
  BY <1>1, <1>2, <1>3 DEF n

LEMMA SopChangedFacts ==
    ASSUME VersionsHold, NEW v \in DOMAIN version, NEW e, SopChanged(v, e)
    PROVE  /\ IsSeq(version') /\ DOMAIN version' = DOMAIN version /\ version'[v] = e
           /\ \A w \in DOMAIN version : w # v => version'[w] = version[w]
<1>1. version' = [version EXCEPT ![v] = e] /\ IsSeq(version)
  BY DEF VersionsHold, SopChanged
<1>2. IsSeq(version') /\ DOMAIN version' = DOMAIN version
  BY <1>1, ExceptFacts
<1> QED
  BY <1>1, <1>2

LEMMA VersionStands ==
    ASSUME VersionsHold, Counted, NEW e, IsVersion(e) PROVE IsVersion(e)'
<1>1. stored.views \in Nat /\ stored'.views \in Nat /\ stored.views <= stored'.views
  BY DEF VersionsHold, Counted
<1>2. 0..stored.views \subseteq 0..stored'.views
  BY <1>1
<1> QED
  BY <1>2 DEF IsVersion

(* What was there stays there, and a draft that is not as it was has a later *)
(* revision.                                                                 *)
Onward(v) ==
    /\ version'[v].status = "draft" => version[v].status = "draft"
    /\ \/ version'[v] = version[v]
       \/ version'[v].status = "draft" => version'[v].revision > version[v].revision

LEMMA SopWrittenKeeps ==
    ASSUME VersionsHold, Counted, SopWritten
    PROVE  /\ VersionsHold' /\ DOMAIN version \subseteq DOMAIN version'
           /\ \A v \in DOMAIN version : Onward(v)
<1>1. \A o : IsVersion(o) => IsVersion(o)'
  BY VersionStands
<1>2. \A w \in DOMAIN version : IsVersion(version[w])
  BY DEF VersionsHold
<1>3. \A o : IsVersion(o)' <=>
         /\ o = [status |-> o.status, revision |-> o.revision, views |-> o.views]
         /\ o.revision \in Nat /\ IsViews(o.views)
         /\ \A id \in DOMAIN o.views : id \in 0..stored'.views
  BY DEF IsVersion
<1> DEFINE StayVersions == /\ IsSeq(version') /\ DOMAIN version \subseteq DOMAIN version'
                           /\ \A w \in DOMAIN version' : IsVersion(version[w])'
                           /\ \A w \in DOMAIN version : Onward(w)
                           /\ \A w, x \in DOMAIN version' :
                              version'[w].status = "draft" /\ version'[x].status = "draft" => w = x
<1>4. ASSUME version' = version PROVE StayVersions
  <2>1. \A w \in DOMAIN version' : IsVersion(version[w])'
    BY <1>1, <1>2, <1>3, <1>4
  <2> QED
    BY <1>4, <2>1 DEF VersionsHold, Onward
<1>5. ASSUME NEW e, SopStarted(e) PROVE StayVersions
  <2>1. IsVersion(e)' /\ e.status = "draft" /\ \A w \in DOMAIN version : version[w].status # "draft"
    BY <1>1, <1>5 DEF SopStarted
  <2>2. ASSUME NEW w \in DOMAIN version' PROVE IsVersion(version[w])'
    BY <1>1, <1>2, <1>3, <1>5, <2>1, SopStartedFacts
  <2> QED
    BY <1>5, <2>1, <2>2, SopStartedFacts DEF Onward
<1>6. ASSUME NEW v \in DOMAIN version, NEW e, SopChanged(v, e) PROVE StayVersions
  <2>1. /\ IsVersion(e)'
        /\ e.status = "draft" => version[v].status = "draft"
        /\ e.status = "draft" => e.revision > version[v].revision
    BY <1>6 DEF SopChanged, SopTurned
  <2>2. /\ IsSeq(version') /\ DOMAIN version' = DOMAIN version /\ version'[v] = e
        /\ \A w \in DOMAIN version : w # v => version'[w] = version[w]
    BY <1>6, SopChangedFacts
  <2>3. ASSUME NEW w \in DOMAIN version' PROVE IsVersion(version[w])'
    <3>1. CASE w = v
      BY <1>3, <2>1, <2>2, <3>1
    <3>2. CASE w # v
      BY <1>1, <1>2, <1>3, <2>2, <3>2
    <3> QED
      BY <3>1, <3>2
  <2>4. \A w \in DOMAIN version : Onward(w)
    BY <2>1, <2>2 DEF Onward
  <2>5. \A w \in DOMAIN version : version'[w].status = "draft" => version[w].status = "draft"
    BY <2>4 DEF Onward
  <2> QED
    BY <2>2, <2>3, <2>4, <2>5 DEF VersionsHold
<1>7. StayVersions
  BY <1>4, <1>5, <1>6 DEF SopWritten
<1> QED
  BY <1>7 DEF VersionsHold, Counted

(* Pages stay true, or are read anew. *)
LEMMA PagesKept ==
    ASSUME VersionsHold, PagesHold, Counted, SopWritten,
           page' = [e \in Editors |-> page'[e]],
           \A e \in Editors : page'[e] = page[e] \/ IsPage(page[e])'
    PROVE  PagesHold'
<1>1. ASSUME NEW p, IsPage(p) PROVE IsPage(p)'
  <2>1. CASE p = NoPage
    BY <2>1 DEF IsPage
  <2>2. CASE p # NoPage
    <3>1. PICK v : /\ v = p.version /\ p.stage \in {"row", "ready"} /\ v \in DOMAIN version
                   /\ version[v].status = "draft" =>
                          /\ p.revision \in Nat /\ p.revision <= version[v].revision
                          /\ p.stage = "ready" /\ p.revision = version[v].revision
                                 => p.views = version[v].views
      BY <1>1, <2>2 DEF IsPage
    <3>2. Onward(v) /\ v \in DOMAIN version' /\ VersionsHold'
      BY <3>1, SopWrittenKeeps
    <3>3. version[v].revision \in Nat /\ version'[v].revision \in Nat
      BY <3>1, <3>2 DEF VersionsHold, IsVersion
    <3>4. version'[v].status = "draft" =>
              /\ p.revision \in Nat /\ p.revision <= version'[v].revision
              /\ p.stage = "ready" /\ p.revision = version'[v].revision
                     => p.views = version'[v].views
      <4>1. CASE version'[v] = version[v]
        BY <3>1, <4>1
      <4>2. CASE version'[v].status = "draft" => version'[v].revision > version[v].revision
        BY <3>1, <3>2, <3>3, <4>2 DEF Onward
      <4> QED
        BY <3>2, <4>1, <4>2 DEF Onward
    <3> QED
      BY <3>1, <3>2, <3>4 DEF IsPage
  <2> QED
    BY <2>1, <2>2
<1>2. ASSUME NEW e \in Editors PROVE IsPage(page[e])'
  <2>1. PICK p : p = page'[e]
    OBVIOUS
  <2>2. CASE page'[e] = page[e]
    <3>1. IsPage(p)
      BY <2>1, <2>2 DEF PagesHold
    <3>2. IsPage(p)'
      BY <1>1, <3>1
    <3> QED
      BY <2>1, <3>2
  <2> QED
    BY <2>2
<1> QED
  BY <1>2 DEF PagesHold

-----------------------------------------------------------------------------
(* A step after which nothing new holds a ticket and no object is shown      *)
(* anew: tickets stay consumed, but for those that brought nothing and are   *)
(* let go, and the bucket keeps what is shown.                               *)
TicketsHold == \A t \in Tickets : TicketKept(t)
ImagesHold == \A k : Depicted(k) => k \in objects /\ k.ticket \in Tickets

LEMMA TicketsStand ==
    ASSUME TicketsHold, ImagesHold,
           \A k : Depicted(k)' => Depicted(k),
           \A u \in Uploads, t \in Tickets : Holding(u, t)' => Holding(u, t),
           \A k : Depicted(k) => k \in objects',
           \A t \in Tickets : ticket[t].state = "consumed" =>
               \/ ticket'[t].state = "consumed"
               \/ /\ \A k : Depicted(k) => k.ticket # t
                  /\ \A u \in Uploads : ~Holding(u, t)'
    PROVE  TicketsHold' /\ ImagesHold'
<1>1. ASSUME NEW t \in Tickets PROVE TicketKept(t)'
  <2>1. TicketKept(t)
    BY DEF TicketsHold
  <2>2. ASSUME NEW k, Depicted(k)', k.ticket = t
        PROVE  /\ ticket'[t].state = "consumed"
               /\ \A u \in Uploads : ~Holding(u, t)'
               /\ \A j : Depicted(j)' /\ j.ticket = t => j = k
    <3>1. Depicted(k)
      BY <2>2
    <3>2. /\ ticket[t].state = "consumed" /\ \A u \in Uploads : ~Holding(u, t)
          /\ \A j : Depicted(j) /\ j.ticket = t => j = k
      BY <2>1, <2>2, <3>1 DEF TicketKept
    <3> QED
      BY <2>2, <3>1, <3>2
  <2>3. ASSUME NEW u \in Uploads, Holding(u, t)'
        PROVE  ticket'[t].state = "consumed" /\ \A w \in Uploads : Holding(w, t)' => w = u
    <3>1. Holding(u, t)
      BY <2>3
    <3>2. ticket[t].state = "consumed" /\ \A w \in Uploads : Holding(w, t) => w = u
      BY <2>1, <3>1 DEF TicketKept
    <3> QED
      BY <2>3, <3>1, <3>2
  <2> QED
    BY <2>2, <2>3 DEF TicketKept
<1>2. ImagesHold'
  BY DEF ImagesHold
<1> QED
  BY <1>1, <1>2 DEF TicketsHold

(* What a step has to leave, so that what is known of the rows stays known.  *)
RowsKept ==
    /\ page' = [e \in Editors |-> page'[e]]
    /\ \A e \in Editors : page'[e] = page[e] \/ IsPage(page[e])'
    /\ ticket' = [t \in Tickets |-> ticket'[t]]
    /\ \A t \in Tickets : \/ ticket'[t] = ticket[t]
                          \/ IsTicket(ticket[t])' /\ ticket'[t].state # "unused"
    /\ upload' = [u \in Uploads |-> upload'[u]]
    /\ \A u \in Uploads :
           \/ upload'[u] = upload[u] /\ (upload[u].stage = "promoted" => upload[u].key \in objects')
           \/ IsUpload(upload[u])'

LEMMA UploadStep ==
    ASSUME SopInv, SopWritten, Counted, RowsKept, TicketsHold', ImagesHold'
    PROVE  SopInv'
<1>1. VersionsHold' /\ PagesHold' /\ DOMAIN version \subseteq DOMAIN version'
  BY SopWrittenKeeps, PagesKept DEF SopInv, RowsKept
<1>2. ASSUME NEW t \in Tickets PROVE IsTicket(ticket[t])'
  <2>1. CASE ticket'[t] = ticket[t]
    <3>1. IsTicket(ticket[t])
      BY DEF SopInv, UploadsHold
    <3> QED
      BY <1>1, <2>1, <3>1 DEF IsTicket
  <2> QED
    BY <2>1 DEF RowsKept
<1>3. \A t \in Tickets : ticket[t].state # "unused" => ticket'[t].state # "unused"
  BY DEF RowsKept
<1>4. ASSUME NEW u \in Uploads PROVE IsUpload(upload[u])'
  <2>1. CASE upload'[u] = upload[u] /\ (upload[u].stage = "promoted" => upload[u].key \in objects')
    <3>1. PICK q : q = upload[u] /\ IsUpload(q)
      BY DEF SopInv, UploadsHold
    <3>2. CASE q = Idle
      BY <2>1, <3>1, <3>2 DEF IsUpload
    <3>3. CASE q.stage \in {"checked", "claimed"}
      <4>1. /\ q = [stage |-> q.stage, ticket |-> q.ticket, revision |-> q.revision]
            /\ q.ticket \in Tickets /\ ticket[q.ticket].state # "unused"
        BY <3>1, <3>3 DEF IsUpload, Idle
      <4> QED
        BY <1>3, <2>1, <3>1, <3>3, <4>1 DEF IsUpload
    <3>4. CASE q.stage = "promoted"
      <4>1. q.ticket \in Tickets /\ q.key \in objects' /\ q.key.ticket = q.ticket
        BY <2>1, <3>1, <3>4 DEF IsUpload, Idle
      <4> QED
        BY <2>1, <3>1, <3>4, <4>1 DEF IsUpload
    <3> QED
      BY <3>1, <3>2, <3>3, <3>4 DEF IsUpload
  <2> QED
    BY <2>1 DEF RowsKept
<1> QED
  BY <1>1, <1>2, <1>4 DEF SopInv, UploadsHold, RowsKept, TicketsHold, ImagesHold

(* What the invariant says of the rows that a step leaves alone. *)
LEMMA RowsAre ==
    ASSUME SopInv
    PROVE  /\ page = [e \in Editors |-> page[e]]
           /\ ticket = [t \in Tickets |-> ticket[t]] /\ DOMAIN ticket = Tickets
           /\ upload = [u \in Uploads |-> upload[u]] /\ DOMAIN upload = Uploads
           /\ \A t \in Tickets : IsTicket(ticket[t])
           /\ \A u \in Uploads : IsUpload(upload[u]) /\
                  (upload[u].stage = "promoted" => upload[u].key \in objects)
           /\ TicketsHold /\ ImagesHold
<1>1. \A u \in Uploads : upload[u].stage = "promoted" => upload[u].key \in objects
  BY DEF SopInv, UploadsHold, IsUpload, Idle
<1> QED
  BY <1>1 DEF SopInv, UploadsHold, PagesHold, TicketsHold, ImagesHold

-----------------------------------------------------------------------------
(* Steps that write versions and leave tickets, uploads and objects alone.   *)

LEMMA SopVersionStep ==
    ASSUME SopInv, Counted, SopWritten, UNCHANGED <<ticket, upload, objects>>,
           \A k : Depicted(k)' => Depicted(k),
           page' = [e \in Editors |-> page'[e]],
           \A e \in Editors : page'[e] = page[e] \/ IsPage(page[e])'
    PROVE  SopInv'
<1>1. RowsKept
  BY RowsAre DEF RowsKept
<1>2. \A u \in Uploads, t \in Tickets : Holding(u, t)' => Holding(u, t)
  BY DEF Holding
<1>3. \A k : Depicted(k) => k \in objects'
  BY RowsAre DEF ImagesHold
<1>4. TicketsHold' /\ ImagesHold'
  BY <1>2, <1>3, RowsAre, TicketsStand
<1> QED
  BY <1>1, <1>4, UploadStep

-----------------------------------------------------------------------------
(* The views of a draft change. *)

LEMMA ViewsChange ==
    ASSUME VersionsHold, Counted, NEW v \in DOMAIN version, version[v].status = "draft",
           NEW views, IsViews(views), \A id \in DOMAIN views : id \in 0..stored'.views,
           ChangeViews(v, views)
    PROVE  \E n : SopChanged(v, n) /\ n.views = views
<1>1. PICK old : old = version[v] /\ IsVersion(old)
  BY DEF VersionsHold
<1>2. PICK r : r = NextRevision(old.revision) /\ r \in Nat /\ r > old.revision
  BY <1>1, LaterStamp DEF IsVersion
<1>3. PICK n : n = [status |-> "draft", revision |-> r, views |-> views]
  OBVIOUS
<1>4. version' = [version EXCEPT ![v] = n]
  <2>1. old = [status |-> "draft", revision |-> old.revision, views |-> old.views]
    BY <1>1 DEF IsVersion
  <2>2. version' = [version EXCEPT ![v] = [[old EXCEPT !.views = views] EXCEPT !.revision = r]]
    BY <1>1, <1>2 DEF ChangeViews
  <2>3. PICK a, b : old = [status |-> "draft", revision |-> a, views |-> b]
    BY <2>1
  <2>4. PICK m : m = [old EXCEPT !.views = views]
    OBVIOUS
  <2>5. m = [status |-> "draft", revision |-> a, views |-> views]
    BY <2>3, <2>4
  <2>6. [m EXCEPT !.revision = r] = n
    BY <1>3, <2>5
  <2> QED
    BY <2>2, <2>4, <2>6
<1>5. IsVersion(n)'
  BY <1>2, <1>3 DEF IsVersion
<1>6. n.status = "draft" /\ n.revision > version[v].revision /\ n.views = views
  BY <1>1, <1>2, <1>3
<1>7. SopChanged(v, n)
  BY <1>4, <1>5, <1>6 DEF SopChanged
<1> QED
  BY <1>6, <1>7

LEMMA ShownAfter ==
    ASSUME VersionsHold, NEW v \in DOMAIN version, NEW n, SopChanged(v, n), NEW k, Depicted(k)'
    PROVE  Depicted(k) \/ k \in Shown(n.views)
<1>1. PICK w \in DOMAIN version' : k \in Shown(version'[w].views)
  BY DEF Depicted, Shown
<1>2. /\ DOMAIN version' = DOMAIN version /\ version'[v] = n
      /\ \A x \in DOMAIN version : x # v => version'[x] = version[x]
  BY SopChangedFacts
<1> QED
  BY <1>1, <1>2 DEF Depicted

LEMMA EditViewsStep ==
    ASSUME SopInv, NEW e \in Editors, MayEdit(e), NEW views, IsViews(views),
           \A id \in DOMAIN views : id \in 0..stored'.views,
           Shown(views) \subseteq Shown(ViewsOf(e)), Counted,
           EditViews(e, views)
    PROVE  SopWritten /\ SopInv'
<1>1. PICK v : v = page[e].version /\ v \in DOMAIN version
  BY DEF MayEdit, SopInv, PagesHold, IsPage, NoPage
<1>2. version[v].status = "draft" /\ ChangeViews(v, views)
  BY <1>1 DEF MayEdit, EditViews
<1>3. PICK n : SopChanged(v, n) /\ n.views = views
  BY <1>1, <1>2, ViewsChange DEF SopInv
<1>4. SopWritten
  BY <1>1, <1>3 DEF SopWritten
<1>5. \A k : Depicted(k)' => Depicted(k)
  BY <1>1, <1>3, ShownAfter DEF SopInv, Depicted, ViewsOf
<1>6. page' = [page EXCEPT ![e] = NoPage] /\ UNCHANGED <<ticket, upload, objects>>
  BY DEF EditViews
<1>7. /\ page' = [x \in Editors |-> page'[x]]
      /\ \A x \in Editors : page'[x] = page[x] \/ IsPage(page[x])'
  BY <1>6 DEF SopInv, PagesHold, IsPage
<1> QED
  BY <1>4, <1>5, <1>6, <1>7, SopVersionStep

(* What an editor sees of the views of the draft. *)
LEMMA EditedViews ==
    ASSUME SopInv, NEW e \in Editors, MayEdit(e)
    PROVE  /\ IsViews(ViewsOf(e)) /\ \A id \in DOMAIN ViewsOf(e) : id \in 0..stored.views
           /\ (UNCHANGED <<now, stored>> => Counted)
<1>1. PICK v : v = page[e].version /\ v \in DOMAIN version
  BY DEF MayEdit, SopInv, PagesHold, IsPage, NoPage
<1>2. IsVersion(version[v])
  BY <1>1 DEF SopInv, VersionsHold
<1> QED
  BY <1>1, <1>2 DEF IsVersion, ViewsOf, SopInv, VersionsHold, Counted

LEMMA UpdateVersionStep ==
    ASSUME SopInv, NEW e \in Editors, UpdateVersion(e) PROVE SopWritten /\ SopInv'
<1>1. MayEdit(e) /\ EditViews(e, ViewsOf(e)) /\ UNCHANGED <<now, stored>>
  BY DEF UpdateVersion, EditViews
<1>2. PICK views : views = ViewsOf(e)
  OBVIOUS
<1> QED
  BY <1>1, <1>2, EditedViews, EditViewsStep

LEMMA AddViewStep ==
    ASSUME SopInv, NEW e \in Editors, NEW entered, AddView(e, entered) PROVE SopWritten /\ SopInv'
<1>1. PICK old, id : old = ViewsOf(e) /\ id = stored.views + 1
  OBVIOUS
<1>2. PICK n \in Nat \ {0} : Places(old, n)
  BY <1>1, EditedViews DEF IsViews, AddView
<1>3. PICK view : view = View(entered, n + 1)
  OBVIOUS
<1>4. PICK new : new = [x \in DOMAIN old \cup {id} |-> IF x = id THEN view ELSE old[x]]
  OBVIOUS
<1>5. Max({old[x].sequence : x \in DOMAIN old} \cup {0}) = n
  BY <1>2, ViewsCounted, LargestPlace
<1>6. /\ MayEdit(e) /\ entered.role # RefFront /\ EditViews(e, new)
      /\ stored' = [stored EXCEPT !.views = id]
  BY <1>1, <1>3, <1>4, <1>5 DEF AddView
<1>7. /\ \A x \in DOMAIN old : x \in 0..stored.views /\ IsView(old[x])
      /\ stored.views \in Nat /\ stored.keys \in Nat /\ now \in Nat
      /\ stored = [views |-> stored.views, keys |-> stored.keys]
  BY <1>1, <1>6, EditedViews DEF SopInv, VersionsHold, IsViews
<1>8. Counted /\ stored'.views = id
  BY <1>1, <1>6, <1>7 DEF Counted, EditViews
<1>9. id \notin DOMAIN old /\ \A x \in DOMAIN new : x \in 0..stored'.views
  BY <1>1, <1>4, <1>7, <1>8
<1>10. IsView(view) /\ view.sequence = n + 1 /\ view.role # RefFront /\ view.images = <<>>
  <2>1. <<>> = [i \in 1..0 |-> (<<>>)[i]] /\ 0 \in Nat
    OBVIOUS
  <2>2. IsSeq(<<>>)
    BY <2>1 DEF IsSeq
  <2> QED
    BY <1>3, <1>6, <2>2 DEF View, IsView
<1>11. Places(new, n + 1)
  BY <1>2, <1>4, <1>9, <1>10, PlaceAdded
<1>12. IsViews(new)
  <2>1. \A x \in DOMAIN new : IsView(new[x])
    BY <1>4, <1>7, <1>10
  <2>2. n + 1 \in Nat \ {0}
    OBVIOUS
  <2> QED
    BY <1>11, <2>1, <2>2 DEF IsViews
<1>13. Shown(new) \subseteq Shown(old)
  <2>1. ToSet(<<>>) = {}
    BY DEF ToSet
  <2> QED
    BY <1>4, <1>9, <1>10, <2>1 DEF Shown
<1> QED
  BY <1>1, <1>6, <1>8, <1>9, <1>12, <1>13, EditViewsStep

(* One view gets another form or other images, and keeps its place. *)
Rewritten(new, old, id, view) == new = [old EXCEPT ![id] = view]
Refilled(new, old, id, shots) == new = [old EXCEPT ![id].images = shots]

LEMMA ViewRewritten ==
    ASSUME NEW old, IsViews(old), NEW id \in DOMAIN old, NEW view, IsView(view),
           view.sequence = old[id].sequence,
           view.role = RefFront <=> old[id].role = RefFront,
           NEW new, Rewritten(new, old, id, view)
    PROVE  IsViews(new) /\ Shown(new) \subseteq Shown(old) \cup ToSet(view.images)
<1>1. /\ DOMAIN new = DOMAIN old /\ new[id] = view
      /\ \A x \in DOMAIN old : x # id => new[x] = old[x]
  BY DEF Rewritten
<1>2. PICK n \in Nat \ {0} : Places(old, n)
  BY DEF IsViews
<1>3. Places(new, n)
  <2>1. \A x \in DOMAIN old : /\ new[x].sequence = old[x].sequence
                              /\ new[x].role = RefFront <=> old[x].role = RefFront
    BY <1>1
  <2> QED
    BY <1>1, <1>2, <2>1, PlacesStay
<1>4. \A x \in DOMAIN new : IsView(new[x])
  BY <1>1 DEF IsViews
<1>5. Shown(new) \subseteq Shown(old) \cup ToSet(view.images)
  BY <1>1 DEF Shown
<1> QED
  BY <1>3, <1>4, <1>5 DEF IsViews

LEMMA UpdateViewStep ==
    ASSUME SopInv, NEW e \in Editors, NEW id, NEW entered, UpdateView(e, id, entered)
    PROVE  SopWritten /\ SopInv'
<1>1. PICK old : /\ old = ViewsOf(e) /\ MayEdit(e) /\ id \in DOMAIN old
                 /\ IsViews(old) /\ (\A x \in DOMAIN old : x \in 0..stored.views)
                 /\ UNCHANGED <<now, stored>> /\ Counted
  BY EditedViews DEF UpdateView, EditViews
<1>2. PICK v : v = old[id] /\ IsView(v)
  BY <1>1 DEF IsViews
<1>3. PICK role : role = IF v.role = RefFront THEN RefFront ELSE "capture"
  OBVIOUS
<1>4. PICK view : view = [role |-> role, sound |-> entered.sound, multiple |-> FALSE,
                          sequence |-> v.sequence, images |-> v.images]
  OBVIOUS
<1>5. /\ IsView(view) /\ view.sequence = v.sequence /\ view.images = v.images
      /\ view.role = RefFront <=> v.role = RefFront
  BY <1>2, <1>3, <1>4 DEF IsView, RefFront
<1>6. PICK new : new = [old EXCEPT ![id] = view]
  OBVIOUS
<1>7. new = [old EXCEPT ![id].role = role, ![id].sound = entered.sound, ![id].multiple = FALSE]
  <2>1. PICK a, b, c, d, f :
            v = [role |-> a, sound |-> b, multiple |-> c, sequence |-> d, images |-> f]
    BY <1>2 DEF IsView
  <2>2. PICK w : w = [v EXCEPT !.role = role]
    OBVIOUS
  <2>3. w = [role |-> role, sound |-> b, multiple |-> c, sequence |-> d, images |-> f]
    BY <2>1, <2>2
  <2>4. PICK s, x : s = entered.sound /\ x = [w EXCEPT !.sound = s]
    OBVIOUS
  <2>5. x = [role |-> role, sound |-> s, multiple |-> c, sequence |-> d, images |-> f]
    BY <2>3, <2>4
  <2>6. PICK no : no = FALSE
    OBVIOUS
  <2>7. [x EXCEPT !.multiple = no]
            = [role |-> role, sound |-> s, multiple |-> no, sequence |-> d, images |-> f]
    BY <2>5
  <2>8. v.sequence = d /\ v.images = f
    BY <2>1
  <2>9. [x EXCEPT !.multiple = FALSE] = view
    BY <1>4, <2>4, <2>6, <2>7, <2>8, Zenon
  <2> QED
    BY <1>2, <1>6, <2>2, <2>4, <2>9
<1>8. EditViews(e, new)
  BY <1>1, <1>2, <1>3, <1>7 DEF UpdateView
<1>9. ToSet(v.images) \subseteq Shown(old)
  BY <1>1, <1>2 DEF Shown
<1>10. IsViews(new) /\ Shown(new) \subseteq Shown(old)
  <2>1. Rewritten(new, old, id, view)
    BY <1>6 DEF Rewritten
  <2> QED
    BY <1>1, <1>2, <1>5, <1>9, <2>1, ViewRewritten
<1>11. \A x \in DOMAIN new : x \in 0..stored'.views
  BY <1>1, <1>6
<1> QED
  BY <1>1, <1>8, <1>10, <1>11, EditViewsStep

(* What a new order makes of views: each keeps all but its place. *)
LEMMA OrderApplied ==
    ASSUME NEW old, \A x \in DOMAIN old : IsView(old[x]), NEW order, NEW new,
           new = ApplyOrder(old, order)
    PROVE  /\ DOMAIN new = DOMAIN old
           /\ \A x \in DOMAIN old : /\ IsView(new[x]) /\ new[x].sequence = order[x]
                                    /\ new[x].role = old[x].role
                                    /\ new[x].images = old[x].images
<1>1. new = [x \in DOMAIN old |-> [old[x] EXCEPT !.sequence = order[x]]]
  BY DEF ApplyOrder
<1>2. ASSUME NEW x \in DOMAIN old
      PROVE  /\ IsView(new[x]) /\ new[x].sequence = order[x]
             /\ new[x].role = old[x].role /\ new[x].images = old[x].images
  <2>1. PICK v : v = old[x] /\ IsView(v)
    OBVIOUS
  <2>2. PICK a, b, c, d, f :
            v = [role |-> a, sound |-> b, multiple |-> c, sequence |-> d, images |-> f]
    BY <2>1 DEF IsView
  <2>3. PICK k, w : k = order[x] /\ w = [v EXCEPT !.sequence = k]
    OBVIOUS
  <2>4. w = [role |-> a, sound |-> b, multiple |-> c, sequence |-> k, images |-> f]
    BY <2>2, <2>3
  <2>5. new[x] = w
    BY <1>1, <2>1, <2>3
  <2> QED
    BY <2>1, <2>2, <2>3, <2>4, <2>5 DEF IsView
<1> QED
  BY <1>1, <1>2

LEMMA DeleteViewStep ==
    ASSUME SopInv, NEW e \in Editors, NEW id, DeleteView(e, id)
    PROVE  SopWritten /\ SopInv'
<1>1. PICK old : /\ old = ViewsOf(e) /\ MayEdit(e) /\ id \in DOMAIN old
                 /\ IsViews(old) /\ (\A x \in DOMAIN old : x \in 0..stored.views)
                 /\ UNCHANGED <<now, stored>> /\ Counted /\ old[id].role # RefFront
  BY EditedViews DEF DeleteView, EditViews
<1>2. PICK left, order : left = Without(old, id) /\ order = InOrder(left)
  OBVIOUS
<1>3. DOMAIN left = DOMAIN old \ {id} /\ \A x \in DOMAIN left : left[x] = old[x]
  BY <1>2 DEF Without
<1>4. PICK new : new = ApplyOrder(left, order)
  OBVIOUS
<1>5. \A x \in DOMAIN left : IsView(left[x])
  BY <1>1, <1>3 DEF IsViews
<1>6. /\ DOMAIN new = DOMAIN old \ {id}
      /\ \A x \in DOMAIN new : /\ IsView(new[x]) /\ new[x].sequence = order[x]
                               /\ new[x].role = old[x].role /\ new[x].images = old[x].images
  BY <1>3, <1>4, <1>5, OrderApplied
<1>7. PICK n \in Nat \ {0} : Places(old, n)
  BY <1>1 DEF IsViews
<1>8. n - 1 \in Nat \ {0} /\ Places(new, n - 1)
  BY <1>1, <1>2, <1>6, <1>7, PlacesClosed
<1>9. IsViews(new)
  BY <1>6, <1>8 DEF IsViews
<1>10. Shown(new) \subseteq Shown(old) /\ \A x \in DOMAIN new : x \in 0..stored'.views
  BY <1>1, <1>6 DEF Shown
<1>11. EditViews(e, new)
  BY <1>1, <1>2, <1>4 DEF DeleteView
<1> QED
  BY <1>1, <1>9, <1>10, <1>11, EditViewsStep

LEMMA ReorderStep ==
    ASSUME SopInv, NEW e \in Editors, Reorder(e)
    PROVE  SopWritten /\ SopInv'
<1>1. PICK old : /\ old = ViewsOf(e) /\ MayEdit(e)
                 /\ IsViews(old) /\ (\A x \in DOMAIN old : x \in 0..stored.views)
  BY EditedViews DEF Reorder
<1>2. PICK order \in ViewOrders(old) :
          /\ \E id \in DOMAIN old : order[id] = 1 /\ old[id].role = RefFront
          /\ EditViews(e, ApplyOrder(old, order))
  BY <1>1 DEF Reorder
<1>3. UNCHANGED <<now, stored>> /\ Counted
  BY <1>1, <1>2, EditedViews DEF Reorder, EditViews
<1>4. PICK id \in DOMAIN old : order[id] = 1 /\ old[id].role = RefFront
  BY <1>2
<1>5. PICK new : new = ApplyOrder(old, order)
  OBVIOUS
<1>6. /\ DOMAIN new = DOMAIN old
      /\ \A x \in DOMAIN old : /\ IsView(new[x]) /\ new[x].sequence = order[x]
                               /\ new[x].role = old[x].role /\ new[x].images = old[x].images
  BY <1>1, <1>5, OrderApplied DEF IsViews
<1>7. PICK n \in Nat \ {0} : Places(old, n)
  BY <1>1 DEF IsViews
<1>8. Places(new, n)
  BY <1>4, <1>6, <1>7, PlacesOrdered
<1>9. IsViews(new)
  BY <1>6, <1>7, <1>8 DEF IsViews
<1>10. Shown(new) \subseteq Shown(old) /\ \A x \in DOMAIN new : x \in 0..stored'.views
  BY <1>1, <1>3, <1>6 DEF Shown
<1> QED
  BY <1>1, <1>2, <1>3, <1>5, <1>9, <1>10, EditViewsStep

(* Images of a view are turned around, or one is taken out. *)
LEMMA ImagesChange ==
    ASSUME NEW old, IsViews(old), NEW id \in DOMAIN old, NEW shots, IsSeq(shots), NEW new,
           Refilled(new, old, id, shots)
    PROVE  IsViews(new) /\ Shown(new) \subseteq Shown(old) \cup ToSet(shots)
<1>1. PICK v : v = old[id] /\ IsView(v)
  BY DEF IsViews
<1>2. PICK view : view = [v EXCEPT !.images = shots]
  OBVIOUS
<1>3. PICK a, b, c, d, f :
            v = [role |-> a, sound |-> b, multiple |-> c, sequence |-> d, images |-> f]
  BY <1>1 DEF IsView
<1>4. /\ IsView(view) /\ view.sequence = v.sequence /\ view.images = shots
      /\ view.role = RefFront <=> v.role = RefFront
  BY <1>2, <1>3 DEF IsView
<1>5. Rewritten(new, old, id, view)
  BY <1>1, <1>2 DEF Refilled, Rewritten
<1> QED
  BY <1>1, <1>4, <1>5, ViewRewritten

LEMMA ReorderReferenceImagesStep ==
    ASSUME SopInv, NEW e \in Editors, NEW id, ReorderReferenceImages(e, id)
    PROVE  SopWritten /\ SopInv'
<1>1. PICK old : /\ old = ViewsOf(e) /\ MayEdit(e) /\ id \in DOMAIN old
                 /\ IsViews(old) /\ (\A x \in DOMAIN old : x \in 0..stored.views)
                 /\ UNCHANGED <<now, stored>> /\ Counted
  BY EditedViews DEF ReorderReferenceImages, EditViews
<1>2. PICK shots : /\ shots = Reverse(old[id].images) /\ IsSeq(shots)
                    /\ ToSet(shots) \subseteq Shown(old)
  <2>1. IsSeq(old[id].images) /\ ToSet(old[id].images) \subseteq Shown(old)
    BY <1>1 DEF IsViews, IsView, Shown
  <2> QED
    BY <2>1, ReverseFacts
<1>3. PICK new : new = [old EXCEPT ![id].images = shots] /\ Refilled(new, old, id, shots)
  BY DEF Refilled
<1>4. IsViews(new) /\ Shown(new) \subseteq Shown(old)
  <2>1. IsViews(old) /\ id \in DOMAIN old /\ IsSeq(shots) /\ Refilled(new, old, id, shots)
    BY <1>1, <1>2, <1>3
  <2>2. IsViews(new) /\ Shown(new) \subseteq Shown(old) \cup ToSet(shots)
    BY <2>1, ImagesChange
  <2> QED
    BY <1>2, <2>2
<1>5. EditViews(e, new) /\ \A x \in DOMAIN new : x \in 0..stored'.views
  BY <1>1, <1>2, <1>3 DEF ReorderReferenceImages
<1> QED
  BY <1>1, <1>4, <1>5, EditViewsStep

LEMMA DeleteReferenceImageStep ==
    ASSUME SopInv, NEW e \in Editors, NEW id, NEW place, DeleteReferenceImage(e, id, place)
    PROVE  SopWritten /\ SopInv'
<1>1. PICK old : /\ old = ViewsOf(e) /\ MayEdit(e)
                 /\ id \in DOMAIN old /\ place \in DOMAIN old[id].images
                 /\ IsViews(old) /\ (\A x \in DOMAIN old : x \in 0..stored.views)
                 /\ UNCHANGED <<now, stored>> /\ Counted
  BY EditedViews DEF DeleteReferenceImage, DropImage
<1>2. PICK shots : /\ shots = RemoveAt(old[id].images, place) /\ IsSeq(shots)
                    /\ ToSet(shots) \subseteq Shown(old)
  <2>1. IsSeq(old[id].images) /\ ToSet(old[id].images) \subseteq Shown(old)
    BY <1>1 DEF IsViews, IsView, Shown
  <2> QED
    BY <1>1, <2>1, RemoveFacts
<1>3. PICK new : new = [old EXCEPT ![id].images = shots] /\ Refilled(new, old, id, shots)
  BY DEF Refilled
<1>4. IsViews(new) /\ Shown(new) \subseteq Shown(old)
  <2>1. IsViews(old) /\ id \in DOMAIN old /\ IsSeq(shots) /\ Refilled(new, old, id, shots)
    BY <1>1, <1>2, <1>3
  <2>2. IsViews(new) /\ Shown(new) \subseteq Shown(old) \cup ToSet(shots)
    BY <2>1, ImagesChange
  <2> QED
    BY <1>2, <2>2
<1>5. EditViews(e, new) /\ \A x \in DOMAIN new : x \in 0..stored'.views
  BY <1>1, <1>2, <1>3 DEF DeleteReferenceImage, DropImage, EditViews
<1> QED
  BY <1>1, <1>4, <1>5, EditViewsStep

-----------------------------------------------------------------------------
(* The life of a version *)

(* The same version with another status and revision. *)
Stamped(n, old, status, r) == n = [old EXCEPT !.status = status, !.revision = r]

LEMMA StampFacts ==
    ASSUME NEW old, IsVersion(old), NEW status, NEW r \in Nat, NEW n, Stamped(n, old, status, r)
    PROVE  IsVersion(n) /\ n.status = status /\ n.revision = r /\ n.views = old.views
<1>1. PICK a, b, c : old = [status |-> a, revision |-> b, views |-> c]
  BY DEF IsVersion
<1>2. PICK m : m = [old EXCEPT !.status = status]
  OBVIOUS
<1>3. m = [status |-> status, revision |-> b, views |-> c]
  BY <1>1, <1>2
<1>4. [m EXCEPT !.revision = r] = [status |-> status, revision |-> r, views |-> c]
  BY <1>3
<1>5. n = [status |-> status, revision |-> r, views |-> c]
  BY <1>2, <1>4 DEF Stamped
<1> QED
  BY <1>1, <1>5 DEF IsVersion

SopTurns(v, from, to, r) ==
    /\ version[v].status = from
    /\ version' = [version EXCEPT ![v].status = to, ![v].revision = r]

LEMMA TurnFacts ==
    ASSUME VersionsHold, UNCHANGED <<now, stored>>, NEW v \in DOMAIN version, NEW from, NEW to,
           NEW r \in Nat, SopTurns(v, from, to, r),
           from = "draft" => to = "published" /\ r > version[v].revision,
           from # "draft" =>
               <<from, to>> \in {<<"published", "archived">>, <<"archived", "published">>}
    PROVE  Counted /\ SopWritten /\ \A k : Depicted(k)' => Depicted(k)
<1>1. PICK old : old = version[v] /\ IsVersion(old)
  BY DEF VersionsHold
<1>2. PICK n : n = [old EXCEPT !.status = to, !.revision = r] /\ Stamped(n, old, to, r)
  BY DEF Stamped
<1>3. IsVersion(n) /\ n.status = to /\ n.revision = r /\ n.views = old.views
  BY <1>1, <1>2, StampFacts
<1>4. version' = [version EXCEPT ![v] = n]
  BY <1>1, <1>2 DEF SopTurns
<1>5. IsVersion(n)'
  BY <1>3 DEF IsVersion
<1>6. SopChanged(v, n)
  BY <1>1, <1>3, <1>4, <1>5 DEF SopChanged, SopTurns, SopTurned
<1>7. \A k : Depicted(k)' => Depicted(k)
  BY <1>1, <1>3, <1>6, ShownAfter DEF Depicted
<1> QED
  BY <1>6, <1>7 DEF SopWritten, Counted, VersionsHold

LEMMA PublishStep ==
    ASSUME SopInv, NEW e \in Editors, Publish(e) PROVE SopWritten /\ SopInv'
<1>1. PICK v : /\ v = page[e].version /\ v \in DOMAIN version /\ version[v].status = "draft"
               /\ version[v].revision \in Nat
  BY DEF Publish, MayEdit, SopInv, PagesHold, IsPage, NoPage, VersionsHold, IsVersion
<1>2. PICK r : r = NextRevision(version[v].revision) /\ r \in Nat /\ r > version[v].revision
  BY <1>1, LaterStamp DEF SopInv
<1>3. SopTurns(v, "draft", "published", r)
  BY <1>1, <1>2 DEF Publish, SopTurns
<1>4. UNCHANGED <<now, ticket, upload, objects, stored>> /\ page' = [page EXCEPT ![e] = NoPage]
  BY DEF Publish
<1>5. Counted /\ SopWritten /\ \A k : Depicted(k)' => Depicted(k)
  BY <1>1, <1>2, <1>3, <1>4, TurnFacts DEF SopInv
<1>6. /\ page' = [x \in Editors |-> page'[x]]
      /\ \A x \in Editors : page'[x] = page[x] \/ IsPage(page[x])'
  BY <1>4 DEF SopInv, PagesHold, IsPage
<1> QED
  BY <1>4, <1>5, <1>6, SopVersionStep

LEMMA ShelveStep ==
    ASSUME SopInv, NEW v \in DOMAIN version, Archive(v) \/ Restore(v) PROVE SopWritten /\ SopInv'
<1>1. UNCHANGED <<now, page, ticket, upload, objects, stored>> /\ now \in Nat
  BY DEF Archive, Restore, SopInv, VersionsHold
<1>2. SopTurns(v, "published", "archived", now) \/ SopTurns(v, "archived", "published", now)
  BY DEF Archive, Restore, SopTurns
<1>3. Counted /\ SopWritten /\ \A k : Depicted(k)' => Depicted(k)
  <2>1. CASE SopTurns(v, "published", "archived", now)
    BY <1>1, <2>1, TurnFacts DEF SopInv
  <2>2. CASE SopTurns(v, "archived", "published", now)
    BY <1>1, <2>2, TurnFacts DEF SopInv
  <2> QED
    BY <1>2, <2>1, <2>2
<1>4. page' = [x \in Editors |-> page'[x]]
  BY <1>1 DEF SopInv, PagesHold
<1> QED
  BY <1>1, <1>3, <1>4, SopVersionStep

LEMMA ShownAtStart ==
    ASSUME VersionsHold, NEW n, SopStarted(n), NEW k, Depicted(k)'
    PROVE  Depicted(k) \/ k \in Shown(n.views)
<1>1. PICK w \in DOMAIN version' : k \in Shown(version'[w].views)
  BY DEF Depicted, Shown
<1> QED
  BY <1>1, SopStartedFacts DEF Depicted

LEMMA StartStep ==
    ASSUME SopInv, NEW n, SopStarted(n), \A k \in Shown(n.views) : Depicted(k),
           UNCHANGED <<now, page, ticket, upload, objects, stored>>
    PROVE  SopWritten /\ SopInv'
<1>1. \A k : Depicted(k)' => Depicted(k)
  BY ShownAtStart DEF SopInv
<1>2. SopWritten /\ Counted
  BY DEF SopWritten, Counted, SopInv, VersionsHold
<1>3. page' = [x \in Editors |-> page'[x]]
  BY DEF SopInv, PagesHold
<1> QED
  BY <1>1, <1>2, <1>3, SopVersionStep

LEMMA CreateStep == ASSUME SopInv, CreateSOP PROVE SopWritten /\ SopInv'
<1>1. PICK views : views = [id \in {0} |-> FrontView]
  OBVIOUS
<1>2. PICK n : n = [status |-> "draft", revision |-> now, views |-> views]
  OBVIOUS
<1>3. version = <<>> /\ version' = <<n>> /\ UNCHANGED <<now, page, ticket, upload, objects, stored>>
  BY <1>1, <1>2 DEF CreateSOP
<1>4. FrontView.images = <<>> /\ FrontView.role = RefFront /\ FrontView.sequence = 1
  BY DEF FrontView, View
<1>5. IsView(FrontView)
  <2>1. <<>> = [i \in 1..0 |-> (<<>>)[i]] /\ 0 \in Nat
    OBVIOUS
  <2>2. IsSeq(<<>>)
    BY <2>1 DEF IsSeq
  <2> QED
    BY <2>2 DEF FrontView, View, IsView
<1> HIDE DEF FrontView
<1>6. IsViews(views)
  <2>1. Places(views, 1)
    BY <1>1, <1>4 DEF Places
  <2>2. 1 \in Nat \ {0}
    OBVIOUS
  <2> QED
    BY <1>1, <1>5, <2>1, <2>2 DEF IsViews
<1>7. now \in Nat /\ 0 \in 0..stored.views
  BY DEF SopInv, VersionsHold
<1>8. IsVersion(n)
  BY <1>1, <1>2, <1>6, <1>7 DEF IsVersion
<1>9. SopStarted(n)
  BY <1>2, <1>3, <1>8 DEF SopStarted
<1>10. Shown(n.views) = {}
  BY <1>1, <1>2, <1>4 DEF Shown, ToSet
<1> QED
  BY <1>3, <1>9, <1>10, StartStep

LEMMA CopyVersionStep ==
    ASSUME SopInv, NEW v \in DOMAIN version, CopyVersion(v) PROVE SopWritten /\ SopInv'
<1>1. PICK old : old = version[v] /\ IsVersion(old) /\ now \in Nat
  BY DEF SopInv, VersionsHold
<1>2. PICK n : n = [old EXCEPT !.status = "draft", !.revision = now]
                /\ Stamped(n, old, "draft", now)
  BY DEF Stamped
<1>3. IsVersion(n) /\ n.status = "draft" /\ n.views = old.views
  BY <1>1, <1>2, StampFacts
<1>4. SopStarted(n)
  BY <1>1, <1>2, <1>3 DEF CopyVersion, SopStarted
<1>5. \A k \in Shown(n.views) : Depicted(k)
  BY <1>1, <1>3 DEF Depicted
<1> QED
  BY <1>4, <1>5, StartStep DEF CopyVersion

-----------------------------------------------------------------------------
(* Reading, and time *)

LEMMA ReadStep ==
    ASSUME SopInv, NEW e \in Editors, NEW p, IsPage(p),
           page' = [page EXCEPT ![e] = p],
           UNCHANGED <<version, now, ticket, upload, objects, stored>>
    PROVE  SopWritten /\ SopInv'
<1>1. SopWritten /\ Counted
  BY DEF SopWritten, Counted, SopInv, VersionsHold
<1>2. IsPage(p)'
  BY DEF IsPage
<1>3. /\ page' = [x \in Editors |-> page'[x]]
      /\ \A x \in Editors : page'[x] = page[x] \/ IsPage(page[x])'
  BY <1>2 DEF SopInv, PagesHold, IsPage
<1>4. \A k : Depicted(k)' => Depicted(k)
  BY DEF Depicted
<1> QED
  BY <1>1, <1>3, <1>4, SopVersionStep

LEMMA ReadSteps ==
    ASSUME SopInv, NEW e \in Editors,
           (\E v \in DOMAIN version : ReadRow(e, v)) \/ ReadViews(e) \/ Leave(e)
    PROVE  SopWritten /\ SopInv'
<1>1. ASSUME NEW v \in DOMAIN version, ReadRow(e, v) PROVE SopWritten /\ SopInv'
  <2>1. PICK p : p = [stage |-> "row", version |-> v, revision |-> version[v].revision]
    OBVIOUS
  <2>2. p.stage = "row" /\ p.version = v /\ p.revision = version[v].revision /\ p.revision \in Nat
    BY <2>1 DEF SopInv, VersionsHold, IsVersion
  <2>3. IsPage(p)
    BY <2>2 DEF IsPage
  <2> QED
    BY <1>1, <2>1, <2>3, ReadStep DEF ReadRow
<1>2. CASE ReadViews(e)
  <2>1. PICK old : old = page[e] /\ IsPage(old) /\ old.stage = "row"
    BY <1>2 DEF ReadViews, SopInv, PagesHold
  <2>2. PICK p : p = [stage |-> "ready", version |-> old.version, revision |-> old.revision,
                      views |-> version[old.version].views]
    OBVIOUS
  <2>3. /\ p.stage = "ready" /\ p.version = old.version /\ p.revision = old.revision
        /\ p.views = version[old.version].views
    BY <2>2
  <2>4. IsPage(p)
    BY <2>1, <2>3 DEF IsPage, NoPage
  <2> QED
    BY <1>2, <2>1, <2>2, <2>4, ReadStep DEF ReadViews
<1>3. CASE Leave(e)
  BY <1>3, ReadStep DEF Leave, IsPage
<1> QED
  BY <1>1, <1>2, <1>3

LEMMA TickStep == ASSUME SopInv, Tick PROVE SopWritten /\ SopInv'
<1>1. SopWritten /\ Counted
  BY DEF Tick, SopWritten, Counted, SopInv, VersionsHold
<1>2. page' = [x \in Editors |-> page'[x]]
  BY DEF Tick, SopInv, PagesHold
<1>3. \A k : Depicted(k)' => Depicted(k)
  BY DEF Tick, Depicted
<1> QED
  BY <1>1, <1>2, <1>3, SopVersionStep DEF Tick

-----------------------------------------------------------------------------
(* Tickets and uploads *)

LEMMA Unwritten ==
    ASSUME SopInv, UNCHANGED <<version, now, stored>>
    PROVE  SopWritten /\ Counted /\ \A k : Depicted(k)' <=> Depicted(k)
  BY DEF SopWritten, Counted, SopInv, VersionsHold, Depicted

(* A ticket goes on, and stays consumed if it was. *)
LEMMA TicketStep ==
    ASSUME SopInv, NEW t \in Tickets, NEW e, IsTicket(e), e.state # "unused",
           ticket[t].state = "consumed" => e.state = "consumed",
           ticket' = [ticket EXCEPT ![t] = e],
           UNCHANGED <<version, now, page, upload, objects, stored>>
    PROVE  SopWritten /\ SopInv'
<1>1. SopWritten /\ Counted /\ \A k : Depicted(k)' <=> Depicted(k)
  BY Unwritten
<1>2. /\ ticket' = [x \in Tickets |-> ticket'[x]] /\ ticket'[t] = e
      /\ \A x \in Tickets : x # t => ticket'[x] = ticket[x]
  BY RowsAre
<1>3. IsTicket(ticket[t])'
  BY <1>2 DEF IsTicket
<1>4. RowsKept
  BY <1>2, <1>3, RowsAre DEF RowsKept
<1>5. \A u \in Uploads, x \in Tickets : Holding(u, x)' => Holding(u, x)
  BY DEF Holding
<1>6. \A k : Depicted(k) => k \in objects'
  BY RowsAre DEF ImagesHold
<1>7. \A x \in Tickets : ticket[x].state = "consumed" => ticket'[x].state = "consumed"
  BY <1>2
<1>8. TicketsHold' /\ ImagesHold'
  BY <1>1, <1>5, <1>6, <1>7, RowsAre, TicketsStand
<1> QED
  BY <1>1, <1>4, <1>8, UploadStep

LEMMA TicketSteps ==
    ASSUME SopInv, NEW t \in Tickets,
           \/ \E v \in DOMAIN version, id \in ViewIds : IssueTicket(t, v, id)
           \/ PutObject(t) \/ Expire(t)
    PROVE  SopWritten /\ SopInv'
<1>1. ASSUME NEW v \in DOMAIN version, NEW id, IssueTicket(t, v, id) PROVE SopWritten /\ SopInv'
  <2>1. PICK e : e = [state |-> "issued", version |-> v, view |-> id, object |-> FALSE]
    OBVIOUS
  <2>2. e.state = "issued" /\ IsTicket(e)
    BY <2>1 DEF IsTicket
  <2>3. ticket' = [ticket EXCEPT ![t] = e]
        /\ UNCHANGED <<version, now, page, upload, objects, stored>> /\ ticket[t].state # "consumed"
    BY <1>1, <2>1 DEF IssueTicket
  <2> QED
    BY <2>2, <2>3, TicketStep
<1>2. CASE PutObject(t)
  <2>1. PICK old : old = ticket[t] /\ IsTicket(old) /\ old.state # "unused"
    BY <1>2, RowsAre DEF PutObject
  <2>2. PICK e : e = [old EXCEPT !.object = TRUE]
    OBVIOUS
  <2>3. PICK a, b, c, d : old = [state |-> a, version |-> b, view |-> c, object |-> d]
                          /\ a \in {"issued", "expired", "consumed"} /\ b \in DOMAIN version
    <3>1. /\ old = [state |-> old.state, version |-> old.version, view |-> old.view,
                    object |-> old.object]
          /\ old.state \in {"issued", "expired", "consumed"} /\ old.version \in DOMAIN version
      BY <2>1 DEF IsTicket
    <3> QED
      BY <3>1
  <2>4. e = [state |-> a, version |-> b, view |-> c, object |-> TRUE]
    BY <2>2, <2>3
  <2>5. IsTicket(e) /\ e.state = old.state
    BY <2>3, <2>4 DEF IsTicket
  <2>6. ticket' = [ticket EXCEPT ![t] = e]
        /\ UNCHANGED <<version, now, page, upload, objects, stored>>
    BY <1>2, <2>1, <2>2 DEF PutObject
  <2> QED
    BY <2>1, <2>5, <2>6, TicketStep
<1>3. CASE Expire(t)
  <2>1. PICK old : old = ticket[t] /\ IsTicket(old) /\ old.state = "issued"
    BY <1>3, RowsAre DEF Expire
  <2>2. PICK e : e = [old EXCEPT !.state = "expired"]
    OBVIOUS
  <2>3. PICK a, b, c, d : old = [state |-> a, version |-> b, view |-> c, object |-> d]
                          /\ b \in DOMAIN version
    <3>1. /\ old = [state |-> old.state, version |-> old.version, view |-> old.view,
                    object |-> old.object]
          /\ old.state \in {"issued", "expired", "consumed"} /\ old.version \in DOMAIN version
      BY <2>1 DEF IsTicket
    <3> QED
      BY <3>1
  <2>4. e = [state |-> "expired", version |-> b, view |-> c, object |-> d]
    BY <2>2, <2>3
  <2>5. IsTicket(e) /\ e.state = "expired"
    BY <2>3, <2>4 DEF IsTicket
  <2>6. ticket' = [ticket EXCEPT ![t] = e]
        /\ UNCHANGED <<version, now, page, upload, objects, stored>>
    BY <1>3, <2>1, <2>2 DEF Expire
  <2> QED
    BY <2>1, <2>5, <2>6, TicketStep
<1> QED
  BY <1>1, <1>2, <1>3

(* What an upload in some stage says. *)
LEMMA UploadBrought ==
    ASSUME SopInv, NEW u \in Uploads, NEW stage, upload[u].stage = stage, stage # "idle"
    PROVE  /\ IsUpload(upload[u]) /\ upload[u] # Idle
           /\ stage \in {"checked", "claimed"} =>
                  /\ upload[u].ticket \in Tickets /\ ticket[upload[u].ticket].state # "unused"
           /\ stage = "promoted" =>
                  /\ upload[u].ticket \in Tickets /\ upload[u].key \in objects
                  /\ upload[u].key.ticket = upload[u].ticket
  BY RowsAre DEF IsUpload, Idle

(* An upload goes on without a claim. *)
LEMMA AdvanceStep ==
    ASSUME SopInv, NEW u \in Uploads, NEW q, IsUpload(q), q.stage \in {"idle", "checked"},
           upload' = [upload EXCEPT ![u] = q],
           page' = [e \in Editors |-> page'[e]],
           \A e \in Editors : page'[e] = page[e] \/ IsPage(page[e])',
           UNCHANGED <<version, now, ticket, objects, stored>>
    PROVE  SopWritten /\ SopInv'
<1>1. SopWritten /\ Counted /\ \A k : Depicted(k)' <=> Depicted(k)
  BY Unwritten
<1>2. /\ upload' = [x \in Uploads |-> upload'[x]] /\ upload'[u] = q
      /\ \A x \in Uploads : x # u => upload'[x] = upload[x]
  BY RowsAre
<1>3. IsUpload(upload[u])'
  BY <1>2 DEF IsUpload
<1>4. RowsKept
  BY <1>2, <1>3, RowsAre DEF RowsKept
<1>5. \A x \in Uploads, t \in Tickets : Holding(x, t)' => Holding(x, t)
  BY <1>2 DEF Holding
<1>6. \A k : Depicted(k) => k \in objects'
  BY RowsAre DEF ImagesHold
<1>7. TicketsHold' /\ ImagesHold'
  BY <1>1, <1>5, <1>6, RowsAre, TicketsStand
<1> QED
  BY <1>1, <1>4, <1>7, UploadStep

LEMMA CheckTicketStep ==
    ASSUME SopInv, NEW u \in Uploads, NEW e \in Editors, NEW t \in Tickets, CheckTicket(u, e, t)
    PROVE  SopWritten /\ SopInv'
<1>1. PICK q : q = [stage |-> "checked", ticket |-> t, revision |-> page[e].revision]
  OBVIOUS
<1>2. ticket[t].state = "issued" /\ upload' = [upload EXCEPT ![u] = q]
      /\ page' = [page EXCEPT ![e] = NoPage] /\ UNCHANGED <<version, now, ticket, objects, stored>>
  BY <1>1 DEF CheckTicket
<1>3. IsUpload(q) /\ q.stage = "checked"
  BY <1>1, <1>2 DEF IsUpload
<1>4. /\ page' = [x \in Editors |-> page'[x]]
      /\ \A x \in Editors : page'[x] = page[x] \/ IsPage(page[x])'
  BY <1>2, RowsAre DEF IsPage
<1> QED
  BY <1>2, <1>3, <1>4, AdvanceStep

LEMMA CrashStep == ASSUME SopInv, NEW u \in Uploads, Crash(u) PROVE SopWritten /\ SopInv'
<1>1. IsUpload(Idle) /\ Idle.stage = "idle"
  BY DEF IsUpload, Idle
<1>2. page' = [x \in Editors |-> page'[x]] /\ \A x \in Editors : page'[x] = page[x]
  BY RowsAre DEF Crash
<1> QED
  BY <1>1, <1>2, AdvanceStep DEF Crash

(* A claim that finds the ticket unconsumed holds it alone: it has brought   *)
(* nothing, and no one else holds it.                                        *)
LEMMA ClaimTicketStep ==
    ASSUME SopInv, NEW u \in Uploads, ClaimTicket(u) PROVE SopWritten /\ SopInv'
<1>1. PICK old : old = upload[u] /\ old.stage = "checked"
  BY DEF ClaimTicket
<1>2. /\ old = [stage |-> old.stage, ticket |-> old.ticket, revision |-> old.revision]
      /\ old.ticket \in Tickets /\ ticket[old.ticket].state # "unused"
  BY <1>1, RowsAre DEF IsUpload, Idle
<1>3. PICK t \in Tickets : t = old.ticket /\ ticket[t].state # "unused"
  BY <1>2
<1>4. UNCHANGED <<version, now, page, objects, stored>>
  BY DEF ClaimTicket
<1>5. CASE upload' = [upload EXCEPT ![u] = Idle] /\ UNCHANGED ticket
  <2>1. IsUpload(Idle) /\ Idle.stage = "idle"
    BY DEF IsUpload, Idle
  <2>2. page' = [x \in Editors |-> page'[x]] /\ \A x \in Editors : page'[x] = page[x]
    BY <1>4, RowsAre
  <2> QED
    BY <1>4, <1>5, <2>1, <2>2, AdvanceStep
<1>6. CASE ticket[t].state # "consumed"
  <2>1. PICK q : q = [old EXCEPT !.stage = "claimed"]
    OBVIOUS
  <2>2. q.stage = "claimed" /\ q.ticket = t /\ IsUpload(q)
    <3>1. PICK r : old = [stage |-> "checked", ticket |-> t, revision |-> r]
      BY <1>1, <1>2, <1>3
    <3>2. q = [stage |-> "claimed", ticket |-> t, revision |-> r]
      BY <2>1, <3>1
    <3> QED
      BY <1>3, <3>2 DEF IsUpload
  <2>3. PICK was : was = ticket[t] /\ IsTicket(was) /\ was.state # "unused"
    BY <1>3, RowsAre
  <2>4. PICK e : e = [was EXCEPT !.state = "consumed"]
    OBVIOUS
  <2>5. IsTicket(e) /\ e.state = "consumed"
    <3>1. /\ was = [state |-> was.state, version |-> was.version, view |-> was.view,
                    object |-> was.object]
          /\ was.version \in DOMAIN version
      BY <2>3 DEF IsTicket
    <3>2. PICK a, b, c, d : was = [state |-> a, version |-> b, view |-> c, object |-> d]
                            /\ b \in DOMAIN version
      BY <3>1
    <3>3. e = [state |-> "consumed", version |-> b, view |-> c, object |-> d]
      BY <2>4, <3>2
    <3> QED
      BY <3>2, <3>3 DEF IsTicket
  <2>6. upload' = [upload EXCEPT ![u] = q] /\ ticket' = [ticket EXCEPT ![t] = e]
    BY <1>1, <1>3, <1>6, <2>1, <2>3, <2>4 DEF ClaimTicket
  <2>7. /\ upload' = [x \in Uploads |-> upload'[x]] /\ upload'[u] = q
        /\ \A x \in Uploads : x # u => upload'[x] = upload[x]
        /\ ticket' = [x \in Tickets |-> ticket'[x]] /\ ticket'[t] = e
        /\ \A x \in Tickets : x # t => ticket'[x] = ticket[x]
    BY <2>6, RowsAre
  <2>8. SopWritten /\ Counted /\ \A k : Depicted(k)' <=> Depicted(k)
    BY <1>4, Unwritten
  <2>9. IsTicket(ticket[t])'
    BY <1>4, <2>5, <2>7 DEF IsTicket
  <2>10. IsUpload(upload[u])'
    BY <1>3, <2>2, <2>5, <2>7 DEF IsUpload, Idle
  <2>11. RowsKept
    BY <1>4, <2>5, <2>7, <2>9, <2>10, RowsAre DEF RowsKept
  <2>12. ImagesHold'
    BY <1>4, <2>8, RowsAre DEF ImagesHold
  <2>13. (\A k : Depicted(k) => k.ticket # t) /\ (\A x \in Uploads : ~Holding(x, t))
    BY <1>6, RowsAre DEF TicketsHold, TicketKept
  <2>14. \A x \in Uploads, s \in Tickets :
             Holding(x, s)' => (x = u /\ s = t) \/ (Holding(x, s) /\ s # t)
    BY <2>2, <2>7, <2>13 DEF Holding
  <2>15. ASSUME NEW s \in Tickets PROVE TicketKept(s)'
    <3>1. CASE s = t
      BY <2>5, <2>7, <2>8, <2>13, <2>14, <3>1 DEF TicketKept
    <3>2. CASE s # t
      <4>1. TicketKept(s) /\ ticket'[s] = ticket[s]
        BY <2>7, <3>2, RowsAre DEF TicketsHold
      <4>2. \A x \in Uploads : Holding(x, s)' => Holding(x, s)
        BY <2>14, <3>2
      <4> QED
        BY <2>8, <4>1, <4>2 DEF TicketKept
    <3> QED
      BY <3>1, <3>2
  <2> QED
    BY <2>8, <2>11, <2>12, <2>15, UploadStep DEF TicketsHold
<1> QED
  BY <1>1, <1>3, <1>5, <1>6 DEF ClaimTicket

(* A ticket with another state, or with or without its object. *)
LEMMA TicketRow ==
    ASSUME SopInv, NEW t \in Tickets, ticket[t].state # "unused",
           NEW e, \/ e = [ticket[t] EXCEPT !.state = "issued"]
                  \/ e = [ticket[t] EXCEPT !.object = FALSE]
    PROVE  /\ IsTicket(e) /\ e.state # "unused"
           /\ e = [ticket[t] EXCEPT !.object = FALSE] => e.state = ticket[t].state
<1>1. PICK was : was = ticket[t] /\ IsTicket(was) /\ was.state # "unused"
  BY RowsAre
<1>2. /\ was = [state |-> was.state, version |-> was.version, view |-> was.view,
                object |-> was.object]
      /\ was.state \in {"issued", "expired", "consumed"} /\ was.version \in DOMAIN version
  BY <1>1 DEF IsTicket
<1>3. PICK a, b, c, d : /\ was = [state |-> a, version |-> b, view |-> c, object |-> d]
                        /\ a \in {"issued", "expired", "consumed"} /\ b \in DOMAIN version
  BY <1>2
<1>4. CASE e = [was EXCEPT !.state = "issued"]
  <2>1. e = [state |-> "issued", version |-> b, view |-> c, object |-> d]
    BY <1>3, <1>4
  <2>2. IsTicket(e)
    BY <1>3, <2>1 DEF IsTicket
  <2>3. [was EXCEPT !.object = FALSE].state = a
    BY <1>3
  <2> QED
    BY <1>1, <1>3, <2>1, <2>2, <2>3
<1>5. CASE e = [was EXCEPT !.object = FALSE]
  <2>1. PICK no : no = FALSE
    OBVIOUS
  <2>2. e = [was EXCEPT !.object = no]
    BY <1>5, <2>1, Zenon
  <2>3. e = [state |-> a, version |-> b, view |-> c, object |-> no]
    BY <1>3, <2>2
  <2>4. IsTicket(e) /\ e.state = a
    BY <1>3, <2>3 DEF IsTicket
  <2> QED
    BY <1>1, <1>3, <2>4
<1> QED
  BY <1>1, <1>4, <1>5

LEMMA PromoteStep == ASSUME SopInv, NEW u \in Uploads, Promote(u) PROVE SopWritten /\ SopInv'
<1>1. PICK old : old = upload[u] /\ old.stage = "claimed"
  BY DEF Promote
<1>2. PICK t \in Tickets : t = old.ticket /\ ticket[t].state # "unused" /\ Holding(u, t)
  <2>1. old.ticket \in Tickets /\ ticket[old.ticket].state # "unused"
    BY <1>1, RowsAre DEF IsUpload, Idle
  <2> QED
    BY <1>1, <2>1 DEF Holding
<1>3. PICK key : key = [ticket |-> t, number |-> stored.keys + 1]
  OBVIOUS
<1>4. UNCHANGED <<version, now, page>> /\ stored' = [stored EXCEPT !.keys = @ + 1]
  BY DEF Promote
<1>5. SopWritten /\ Counted /\ \A k : Depicted(k)' <=> Depicted(k)
  <2>1. Counted
    BY <1>4 DEF Counted, SopInv, VersionsHold
  <2> QED
    BY <1>4, <2>1 DEF SopWritten, Depicted
<1>6. ticket[t].state = "consumed" /\ (\A k : Depicted(k) => k.ticket # t)
      /\ (\A x \in Uploads : Holding(x, t) => x = u)
  BY <1>2, RowsAre DEF TicketsHold, TicketKept
<1>7. PICK e, q : /\ ticket' = [ticket EXCEPT ![t] = e] /\ upload' = [upload EXCEPT ![u] = q]
                  /\ objects \subseteq objects' /\ IsTicket(e) /\ e.state # "unused"
                  /\ \/ /\ e.state = "consumed" /\ q.stage = "promoted" /\ q.ticket = t
                        /\ q.key = key /\ key \in objects'
                     \/ q = Idle
  <2>1. CASE /\ objects' = objects \cup {key} /\ ticket' = [ticket EXCEPT ![t].object = FALSE]
             /\ upload' = [upload EXCEPT ![u] = [stage |-> "promoted", ticket |-> t,
                                revision |-> @.revision, key |-> key]]
    <3>1. PICK e : e = [ticket[t] EXCEPT !.object = FALSE]
      OBVIOUS
    <3>2. IsTicket(e) /\ e.state = "consumed"
      BY <1>2, <1>6, <3>1, TicketRow
    <3>3. PICK q : q = [stage |-> "promoted", ticket |-> t, revision |-> old.revision, key |-> key]
      OBVIOUS
    <3>4. q.stage = "promoted" /\ q.ticket = t /\ q.key = key
      BY <3>3
    <3>5. upload' = [upload EXCEPT ![u] = q] /\ ticket' = [ticket EXCEPT ![t] = e]
      BY <1>1, <2>1, <3>1, <3>3
    <3> QED
      BY <2>1, <3>2, <3>4, <3>5
  <2>2. CASE /\ objects' \in {objects, objects \cup {key}}
             /\ ticket' = [ticket EXCEPT ![t].state = "issued"]
             /\ upload' = [upload EXCEPT ![u] = Idle]
    <3>1. PICK e : e = [ticket[t] EXCEPT !.state = "issued"]
      OBVIOUS
    <3>2. IsTicket(e) /\ e.state # "unused"
      BY <1>2, <3>1, TicketRow
    <3>3. ticket' = [ticket EXCEPT ![t] = e]
      BY <2>2, <3>1
    <3> QED
      BY <2>2, <3>2, <3>3
  <2> QED
    BY <1>1, <1>2, <1>3, <2>1, <2>2 DEF Promote
<1>8. /\ upload' = [x \in Uploads |-> upload'[x]] /\ upload'[u] = q
      /\ \A x \in Uploads : x # u => upload'[x] = upload[x]
      /\ ticket' = [x \in Tickets |-> ticket'[x]] /\ ticket'[t] = e
      /\ \A x \in Tickets : x # t => ticket'[x] = ticket[x]
  BY <1>7, RowsAre
<1>9. IsTicket(ticket[t])'
  BY <1>4, <1>7, <1>8 DEF IsTicket
<1>10. IsUpload(upload[u])'
  <2>1. key.ticket = t
    BY <1>3
  <2> QED
    BY <1>2, <1>7, <1>8, <2>1 DEF IsUpload
<1>11. RowsKept
  BY <1>4, <1>7, <1>8, <1>9, <1>10, RowsAre DEF RowsKept
<1>12. \A x \in Uploads, s \in Tickets : Holding(x, s)' => Holding(x, s)
  BY <1>2, <1>7, <1>8 DEF Holding, Idle
<1>13. \A k : Depicted(k) => k \in objects'
  BY <1>7, RowsAre DEF ImagesHold
<1>14. \A s \in Tickets : ticket[s].state = "consumed" =>
           \/ ticket'[s].state = "consumed"
           \/ (\A k : Depicted(k) => k.ticket # s) /\ \A x \in Uploads : ~Holding(x, s)'
  <2> SUFFICES ASSUME ticket'[t].state # "consumed"
               PROVE  \A x \in Uploads : ~Holding(x, t)'
    BY <1>6, <1>8
  <2>1. q = Idle
    BY <1>7, <1>8
  <2> QED
    BY <1>6, <1>8, <1>12, <2>1 DEF Holding, Idle
<1>15. TicketsHold' /\ ImagesHold'
  BY <1>5, <1>12, <1>13, <1>14, RowsAre, TicketsStand
<1> QED
  BY <1>5, <1>11, <1>15, UploadStep

(* The row of a promoted object is the first its ticket brings, and one that *)
(* comes too late removes an object that nothing shows.                      *)
LEMMA AddReferenceImageStep ==
    ASSUME SopInv, NEW u \in Uploads, AddReferenceImage(u) PROVE SopWritten /\ SopInv'
<1>1. PICK old : old = upload[u] /\ old.stage = "promoted"
  BY DEF AddReferenceImage
<1>2. PICK t : t = old.ticket
  OBVIOUS
<1>3. PICK key : key = old.key
  OBVIOUS
<1>4. /\ t = old.ticket /\ t \in Tickets /\ Holding(u, t)
      /\ key = old.key /\ key.ticket = t /\ key \in objects
  <2>1. old.ticket \in Tickets /\ old.key.ticket = old.ticket /\ old.key \in objects
    BY <1>1, RowsAre DEF IsUpload, Idle
  <2> QED
    BY <1>1, <1>2, <1>3, <2>1 DEF Holding
<1>5. /\ UNCHANGED <<now, page, ticket, stored>> /\ upload' = [upload EXCEPT ![u] = Idle]
  BY DEF AddReferenceImage
<1>6. /\ ticket[t].state = "consumed" /\ \A k : Depicted(k) => k.ticket # t
      /\ \A x \in Uploads : Holding(x, t) => x = u
  BY <1>4, RowsAre DEF TicketsHold, TicketKept
<1>7. Counted
  BY <1>5 DEF Counted, SopInv, VersionsHold
<1>8. /\ upload' = [x \in Uploads |-> upload'[x]] /\ upload'[u] = Idle
      /\ \A x \in Uploads : x # u => upload'[x] = upload[x]
  BY <1>5, RowsAre
<1>9. IsUpload(upload[u])'
  BY <1>8 DEF IsUpload
<1>10. \A x \in Uploads : x # u /\ upload[x].stage = "promoted" => upload[x].key \in objects \ {key}
  <2> SUFFICES ASSUME NEW x \in Uploads, x # u, upload[x].stage = "promoted"
               PROVE  upload[x].key \in objects /\ upload[x].key # key
    OBVIOUS
  <2>1. /\ upload[x].ticket \in Tickets /\ upload[x].key \in objects
        /\ upload[x].key.ticket = upload[x].ticket
    BY RowsAre, UploadBrought
  <2>2. upload[x].ticket # t
    BY <1>6 DEF Holding
  <2> QED
    BY <1>4, <2>1, <2>2
<1>11. \A x \in Uploads, s \in Tickets : Holding(x, s)' => x # u /\ s # t /\ Holding(x, s)
  BY <1>4, <1>6, <1>8 DEF Holding, Idle
<1>12. CASE objects' = objects \ {key} /\ UNCHANGED version
  <2>1. SopWritten /\ \A k : Depicted(k)' <=> Depicted(k)
    BY <1>12 DEF SopWritten, Depicted
  <2>2. RowsKept
    BY <1>5, <1>8, <1>9, <1>10, <1>12, RowsAre DEF RowsKept
  <2>3. \A k : Depicted(k) => k \in objects'
    BY <1>4, <1>6, <1>12, RowsAre DEF ImagesHold
  <2>4. TicketsHold' /\ ImagesHold'
    BY <1>5, <1>11, <2>1, <2>3, RowsAre, TicketsStand
  <2> QED
    BY <1>7, <2>1, <2>2, <2>4, UploadStep
<1>13. CASE ~(objects' = objects \ {key} /\ UNCHANGED version)
  <2>1. PICK v : v = ticket[t].version
    OBVIOUS
  <2>2. PICK id : id = ticket[t].view
    BY Zenon
  <2>3. /\ DraftView(v, id) /\ UNCHANGED objects
        /\ \E place \in 1..(Len(version[v].views[id].images) + 1) :
               ChangeViews(v, [version[v].views EXCEPT ![id].images = InsertAt(@, place, key)])
    BY <1>1, <1>4, <1>13, <2>1, <2>2 DEF AddReferenceImage
  <2>4. v \in DOMAIN version
    <3>1. IsTicket(ticket[t]) /\ ticket[t].state # "unused"
      BY <1>4, <1>6, RowsAre
    <3> QED
      BY <2>1, <3>1 DEF IsTicket
  <2>5. PICK views : /\ views = version[v].views /\ IsViews(views) /\ id \in DOMAIN views
                     /\ \A x \in DOMAIN views : x \in 0..stored'.views
    BY <1>5, <2>3, <2>4 DEF SopInv, VersionsHold, IsVersion, DraftView
  <2>6. PICK place \in 1..(Len(views[id].images) + 1) :
            ChangeViews(v, [views EXCEPT ![id].images = InsertAt(@, place, key)])
    BY <2>3, <2>5
  <2>7. IsSeq(views[id].images) /\ ToSet(views[id].images) \subseteq Shown(views)
    BY <2>5 DEF IsViews, IsView, Shown
  <2>8. PICK shots : shots = InsertAt(views[id].images, place, key)
    OBVIOUS
  <2>9. IsSeq(shots) /\ ToSet(shots) = ToSet(views[id].images) \cup {key}
    BY <2>7, <2>8, InsertFacts
  <2>10. PICK new : new = [views EXCEPT ![id].images = shots] /\ Refilled(new, views, id, shots)
    BY DEF Refilled
  <2>11. IsViews(new) /\ Shown(new) \subseteq Shown(views) \cup {key}
    <3>1. IsViews(views) /\ id \in DOMAIN views /\ IsSeq(shots) /\ Refilled(new, views, id, shots)
      BY <2>5, <2>9, <2>10
    <3>2. IsViews(new) /\ Shown(new) \subseteq Shown(views) \cup ToSet(shots)
      BY <3>1, ImagesChange
    <3> QED
      BY <2>7, <2>9, <3>2
  <2>12. ChangeViews(v, new) /\ \A x \in DOMAIN new : x \in 0..stored'.views
    BY <2>5, <2>6, <2>8, <2>10
  <2>13. PICK n : SopChanged(v, n) /\ n.views = new
    BY <1>7, <2>3, <2>4, <2>11, <2>12, ViewsChange DEF SopInv, DraftView
  <2>14. SopWritten
    BY <2>4, <2>13 DEF SopWritten
  <2>15. \A k : Depicted(k)' => Depicted(k) \/ k = key
    BY <2>4, <2>5, <2>11, <2>13, ShownAfter DEF SopInv, Depicted
  <2>16. RowsKept
    BY <1>5, <1>8, <1>9, <2>3, RowsAre DEF RowsKept
  <2>17. ImagesHold'
    BY <1>4, <2>3, <2>15, RowsAre DEF ImagesHold
  <2>18. ASSUME NEW s \in Tickets PROVE TicketKept(s)'
    <3>1. CASE s = t
      <4>1. \A k : Depicted(k)' /\ k.ticket = t => k = key
        BY <1>6, <2>15
      <4>2. \A x \in Uploads : ~Holding(x, t)'
        BY <1>4, <1>11
      <4> QED
        BY <1>5, <1>6, <3>1, <4>1, <4>2 DEF TicketKept
    <3>2. CASE s # t
      <4>1. TicketKept(s)
        BY RowsAre DEF TicketsHold
      <4>2. \A k : Depicted(k)' /\ k.ticket = s => Depicted(k)
        BY <1>4, <2>15, <3>2
      <4>3. \A x \in Uploads : Holding(x, s)' => Holding(x, s)
        BY <1>11
      <4> QED
        BY <1>5, <4>1, <4>2, <4>3 DEF TicketKept
    <3> QED
      BY <3>1, <3>2
  <2> QED
    BY <1>7, <2>14, <2>16, <2>17, <2>18, UploadStep DEF TicketsHold
<1> QED
  BY <1>12, <1>13, Zenon

-----------------------------------------------------------------------------

LEMMA SopStep == ASSUME SopInv, SOPNext PROVE SopWritten /\ SopInv'
<1>1. ASSUME NEW e \in Editors,
             \/ (\E v \in DOMAIN version : ReadRow(e, v)) \/ ReadViews(e) \/ Leave(e)
             \/ UpdateVersion(e) \/ Reorder(e) \/ Publish(e)
      PROVE  SopWritten /\ SopInv'
  BY <1>1, ReadSteps, UpdateVersionStep, ReorderStep, PublishStep
<1>2. ASSUME NEW e \in Editors, NEW entered \in ViewForms, AddView(e, entered)
      PROVE  SopWritten /\ SopInv'
  BY <1>2, AddViewStep
<1>3. ASSUME NEW e \in Editors, NEW id \in ViewIds, NEW entered \in ViewForms,
             UpdateView(e, id, entered)
      PROVE  SopWritten /\ SopInv'
  BY <1>3, UpdateViewStep
<1>4. ASSUME NEW e \in Editors, NEW id \in ViewIds,
             DeleteView(e, id) \/ ReorderReferenceImages(e, id)
      PROVE  SopWritten /\ SopInv'
  BY <1>4, DeleteViewStep, ReorderReferenceImagesStep
<1>5. ASSUME NEW e \in Editors, NEW id \in ViewIds, NEW place \in 1..MaxKeys,
             DeleteReferenceImage(e, id, place)
      PROVE  SopWritten /\ SopInv'
  BY <1>5, DeleteReferenceImageStep
<1>6. ASSUME NEW e \in Editors, NEW u \in Uploads, NEW t \in Tickets, CheckTicket(u, e, t)
      PROVE  SopWritten /\ SopInv'
  BY <1>6, CheckTicketStep
<1>7. ASSUME NEW v \in DOMAIN version, CopyVersion(v) \/ Archive(v) \/ Restore(v)
      PROVE  SopWritten /\ SopInv'
  BY <1>7, CopyVersionStep, ShelveStep
<1>8. ASSUME NEW t \in Tickets,
             \/ \E v \in DOMAIN version, id \in ViewIds : IssueTicket(t, v, id)
             \/ PutObject(t) \/ Expire(t)
      PROVE  SopWritten /\ SopInv'
  BY <1>8, TicketSteps
<1>9. ASSUME NEW u \in Uploads, ClaimTicket(u) \/ Promote(u) \/ AddReferenceImage(u) \/ Crash(u)
      PROVE  SopWritten /\ SopInv'
  BY <1>9, ClaimTicketStep, PromoteStep, AddReferenceImageStep, CrashStep
<1>10. CASE CreateSOP \/ Tick
  BY <1>10, CreateStep, TickStep
<1> QED
  BY <1>1, <1>2, <1>3, <1>4, <1>5, <1>6, <1>7, <1>8, <1>9, <1>10 DEF SOPNext

LEMMA SopInvariant == SOPSpec => []SopInv
<1>1. SOPInit => SopInv
  <2> SUFFICES ASSUME SOPInit PROVE SopInv
    OBVIOUS
  <2>1. DOMAIN version = {} /\ version = [i \in 1..0 |-> version[i]] /\ 0 \in Nat
    BY DEF SOPInit
  <2>2. IsSeq(version)
    BY <2>1 DEF IsSeq
  <2>3. VersionsHold
    BY <2>1, <2>2 DEF VersionsHold, SOPInit
  <2>4. PagesHold
    BY DEF PagesHold, IsPage, SOPInit
  <2>5. \A k : ~Depicted(k)
    BY <2>1 DEF Depicted
  <2>6. \A u \in Uploads, t \in Tickets : ~Holding(u, t)
    BY DEF Holding, SOPInit, Idle
  <2>7. UploadsHold
    BY <2>5, <2>6 DEF UploadsHold, TicketKept, IsTicket, IsUpload, SOPInit
  <2> QED
    BY <2>3, <2>4, <2>7 DEF SopInv
<1>2. ASSUME SopInv, UNCHANGED sopVars PROVE SopInv'
  <2>1. page' = [e \in Editors |-> page'[e]]
    BY <1>2, RowsAre DEF sopVars
  <2>2. SopWritten /\ Counted /\ \A k : Depicted(k)' <=> Depicted(k)
    BY <1>2, Unwritten DEF sopVars
  <2> QED
    BY <1>2, <2>1, <2>2, SopVersionStep DEF sopVars
<1>3. SopInv /\ [SOPNext]_sopVars => SopInv'
  BY <1>2, SopStep
<1> QED
  BY <1>1, <1>3, PTL DEF SOPSpec

-----------------------------------------------------------------------------
(* A SOP stays whole. *)

LEMMA ViewsAreInOrder == ASSUME SopInv PROVE ViewsStayInOrder
<1> SUFFICES ASSUME NEW v \in DOMAIN version, NEW views, views = version[v].views
             PROVE  /\ {views[id].sequence : id \in DOMAIN views} = 1..Cardinality(DOMAIN views)
                    /\ \A id \in DOMAIN views : views[id].role = RefFront <=> views[id].sequence = 1
  BY DEF ViewsStayInOrder
<1>1. IsViews(views)
  BY DEF SopInv, VersionsHold, IsVersion
<1>2. PICK n \in Nat \ {0} : Places(views, n)
  BY <1>1 DEF IsViews
<1>3. {views[id].sequence : id \in DOMAIN views} = 1..n /\ Cardinality(DOMAIN views) = n
  BY <1>2, ViewsCounted
<1> QED
  BY <1>2, <1>3 DEF Places

LEMMA ImagesAreOnce == ASSUME SopInv PROVE ImagesAreStoredOnce
<1>1. \A v \in DOMAIN version : \A k \in ImagesOf(v) : Depicted(k)
  BY DEF ImagesOf, Depicted, Shown
<1>2. \A k : Depicted(k) => k \in objects /\ k.ticket \in Tickets
  BY RowsAre DEF ImagesHold
<1>3. \A a, b : Depicted(a) /\ Depicted(b) /\ a.ticket = b.ticket => a = b
  BY <1>2, RowsAre DEF TicketsHold, TicketKept
<1>4. \A k \in UNION {ImagesOf(v) : v \in DOMAIN version} : Depicted(k)
  BY <1>1
<1> HIDE DEF ImagesOf
<1> QED
  BY <1>1, <1>2, <1>3, <1>4 DEF ImagesAreStoredOnce

(* Whoever edits and uploads beside whom, a SOP stays whole: a page whose    *)
(* revision is still the draft's shows the views the draft has, the views    *)
(* are numbered without a gap, the front first, and every image that is      *)
(* shown is in the bucket, one for a ticket (sop_service.go                  *)
(* requireSOPRevision, nextSOPRevision and applyViewOrder, sop_handlers.go   *)
(* addSOPReferenceImage).                                                    *)
THEOREM SOPsAreWhole == SOPSpec => []SOPsStayWhole
<1>1. SopInv => RevisionNamesViews
  <2> SUFFICES ASSUME SopInv, NEW e \in DOMAIN page, page[e].stage = "ready",
                      version[page[e].version].status = "draft",
                      page[e].revision = version[page[e].version].revision
               PROVE  page[e].views = version[page[e].version].views
    BY DEF RevisionNamesViews
  <2>1. e \in Editors
    BY RowsAre
  <2>2. IsPage(page[e]) /\ page[e] # NoPage
    BY <2>1 DEF SopInv, PagesHold, NoPage
  <2> QED
    BY <2>2 DEF IsPage
<1>2. SopInv => SOPsStayWhole
  BY <1>1, ViewsAreInOrder, ImagesAreOnce DEF SOPsStayWhole
<1> QED
  BY <1>2, SopInvariant, PTL

-----------------------------------------------------------------------------
(* Capture SOPs live as VersionLifecycle says. *)

LEMMA SopShelfFacts ==
    ASSUME SopInv, SopInv'
    PROVE  /\ SopShelf = [v \in DOMAIN version |-> SopShelf[v]]
           /\ SopShelf' = [v \in DOMAIN version' |-> SopShelf'[v]]
           /\ IsSeq(version) /\ DOMAIN SopShelf = DOMAIN version
           /\ \A v \in DOMAIN version :
                  SopShelf[v] = [parent |-> "sop", status |-> version[v].status,
                                 content |-> version[v].views]
           /\ \A v \in DOMAIN version' :
                  SopShelf'[v] = [parent |-> "sop", status |-> version'[v].status,
                                  content |-> version'[v].views]
  BY DEF SopShelf, SopInv, VersionsHold

LEMMA StartedIsCreate ==
    ASSUME SopInv, SopInv', NEW e, SopStarted(e)
    PROVE  SopLife!Create("sop")
<1>1. version' = Append(version, e) /\ e.status = "draft"
  BY DEF SopStarted
<1>2. \A v \in DOMAIN version : version'[v] = version[v] => SopShelf'[v] = SopShelf[v]
  BY <1>1, SopStartedFacts, SopShelfFacts DEF SopInv
<1>3. PICK n : n = Len(SopShelf) + 1
  OBVIOUS
<1>4. /\ Len(SopShelf') = n /\ SopShelf' = Append(SopShelf, SopShelf'[n])
      /\ n \in DOMAIN version' /\ version'[n] = e
  BY <1>1, <1>2, <1>3, SopShelfFacts, ImageGrows
<1>5. SopShelf'[n] = SopLife!NewDraft("sop", SopShelf'[n].content)
  <2>1. SopShelf'[n] = [parent |-> "sop", status |-> "draft", content |-> e.views]
    BY <1>1, <1>4, SopShelfFacts
  <2>2. SopShelf'[n].content = e.views
    BY <2>1
  <2> QED
    BY <2>1, <2>2 DEF SopLife!NewDraft
<1>6. ~SopLife!HasDraft("sop")
  BY SopShelfFacts DEF SopLife!HasDraft, SopStarted
<1> QED
  BY <1>3, <1>4, <1>5, <1>6 DEF SopLife!Create

LEMMA ChangedIsLife ==
    ASSUME SopInv, SopInv', NEW v \in DOMAIN version, NEW e, SopChanged(v, e)
    PROVE  \/ SopLife!Edit(v) \/ SopLife!Turn(v, "draft", "published")
           \/ SopLife!Turn(v, "published", "archived") \/ SopLife!Turn(v, "archived", "published")
<1>1. version' = [version EXCEPT ![v] = e] /\ DOMAIN version' = DOMAIN version /\ version'[v] = e
  BY SopChangedFacts DEF SopChanged, SopInv
<1>2. \A w \in DOMAIN version : version'[w] = version[w] => SopShelf'[w] = SopShelf[w]
  BY <1>1, SopShelfFacts
<1>3. PICK entry : entry = SopShelf'[v]
  OBVIOUS
<1>4. Len(SopShelf') = Len(SopShelf) /\ SopShelf' = [SopShelf EXCEPT ![v] = entry]
      /\ v \in DOMAIN SopShelf
  BY <1>1, <1>2, <1>3, SopShelfFacts, ImageChanges
<1>5. /\ entry = [parent |-> "sop", status |-> e.status, content |-> e.views]
      /\ SopShelf[v] = [parent |-> "sop", status |-> version[v].status,
                        content |-> version[v].views]
  BY <1>1, <1>3, SopShelfFacts
<1>6. CASE version[v].status = "draft" /\ e.status = "draft"
  <2>1. [SopShelf[v] EXCEPT !.content = entry.content] = entry /\ SopShelf[v].status = "draft"
    BY <1>5, <1>6
  <2>2. SopShelf' = [SopShelf EXCEPT ![v] = [SopShelf[v] EXCEPT !.content = entry.content]]
    BY <1>4, <2>1
  <2>3. SopLife!Edit(v)
    BY <1>3, <1>4, <2>1, <2>2 DEF SopLife!Edit
  <2> QED
    BY <2>3
<1>7. ASSUME NEW from, NEW to, SopTurned(v, e, from, to) PROVE SopLife!Turn(v, from, to)
  <2>1. entry = [SopShelf[v] EXCEPT !.status = to] /\ SopShelf[v].status = from
    BY <1>5, <1>7 DEF SopTurned
  <2> QED
    BY <1>4, <2>1 DEF SopLife!Turn
<1> QED
  BY <1>6, <1>7 DEF SopChanged

(* The abstract promise of VersionLifecycle holds of capture SOPs: late      *)
(* edits and uploads never reach a published version, and however versions   *)
(* are copied the SOP has one draft (sop_service.go).                        *)
THEOREM SOPsLive == SOPSpec => SOPLifecycle
<1>1. SOPInit => SopLife!LifeInit
  BY DEF SOPInit, SopLife!LifeInit, SopShelf
<1>2. SopInv /\ SopInv' /\ [SOPNext]_sopVars => [SopLife!LifeNext]_SopShelf
  <2> SUFFICES ASSUME SopInv, SopInv', [SOPNext]_sopVars
               PROVE  SopLife!LifeNext \/ UNCHANGED SopShelf
    OBVIOUS
  <2>1. SopWritten
    BY SopStep, Unwritten DEF sopVars
  <2>2. CASE version' = version
    BY <2>2 DEF SopShelf
  <2>3. ASSUME NEW e, SopStarted(e) PROVE SopLife!LifeNext
    BY <2>3, StartedIsCreate DEF SopLife!LifeNext
  <2>4. ASSUME NEW v \in DOMAIN version, NEW e, SopChanged(v, e) PROVE SopLife!LifeNext
    BY <2>4, ChangedIsLife, SopShelfFacts DEF SopLife!LifeNext
  <2> QED
    BY <2>1, <2>2, <2>3, <2>4 DEF SopWritten
<1> QED
  BY <1>1, <1>2, SopInvariant, PTL DEF SOPSpec, SOPLifecycle, SopLife!LifeSpec

(* Capture SOPs and manifests keep one draft at a time, and what they have   *)
(* published (sop_service.go and variant_manifests.go).                      *)
THEOREM LivesAreKept == SOPSpec /\ FamSpec => LifecycleKept
  BY SOPsLive, ManifestsLive DEF LifecycleKept

-----------------------------------------------------------------------------
(* The types of the offices.  Beside what the invariants above say, a type   *)
(* speaks of what comes in and is handed on: the objects an upload stores,   *)
(* the dimensions and assets a manifest names, the text a copy takes along.  *)

SopNamed ==
    /\ \A v \in DOMAIN version : version[v].status \in {"draft", "published", "archived"}
    /\ objects \subseteq Keys

(* Objects keep the numbers they were given. *)
LEMMA KeysGrow ==
    ASSUME SopInv, SopInv', stored'.keys \in {stored.keys, stored.keys + 1}
    PROVE  Keys \subseteq Keys'
<1>1. DOMAIN ticket' = DOMAIN ticket
  BY DEF SopInv, UploadsHold
<1>2. stored.keys \in Nat
  BY DEF SopInv, VersionsHold
<1>3. 1..stored.keys \subseteq 1..stored'.keys
  BY <1>2
<1> QED
  BY <1>1, <1>3 DEF Keys

LEMMA ObjectsNamed ==
    ASSUME SopInv, SopInv', SopNamed, SOPNext
    PROVE  objects' \subseteq Keys'
<1>1. ASSUME objects' \subseteq objects, stored'.keys = stored.keys PROVE objects' \subseteq Keys'
  BY <1>1, KeysGrow DEF SopNamed
<1>2. stored = [views |-> stored.views, keys |-> stored.keys]
  BY DEF SopInv, VersionsHold
<1>3. ASSUME NEW u \in Uploads, Promote(u) PROVE objects' \subseteq Keys'
  <2>1. PICK t \in Tickets : t = upload[u].ticket
    BY <1>3, RowsAre DEF Promote, IsUpload, Idle
  <2>2. PICK n : n = stored.keys + 1
    OBVIOUS
  <2>3. PICK key : key = [ticket |-> t, number |-> n]
    OBVIOUS
  <2>4. objects' \subseteq objects \cup {key} /\ stored' = [stored EXCEPT !.keys = n]
    BY <1>3, <2>1, <2>2, <2>3 DEF Promote
  <2>5. stored'.keys = n
    BY <1>2, <2>4
  <2>6. t \in DOMAIN ticket' /\ n \in 1..n
    BY <2>2 DEF SopInv, UploadsHold, VersionsHold
  <2>7. key \in Keys'
    BY <2>3, <2>5, <2>6 DEF Keys
  <2> QED
    BY <2>2, <2>4, <2>5, <2>7, KeysGrow DEF SopNamed
<1>4. ASSUME NEW u \in Uploads, AddReferenceImage(u) PROVE objects' \subseteq Keys'
  BY <1>1, <1>4 DEF AddReferenceImage
<1>5. ASSUME NEW e \in Editors, NEW entered, AddView(e, entered) PROVE objects' \subseteq Keys'
  <2>1. PICK n : stored' = [stored EXCEPT !.views = n] /\ UNCHANGED objects
    BY <1>5 DEF AddView, EditViews
  <2> QED
    BY <1>1, <1>2, <2>1
<1>6. CASE UNCHANGED <<objects, stored>>
  BY <1>1, <1>6
<1>7. ASSUME NEW e \in Editors, NEW id, NEW entered, NEW place,
             \/ UpdateView(e, id, entered) \/ DeleteView(e, id)
             \/ ReorderReferenceImages(e, id) \/ DeleteReferenceImage(e, id, place)
             \/ UpdateVersion(e) \/ Reorder(e)
      PROVE  UNCHANGED <<objects, stored>>
  BY <1>7 DEF UpdateView, DeleteView, ReorderReferenceImages, DeleteReferenceImage, DropImage,
              UpdateVersion, Reorder, EditViews
<1>8. ASSUME NEW e \in Editors,
             \/ \E v \in DOMAIN version : ReadRow(e, v)
             \/ ReadViews(e) \/ Leave(e) \/ Publish(e)
             \/ \E u \in Uploads, t \in Tickets : CheckTicket(u, e, t)
      PROVE  UNCHANGED <<objects, stored>>
  BY <1>8 DEF ReadRow, ReadViews, Leave, Publish, CheckTicket
<1>9. ASSUME NEW v \in DOMAIN version, CopyVersion(v) \/ Archive(v) \/ Restore(v)
      PROVE  UNCHANGED <<objects, stored>>
  BY <1>9 DEF CopyVersion, Archive, Restore
<1>10. ASSUME NEW t \in Tickets,
              \/ \E v \in DOMAIN version, id \in ViewIds : IssueTicket(t, v, id)
              \/ PutObject(t) \/ Expire(t)
       PROVE  UNCHANGED <<objects, stored>>
  BY <1>10 DEF IssueTicket, PutObject, Expire
<1>11. ASSUME NEW u \in Uploads, ClaimTicket(u) \/ Crash(u) PROVE UNCHANGED <<objects, stored>>
  BY <1>11 DEF ClaimTicket, Crash
<1>12. ASSUME CreateSOP \/ Tick PROVE UNCHANGED <<objects, stored>>
  BY <1>12 DEF CreateSOP, Tick
<1>13. \/ UNCHANGED <<objects, stored>>
       \/ \E u \in Uploads : Promote(u) \/ AddReferenceImage(u)
       \/ \E e \in Editors : \E entered \in ViewForms : AddView(e, entered)
  BY <1>7, <1>8, <1>9, <1>10, <1>11, <1>12 DEF SOPNext
<1> QED
  BY <1>3, <1>4, <1>5, <1>6, <1>13

LEMMA SopNamedStep ==
    ASSUME SopInv, SopInv', SopNamed, SOPNext
    PROVE  SopNamed'
<1>1. \A v \in DOMAIN version : version[v].status \in {"draft", "published", "archived"}
  BY DEF SopNamed
<1>2. \A v \in DOMAIN version' : version'[v].status \in {"draft", "published", "archived"}
  <2>1. CASE version' = version
    BY <1>1, <2>1
  <2>2. ASSUME NEW e, SopStarted(e)
        PROVE  \A v \in DOMAIN version' : version'[v].status \in {"draft", "published", "archived"}
    <3>1. e.status = "draft"
      BY <2>2 DEF SopStarted
    <3> QED
      BY <1>1, <2>2, <3>1, SopStartedFacts DEF SopInv
  <2>3. ASSUME NEW i \in DOMAIN version, NEW e, SopChanged(i, e)
        PROVE  \A v \in DOMAIN version' : version'[v].status \in {"draft", "published", "archived"}
    <3>1. e.status \in {"draft", "published", "archived"}
      BY <2>3 DEF SopChanged, SopTurned
    <3> QED
      BY <1>1, <2>3, <3>1, SopChangedFacts DEF SopInv
  <2> QED
    BY <2>1, <2>2, <2>3, SopStep DEF SopWritten
<1> QED
  BY <1>2, ObjectsNamed DEF SopNamed

LEMMA SopTypes == SOPSpec => []SOPTypeOK
<1>1. SOPInit => SopNamed
  BY DEF SOPInit, SopNamed
<1>2. SopInv /\ SopInv' /\ SopNamed /\ [SOPNext]_sopVars => SopNamed'
  <2>1. SopNamed /\ UNCHANGED sopVars => SopNamed'
    BY DEF SopNamed, sopVars, Keys
  <2> QED
    BY <2>1, SopNamedStep
<1>3. SopInv /\ SopNamed => SOPTypeOK
  <2> SUFFICES ASSUME SopInv, SopNamed PROVE SOPTypeOK
    OBVIOUS
  <2>1. ASSUME NEW v \in DOMAIN version
        PROVE  /\ version[v].revision \in Nat
               /\ DOMAIN version[v].views \subseteq 0..stored.views
               /\ ImagesOf(v) \subseteq Keys
    <3>1. IsVersion(version[v])
      BY DEF SopInv, VersionsHold
    <3>2. \A k \in ImagesOf(v) : Depicted(k)
      BY DEF ImagesOf, Depicted, Shown
    <3>3. ImagesOf(v) \subseteq objects
      BY <3>2 DEF SopInv, UploadsHold
    <3> QED
      BY <3>1, <3>3 DEF IsVersion, SopNamed
  <2>2. \A e \in DOMAIN page : page[e].stage \in {"away", "row", "ready"}
    BY DEF SopInv, PagesHold, IsPage, NoPage
  <2>3. \A t \in DOMAIN ticket : ticket[t].state \in {"unused", "issued", "consumed", "expired"}
    BY RowsAre DEF IsTicket
  <2>4. \A u \in DOMAIN upload : upload[u].stage \in {"idle", "checked", "claimed", "promoted"}
    BY RowsAre DEF IsUpload, Idle
  <2> QED
    BY <2>1, <2>2, <2>3, <2>4 DEF SOPTypeOK, SopNamed
<1> QED
  BY <1>1, <1>2, <1>3, SopInvariant, PTL DEF SOPSpec

-----------------------------------------------------------------------------
(* What a manifest says, and what a write or a grant under way will say. *)

Spoken(regions) ==
    \A r \in regions : r.kind \in UNION Dimensions /\ r.evidence \subseteq DOMAIN Owner
Speaks(m) ==
    /\ m.status \in {"draft", "published"}
    /\ m.identity \subseteq UNION Dimensions /\ Spoken(m.regions)
IsFamily(e) ==
    e.status \in {"none", "active", "archived"} /\ e.dims \in Dimensions \cup {{}}
Heard(q) ==
    /\ q.op \in {"create", "update"} => q.approved \subseteq DOMAIN Owner
    /\ q.op = "copy" => q.source \in DOMAIN manifest /\ Spoken(q.regions)
Asks(q) ==
    \/ q.op = "idle"
    \/ /\ q.op \in {"checked", "numbered"}
       /\ q.family \in Families \cup {NoFamily} /\ q.asset \in DOMAIN Owner
IsGrant(e) ==
    /\ e = [kind |-> e.kind, family |-> e.family, asset |-> e.asset, status |-> e.status]
    /\ e.status \in {"approved", "revoked"}
    /\ e.family \in Families \cup {NoFamily} /\ e.asset \in DOMAIN Owner
FamNamed ==
    /\ family = [f \in Families |-> family[f]] /\ \A f \in Families : IsFamily(family[f])
    /\ \A i \in DOMAIN manifest : Speaks(manifest[i])
    /\ approved \subseteq DOMAIN Owner
    /\ \A w \in Writers : Heard(writer[w])
    /\ granter = [g \in Granters |-> granter[g]] /\ \A g \in Granters : Asks(granter[g])
    /\ IsSeq(grant) /\ \A i \in DOMAIN grant : IsGrant(grant[i])

(* What a write has heard of versions it may still say when others came. *)
LEMMA WritersHear ==
    ASSUME FamInv, FamNamed, DOMAIN manifest \subseteq DOMAIN manifest',
           NEW w \in Writers, NEW q, Heard(q), writer' = [writer EXCEPT ![w] = q]
    PROVE  \A x \in Writers : Heard(writer[x])'
<1>1. \A x \in Writers : writer'[x] = IF x = w THEN q ELSE writer[x]
  BY DEF FamInv
<1>2. \A x \in Writers : Heard(writer'[x])
  BY <1>1 DEF FamNamed
<1> QED
  BY <1>2 DEF Heard

(* A write that opens its view. *)
LEMMA BeginNamed ==
    ASSUME FamInv, FamNamed, NEW w \in Writers, NEW q, Heard(q), Begin(w, q)
    PROVE  FamNamed'
<1>1. writer' = [writer EXCEPT ![w] = q]
      /\ UNCHANGED <<family, home, manifest, approved, granter, grant>>
  BY DEF Begin
<1>2. \A x \in Writers : Heard(writer[x])'
  BY <1>1, WritersHear
<1> QED
  BY <1>1, <1>2 DEF FamNamed, Speaks, IsFamily, Asks, IsGrant

(* A version that says what it may, put behind the others or for one. *)
LEMMA CommitNamed ==
    ASSUME FamInv, FamNamed, NEW w \in Writers, NEW m, Speaks(m),
           \/ manifest' = Append(manifest, m)
           \/ \E i \in DOMAIN manifest : manifest' = [manifest EXCEPT ![i] = m],
           writer' = [writer EXCEPT ![w] = Nothing],
           UNCHANGED <<family, approved, granter, grant>>
    PROVE  FamNamed'
<1>1. DOMAIN manifest \subseteq DOMAIN manifest' /\ \A i \in DOMAIN manifest' : Speaks(manifest'[i])
  <2>1. IsSeq(manifest) /\ \A i \in DOMAIN manifest : Speaks(manifest[i])
    BY DEF FamInv, FamNamed
  <2>2. CASE manifest' = Append(manifest, m)
    <3>1. PICK n \in Nat : n = Len(manifest) /\ DOMAIN manifest = 1..n
      BY <2>1, SeqFacts
    <3>2. /\ DOMAIN manifest' = 1..(n + 1)
          /\ \A i \in 1..(n + 1) : manifest'[i] = IF i = n + 1 THEN m ELSE manifest[i]
      BY <2>1, <2>2, <3>1, AppendFacts
    <3>3. \A i \in 1..(n + 1) : i = n + 1 \/ i \in 1..n
      BY <3>1
    <3>4. 1..n \subseteq 1..(n + 1)
      BY <3>1
    <3> QED
      BY <2>1, <3>1, <3>2, <3>3, <3>4
  <2>3. ASSUME NEW i \in DOMAIN manifest, manifest' = [manifest EXCEPT ![i] = m]
        PROVE  /\ DOMAIN manifest \subseteq DOMAIN manifest'
               /\ \A j \in DOMAIN manifest' : Speaks(manifest'[j])
    BY <2>1, <2>3
  <2> QED
    BY <2>2, <2>3
<1>2. Heard(Nothing)
  BY DEF Heard, Nothing
<1>3. \A x \in Writers : Heard(writer[x])'
  BY <1>1, <1>2, WritersHear
<1> QED
  BY <1>1, <1>3 DEF FamNamed, Speaks, IsFamily, Asks, IsGrant

LEMMA CommitsNamed ==
    ASSUME FamInv, FamNamed, NEW w \in Writers,
           CreateManifest(w) \/ CopyManifest(w) \/ UpdateManifest(w) \/ PublishManifest(w)
    PROVE  FamNamed'
<1>1. PICK q : q = writer[w] /\ IsWrite(q) /\ Heard(q)
  BY DEF FamInv, FamNamed
<1>2. writer' = [writer EXCEPT ![w] = Nothing] /\ UNCHANGED <<family, approved, granter, grant>>
  BY DEF CreateManifest, CopyManifest, UpdateManifest, PublishManifest, Commit
<1>3. CASE CreateManifest(w) \/ UpdateManifest(w)
  <2>1. PICK said, f : said = q.form /\ f = q.family
    OBVIOUS
  <2>2. q.op \in {"create", "update"} /\ Normalized(w)
    BY <1>1, <1>3 DEF CreateManifest, UpdateManifest, Commit
  <2>3. f \in Families /\ q.approved \subseteq DOMAIN Owner
    <3>1. q.op = "update" => q.version \in DOMAIN manifest /\ f = manifest[q.version].family
      BY <1>1, <2>1 DEF IsWrite
    <3>2. \A i \in DOMAIN manifest : manifest[i].family \in Families
      BY DEF FamInv, IsManifest
    <3>3. q.op = "create" => f \in Families
      BY <1>1, <2>1 DEF IsWrite
    <3> QED
      BY <1>1, <2>2, <3>1, <3>2, <3>3 DEF Heard
  <2>4. family[f].dims \subseteq UNION Dimensions
    BY <2>3 DEF FamNamed, IsFamily
  <2>5. /\ said.identity \subseteq UNION Dimensions /\ Spoken(said.regions)
    BY <1>1, <2>1, <2>2, <2>3, <2>4 DEF Normalized, Evidence, Spoken
  <2>6. PICK m : m = ManifestDraft(w, said.identity, said.regions)
    OBVIOUS
  <2>7. Speaks(m)
    BY <2>5, <2>6 DEF ManifestDraft, Speaks
  <2>8. CASE CreateManifest(w)
    <3>1. manifest' = Append(manifest, m)
      BY <1>1, <2>1, <2>6, <2>8 DEF CreateManifest, Commit
    <3> QED
      BY <1>2, <2>7, <3>1, CommitNamed
  <2>9. CASE UpdateManifest(w)
    <3>1. q.version \in DOMAIN manifest
      BY <1>1, <2>9 DEF UpdateManifest, Commit, IsWrite
    <3>2. manifest' = [manifest EXCEPT ![q.version] = m]
      BY <1>1, <2>1, <2>6, <2>9 DEF UpdateManifest, Commit
    <3> QED
      BY <1>2, <2>7, <3>1, <3>2, CommitNamed
  <2> QED
    BY <1>3, <2>8, <2>9
<1>4. CASE CopyManifest(w)
  <2>1. q.source \in DOMAIN manifest /\ Spoken(q.regions)
    BY <1>1, <1>4 DEF CopyManifest, Commit, Heard
  <2>2. PICK m : m = ManifestDraft(w, manifest[q.source].identity, q.regions)
    OBVIOUS
  <2>3. Speaks(m)
    BY <2>1, <2>2 DEF ManifestDraft, Speaks, FamNamed
  <2>4. manifest' = Append(manifest, m)
    BY <1>1, <1>4, <2>2 DEF CopyManifest, Commit
  <2> QED
    BY <1>2, <2>3, <2>4, CommitNamed
<1>5. CASE PublishManifest(w)
  <2>1. PICK i \in DOMAIN manifest : i = q.version
    BY <1>1, <1>5 DEF PublishManifest, Commit, IsWrite
  <2>2. PICK m : m = [manifest[i] EXCEPT !.status = "published"]
    OBVIOUS
  <2>3. IsManifest(manifest[i]) /\ Speaks(manifest[i])
    BY DEF FamInv, FamNamed
  <2>4. m.status = "published" /\ m.identity = manifest[i].identity
        /\ m.regions = manifest[i].regions
    BY <2>2, <2>3 DEF IsManifest
  <2>5. Speaks(m)
    BY <2>3, <2>4 DEF Speaks
  <2>6. manifest' = [manifest EXCEPT ![i] = m]
    BY <1>1, <1>5, <2>1, <2>2 DEF PublishManifest, Commit
  <2> QED
    BY <1>2, <2>5, <2>6, CommitNamed
<1> QED
  BY <1>3, <1>4, <1>5

(* Writers hear what is there when they begin. *)
LEMMA BeginsNamed ==
    ASSUME FamInv, FamNamed, NEW w \in Writers,
           \/ \E s \in Variants, entered \in Forms : BeginCreate(w, s, entered)
           \/ \E i \in DOMAIN manifest :
                 \/ BeginCopy(w, i) \/ BeginPublish(w, i)
                 \/ \E entered \in Forms : BeginUpdate(w, i, entered)
    PROVE  FamNamed'
<1>1. approved \subseteq DOMAIN Owner /\ \A i \in DOMAIN manifest : Spoken(manifest[i].regions)
  BY DEF FamNamed, Speaks
<1>2. ASSUME NEW s \in Variants, NEW entered, BeginCreate(w, s, entered) PROVE FamNamed'
  <2>1. PICK q : Begin(w, q) /\ q.op = "create" /\ q.approved = approved
    BY <1>2 DEF BeginCreate
  <2> QED
    BY <1>1, <2>1, BeginNamed DEF Heard
<1>3. ASSUME NEW i \in DOMAIN manifest, BeginCopy(w, i) PROVE FamNamed'
  <2>1. PICK q : Begin(w, q) /\ q.op = "copy" /\ q.source = i /\ q.regions = manifest[i].regions
    BY <1>3 DEF BeginCopy
  <2> QED
    BY <1>1, <2>1, BeginNamed DEF Heard
<1>4. ASSUME NEW i \in DOMAIN manifest, NEW entered, BeginUpdate(w, i, entered) PROVE FamNamed'
  <2>1. PICK q : Begin(w, q) /\ q.op = "update" /\ q.approved = approved
    BY <1>4 DEF BeginUpdate
  <2> QED
    BY <1>1, <2>1, BeginNamed DEF Heard
<1>5. ASSUME NEW i \in DOMAIN manifest, BeginPublish(w, i) PROVE FamNamed'
  <2>1. PICK q : Begin(w, q) /\ q.op = "publish"
    BY <1>5 DEF BeginPublish
  <2> QED
    BY <1>1, <2>1, BeginNamed DEF Heard
<1> QED
  BY <1>2, <1>3, <1>4, <1>5

(* Whoever takes a reference asks for it of a family and an asset there are. *)
LEMMA GrantsNamed ==
    ASSUME FamInv, FamNamed, NEW g \in Granters,
           \/ \E f \in Families, a \in Assets : CheckStructure(g, f, a)
           \/ \E a \in Assets : CheckStyle(g, a)
           \/ NumberGrant(g) \/ InsertGrant(g) \/ AbandonGrant(g)
    PROVE  FamNamed'
<1>1. DOMAIN granter = Granters /\ Asks(granter[g]) /\ IsSeq(grant)
      /\ \A i \in DOMAIN grant : IsGrant(grant[i])
  BY DEF FamNamed
<1>2. ASSUME NEW q, Asks(q), Grants(g, q),
             \/ UNCHANGED grant \/ \E e : IsGrant(e) /\ grant' = Append(grant, e)
      PROVE  FamNamed'
  <2>1. granter' = [granter EXCEPT ![g] = q]
        /\ UNCHANGED <<family, home, manifest, approved, writer>>
    BY <1>2 DEF Grants
  <2>2. /\ granter' = [x \in Granters |-> granter'[x]]
        /\ \A x \in Granters : Asks(granter'[x])
    BY <1>1, <1>2, <2>1 DEF FamNamed
  <2>3. IsSeq(grant') /\ \A i \in DOMAIN grant' : IsGrant(grant'[i])
    <3>1. CASE UNCHANGED grant
      BY <1>1, <3>1
    <3>2. ASSUME NEW e, IsGrant(e), grant' = Append(grant, e)
          PROVE  IsSeq(grant') /\ \A i \in DOMAIN grant' : IsGrant(grant'[i])
      <4>1. PICK n \in Nat : n = Len(grant) /\ DOMAIN grant = 1..n
        BY <1>1, SeqFacts
      <4>2. /\ IsSeq(grant') /\ DOMAIN grant' = 1..(n + 1)
            /\ \A i \in 1..(n + 1) : grant'[i] = IF i = n + 1 THEN e ELSE grant[i]
        BY <1>1, <3>2, <4>1, AppendFacts
      <4>3. \A i \in 1..(n + 1) : i = n + 1 \/ i \in 1..n
        BY <4>1
      <4> QED
        BY <1>1, <3>2, <4>1, <4>2, <4>3
    <3> QED
      BY <1>2, <3>1, <3>2
  <2> QED
    BY <2>1, <2>2, <2>3 DEF FamNamed, Speaks, IsFamily, Asks, IsGrant, Heard
<1>3. ASSUME NEW a \in Assets, CheckStyle(g, a) PROVE FamNamed'
  <2>1. PICK q : /\ Grants(g, q) /\ q.op = "checked" /\ q.family = NoFamily /\ q.asset = a
                 /\ UNCHANGED grant
    BY <1>3 DEF CheckStyle
  <2> QED
    BY <1>2, <2>1, OwnerAssumption DEF Asks
<1>4. ASSUME NEW f \in Families, NEW a \in Assets, CheckStructure(g, f, a) PROVE FamNamed'
  <2>1. PICK q : Grants(g, q) /\ q.op = "checked" /\ q.family = f /\ q.asset = a /\ UNCHANGED grant
    BY <1>4 DEF CheckStructure
  <2> QED
    BY <1>2, <2>1, OwnerAssumption DEF Asks
<1>5. CASE NumberGrant(g)
  <2>1. PICK q : /\ Grants(g, q) /\ q.op = "numbered" /\ q.family = granter[g].family
                 /\ q.asset = granter[g].asset /\ UNCHANGED grant /\ granter[g].op = "checked"
    BY <1>5 DEF NumberGrant
  <2> QED
    BY <1>1, <1>2, <2>1 DEF Asks
<1>6. CASE InsertGrant(g)
  <2>1. PICK e : /\ e = [kind |-> granter[g].kind, family |-> granter[g].family,
                         asset |-> granter[g].asset, status |-> "approved"]
    OBVIOUS
  <2>2. Grants(g, Nothing) /\ (UNCHANGED grant \/ grant' = Append(grant, e))
        /\ granter[g].op = "numbered"
    BY <1>6, <2>1 DEF InsertGrant
  <2>3. IsGrant(e)
    BY <1>1, <2>1, <2>2 DEF Asks, IsGrant
  <2> QED
    BY <1>2, <2>2, <2>3 DEF Asks, Nothing
<1>7. CASE AbandonGrant(g)
  BY <1>2, <1>7 DEF AbandonGrant, Asks, Nothing
<1> QED
  BY <1>3, <1>4, <1>5, <1>6, <1>7

LEMMA FamNamedStep ==
    ASSUME FamInv, FamNamed, FamNext
    PROVE  FamNamed'
<1>1. ASSUME NEW f \in Families, NEW dims \in Dimensions, NEW status \in {"active", "archived"},
             CreateFamily(f, dims) \/ UpdateFamily(f, dims, status)
      PROVE  FamNamed'
  <2>1. PICK e : IsFamily(e) /\ family' = [family EXCEPT ![f] = e]
    <3> DEFINE now1 == [status |-> "active", dims |-> dims]
               now2 == [status |-> status, dims |-> dims]
    <3>1. IsFamily(now1) /\ IsFamily(now2)
      BY DEF IsFamily
    <3>2. family' = [family EXCEPT ![f] = now1] \/ family' = [family EXCEPT ![f] = now2]
      BY <1>1 DEF CreateFamily, UpdateFamily
    <3> HIDE DEF now1, now2
    <3> QED
      BY <3>1, <3>2
  <2>2. UNCHANGED <<home, manifest, approved, writer, granter, grant>>
    BY <1>1 DEF CreateFamily, UpdateFamily
  <2>3. family' = [x \in Families |-> family'[x]] /\ \A x \in Families : IsFamily(family'[x])
    BY <2>1 DEF FamNamed
  <2> QED
    BY <2>2, <2>3 DEF FamNamed, Speaks, IsFamily, Asks, IsGrant, Heard
<1>2. ASSUME NEW a \in Assets, Review(a) PROVE FamNamed'
  <2>1. approved' \subseteq DOMAIN Owner
    BY <1>2, OwnerAssumption DEF Review, FamNamed
  <2> QED
    BY <1>2, <2>1 DEF Review, FamNamed, Speaks, IsFamily, Asks, IsGrant, Heard
<1>3. ASSUME NEW f \in Families, NEW s \in Variants, AddMember(f, s) \/ RemoveMember(f, s)
      PROVE  FamNamed'
  BY <1>3 DEF AddMember, RemoveMember, FamNamed, Speaks, IsFamily, Asks, IsGrant, Heard
<1>4. ASSUME NEW w \in Writers, Rollback(w) PROVE FamNamed'
  <2>1. Heard(Nothing) /\ DOMAIN manifest \subseteq DOMAIN manifest'
    BY <1>4 DEF Heard, Nothing, Rollback
  <2>2. \A x \in Writers : Heard(writer[x])'
    BY <1>4, <2>1, WritersHear DEF Rollback
  <2> QED
    BY <1>4, <2>2 DEF Rollback, FamNamed, Speaks, IsFamily, Asks, IsGrant
<1>5. ASSUME NEW i \in DOMAIN grant, Revoke(i) PROVE FamNamed'
  <2>1. PICK old : old = grant[i] /\ IsGrant(old)
    BY DEF FamNamed
  <2>2. PICK e : e = [old EXCEPT !.status = "revoked"]
    OBVIOUS
  <2>3. IsGrant(e)
    <3>1. PICK k, f, a, s : old = [kind |-> k, family |-> f, asset |-> a, status |-> s]
      BY <2>1 DEF IsGrant
    <3>2. e = [kind |-> k, family |-> f, asset |-> a, status |-> "revoked"]
      BY <2>2, <3>1
    <3> QED
      BY <2>1, <3>1, <3>2 DEF IsGrant
  <2>4. grant' = [grant EXCEPT ![i] = e]
    BY <1>5, <2>1, <2>2 DEF Revoke
  <2>5. IsSeq(grant') /\ \A j \in DOMAIN grant' : IsGrant(grant'[j])
    BY <2>3, <2>4, ExceptFacts DEF FamNamed
  <2> QED
    BY <1>5, <2>5 DEF Revoke, FamNamed, Speaks, IsFamily, Asks, Heard
<1> QED
  BY <1>1, <1>2, <1>3, <1>4, <1>5, BeginsNamed, CommitsNamed, GrantsNamed DEF FamNext

LEMMA FamTypes == FamSpec => []FamTypeOK
<1>1. FamInit => FamNamed
  <2> SUFFICES ASSUME FamInit PROVE FamNamed
    OBVIOUS
  <2>1. DOMAIN grant = {} /\ grant = [i \in 1..0 |-> grant[i]] /\ 0 \in Nat /\ DOMAIN manifest = {}
    BY DEF FamInit
  <2>2. IsSeq(grant)
    BY <2>1 DEF IsSeq
  <2>3. \A f \in Families : IsFamily(family[f])
    BY DEF FamInit, IsFamily
  <2>4. \A w \in Writers : Heard(writer[w])
    BY DEF FamInit, Heard, Nothing
  <2>5. \A g \in Granters : Asks(granter[g])
    BY DEF FamInit, Asks, Nothing
  <2> QED
    BY <2>1, <2>2, <2>3, <2>4, <2>5, OwnerAssumption DEF FamNamed, FamInit
<1>2. FamInv /\ FamNamed /\ [FamNext]_famVars => FamNamed'
  <2>1. FamNamed /\ UNCHANGED famVars => FamNamed'
    BY DEF famVars, FamNamed, Speaks, IsFamily, Asks, IsGrant, Heard
  <2> QED
    BY <2>1, FamNamedStep
<1>3. FamInv /\ FamNamed => FamTypeOK
  <2> SUFFICES ASSUME FamInv, FamNamed PROVE FamTypeOK
    OBVIOUS
  <2>1. DOMAIN family = Families /\ DOMAIN home = Variants /\ DOMAIN granter = Granters
        /\ DOMAIN writer = Writers
    BY DEF FamInv, FamNamed
  <2>2. \A f \in Families : IsFamily(family[f])
    BY DEF FamNamed
  <2>3. \A i \in DOMAIN manifest : IsManifest(manifest[i]) /\ Speaks(manifest[i])
    BY DEF FamInv, FamNamed
  <2>4. \A w \in Writers : writer[w].op \in {"idle", "create", "copy", "update", "publish"}
    BY DEF FamInv, IsWrite
  <2>5. \A g \in Granters : granter[g].op \in {"idle", "checked", "numbered"}
    BY DEF FamNamed, Asks
  <2>6. \A i \in DOMAIN grant : IsGrant(grant[i])
    BY DEF FamNamed
  <2>7. /\ \A s \in Variants : home[s] \in Families \cup {NoFamily}
        /\ approved \subseteq DOMAIN Owner
    BY DEF FamInv, FamNamed
  <2> QED
    BY <2>1, <2>2, <2>3, <2>4, <2>5, <2>6, <2>7
       DEF FamTypeOK, IsFamily, IsManifest, Speaks, Spoken, IsGrant
<1> QED
  BY <1>1, <1>2, <1>3, FamInvariant, PTL DEF FamSpec

-----------------------------------------------------------------------------
(* Pictures.  What is stored of one is what its mask leaves, and a mask was  *)
(* found usable before.                                                      *)

Legible(e) == e.status \in {"draft", "published", "archived"} /\ e.text \in Texts
Carries(e) == e.state # "unused" => e.mask \in Masks
IsCover(mask) == mask = {} \/ (mask \in Masks /\ Usable(mask))
Brings(q) ==
    /\ q.stage = "copying" => q.text \in Texts
    /\ q.stage \in {"checked", "claimed"} => IsCover(q.mask)
IsDerived(d) == IsCover(d.mask) /\ d.shown = Retained(d.mask)

RefNamed ==
    /\ \A v \in DOMAIN reference : Legible(reference[v])
    /\ images \subseteq DOMAIN made
    /\ \A k \in DOMAIN made : IsDerived(made[k])
    /\ \A t \in Tokens : Carries(token[t])
    /\ \A r \in Requests : Brings(request[r])

LEMMA VersionNamed ==
    ASSUME RefInv, RefNamed, NEW v \in DOMAIN reference, NEW e, Legible(e),
           reference' = [reference EXCEPT ![v] = e]
    PROVE  \A w \in DOMAIN reference' : Legible(reference'[w])
  BY DEF RefNamed

LEMMA RequestNamed ==
    ASSUME RefInv, RefNamed, NEW r \in Requests, NEW q, Brings(q), Goes(r, q)
    PROVE  \A s \in Requests : Brings(request'[s])
<1>1. request'[r] = q /\ \A s \in Requests : s # r => request'[s] = request[s]
  BY Becomes DEF RefInv
<1> QED
  BY <1>1 DEF RefNamed

(* A token keeps its mask when it goes on. *)
LEMMA TokenNamed ==
    ASSUME RefInv, RefNamed, NEW t \in Tokens, token[t].state # "unused", NEW state,
           \/ token' = [token EXCEPT ![t].state = state]
           \/ token' = [token EXCEPT ![t].arrived = TRUE]
    PROVE  \A u \in Tokens : Carries(token'[u])
<1>1. PICK old : old = token[t]
  OBVIOUS
<1>2. /\ old = [state |-> old.state, version |-> old.version,
                mask |-> old.mask, arrived |-> old.arrived]
      /\ old.mask \in Masks
  BY <1>1 DEF RefInv, RefTypes, IsToken, RefNamed, Carries
<1>3. PICK a, b, c, d : old = [state |-> a, version |-> b, mask |-> c, arrived |-> d] /\ c \in Masks
  BY <1>2
<1>4. PICK e, f : e = [old EXCEPT !.state = state] /\ f = [old EXCEPT !.arrived = TRUE]
  OBVIOUS
<1>5. /\ e = [state |-> state, version |-> b, mask |-> c, arrived |-> d]
      /\ f = [state |-> a, version |-> b, mask |-> c, arrived |-> TRUE]
  BY <1>3, <1>4
<1>6. Carries(e) /\ Carries(f)
  BY <1>3, <1>5 DEF Carries
<1>7. token' = [token EXCEPT ![t] = e] \/ token' = [token EXCEPT ![t] = f]
  BY <1>1, <1>4
<1>8. DOMAIN token = Tokens /\ \A u \in Tokens : Carries(token[u])
  BY DEF RefInv, RefTypes, RefNamed
<1> QED
  BY <1>6, <1>7, <1>8

(* Whoever holds a token gives back one that was in use. *)
LEMMA BackNamed ==
    ASSUME RefInv, RefNamed, NEW r \in Requests, At(r, "claimed") \/ At(r, "stored"),
           GiveBack(request[r].token)
    PROVE  \A u \in Tokens : Carries(token'[u])
<1>1. PICK t : t = request[r].token
  OBVIOUS
<1>2. t \in Tokens \cup {NoToken}
  <2>1. PICK old : old = request[r]
    OBVIOUS
  <2>2. (old.stage = "claimed" \/ old.stage = "stored") /\ IsRequest(old) /\ old # NoRequest
    BY <2>1, Asked
  <2>3. old.token \in Tokens \cup {NoToken}
    BY <2>2 DEF IsRequest
  <2> QED
    BY <1>1, <2>1, <2>3
<1>3. CASE t = NoToken
  BY <1>1, <1>3 DEF GiveBack, RefNamed
<1>4. CASE t \in Tokens
  <2>1. Holds(r, t) /\ TokenKept(t)
    BY <1>1, <1>4 DEF Holds, RefInv, TokensKept
  <2>2. token[t].state = "consumed"
    BY <2>1 DEF TokenKept
  <2>3. token' = [token EXCEPT ![t].state = "issued"]
    BY <1>1, <1>4, TokenAssumption DEF GiveBack
  <2> QED
    BY <1>4, <2>2, <2>3, TokenNamed
<1> QED
  BY <1>2, <1>3, <1>4

LEMMA PicturesNamed ==
    ASSUME RefInv, RefNamed, NEW r \in Requests, Store(r)
    PROVE  RefNamed'
<1>1. PICK old : old = request[r]
  OBVIOUS
<1>2. old.stage = "claimed" /\ IsCover(old.mask)
  BY <1>1 DEF Store, At, RefNamed, Brings
<1>3. PICK n : n = Len(made)
  OBVIOUS
<1>4. PICK d : d = [token |-> old.token, mask |-> old.mask, shown |-> Retained(old.mask)]
  OBVIOUS
<1>5. PICK q : q = [stage |-> "stored", token |-> old.token,
                    version |-> old.version, key |-> n + 1]
  OBVIOUS
<1>6. /\ made' = Append(made, d) /\ images' = images \cup {n + 1} /\ Goes(r, q)
      /\ UNCHANGED <<reference, token>>
  BY <1>1, <1>3, <1>4, <1>5 DEF Store
<1>7. /\ DOMAIN made = 1..n /\ DOMAIN made' = 1..(n + 1) /\ n \in Nat
      /\ \A k \in 1..(n + 1) : made'[k] = IF k = n + 1 THEN d ELSE made[k]
  BY <1>3, <1>6, AppendFacts, SeqFacts DEF RefInv, RefTypes
<1>8. IsDerived(d)
  BY <1>2, <1>4 DEF IsDerived
<1>9. \A k \in DOMAIN made' : IsDerived(made'[k])
  BY <1>7, <1>8 DEF RefNamed
<1>10. images' \subseteq DOMAIN made'
  BY <1>6, <1>7 DEF RefNamed
<1>11. Brings(q)
  BY <1>5 DEF Brings
<1>12. \A s \in Requests : Brings(request'[s])
  BY <1>6, <1>11, RequestNamed
<1> QED
  BY <1>6, <1>9, <1>10, <1>12 DEF RefNamed, IsDerived

(* A row appears, changes its items, or goes. *)
LEMMA RowsNamed ==
    ASSUME RefInv, RefNamed, NEW r \in Requests, InsertItem(r) \/ DeleteRow(r) \/ ReorderCommit(r)
    PROVE  RefNamed'
<1>1. Brings(NoRequest)
  BY DEF Brings, NoRequest
<1>2. PICK v : v = request[r].version
  OBVIOUS
<1>3. UNCHANGED made /\ images' \subseteq images
  BY DEF InsertItem, DeleteRow, ReorderCommit
<1>4. \E q : Goes(r, q) /\ Brings(q)
  <2>1. CASE Goes(r, NoRequest)
    BY <1>1, <2>1
  <2>2. ASSUME At(r, "found"), Goes(r, [request[r] EXCEPT !.stage = "deleted"])
        PROVE  \E q : Goes(r, q) /\ Brings(q)
    <3>1. PICK old : old = request[r] /\ IsRequest(old) /\ old.stage = "found"
      BY <2>2, Asked
    <3>2. PICK w, key : old = [stage |-> "found", version |-> w, key |-> key]
      <4>1. old = [stage |-> "found", version |-> old.version, key |-> old.key]
        BY <3>1 DEF IsRequest, NoRequest
      <4>2. PICK w, key : w = old.version /\ key = old.key
        OBVIOUS
      <4> QED
        BY <4>1, <4>2
    <3>3. PICK q : q = [old EXCEPT !.stage = "deleted"]
      OBVIOUS
    <3>4. q = [stage |-> "deleted", version |-> w, key |-> key]
      BY <3>2, <3>3
    <3>5. Brings(q)
      BY <3>4 DEF Brings
    <3> QED
      BY <2>2, <3>1, <3>3, <3>5
  <2> QED
    BY <2>1, <2>2 DEF InsertItem, DeleteRow, ReorderCommit, Ends
<1>5. \A s \in Requests : Brings(request'[s])
  BY <1>4, RequestNamed
<1>6. \A w \in DOMAIN reference' : Legible(reference'[w])
  <2>1. \/ reference' = reference
        \/ \E items : reference' = [reference EXCEPT ![v].items = items]
    BY <1>2 DEF InsertItem, DeleteRow, ReorderCommit
  <2>2. ASSUME NEW items, v \in DOMAIN reference,
               reference' = [reference EXCEPT ![v].items = items]
        PROVE  \A w \in DOMAIN reference' : Legible(reference'[w])
    <3>1. PICK a, b, c : reference[v] = [status |-> a, text |-> b, items |-> c]
      BY <2>2 DEF RefInv, RefTypes, IsReference
    <3>2. PICK e : e = [reference[v] EXCEPT !.items = items]
      OBVIOUS
    <3>3. e = [status |-> a, text |-> b, items |-> items]
      BY <3>1, <3>2
    <3>4. Legible(reference[v])
      BY <2>2 DEF RefNamed
    <3>5. Legible(e)
      BY <3>1, <3>3, <3>4 DEF Legible
    <3> QED
      BY <2>2, <3>2, <3>5, VersionNamed
  <2>3. ASSUME NEW items, v \notin DOMAIN reference,
               reference' = [reference EXCEPT ![v].items = items]
        PROVE  reference' = reference
    <3>1. reference = [w \in DOMAIN reference |-> reference[w]]
      BY SeqFacts DEF RefInv, RefTypes
    <3> QED
      BY <2>3, <3>1
  <2> QED
    BY <2>1, <2>2, <2>3 DEF RefNamed
<1>7. \A t \in Tokens : Carries(token'[t])
  <2>1. token' = token \/ (At(r, "stored") /\ GiveBack(request[r].token))
    BY DEF InsertItem, DeleteRow, ReorderCommit
  <2> QED
    BY <2>1, BackNamed DEF RefNamed
<1> QED
  BY <1>3, <1>5, <1>6, <1>7 DEF RefNamed, IsDerived

(* A version starts, is copied, is written or goes on with its life. *)
LEMMA VersionsNamed ==
    ASSUME RefInv, RefNamed,
           \/ \E text \in Texts : CreateReference(text)
           \/ \E r \in Requests : CopyCommit(r)
           \/ \E v \in DOMAIN reference :
                 \/ \E text \in Texts : UpdateReference(v, text)
                 \/ PublishReference(v) \/ ArchiveReference(v) \/ RestoreReference(v)
    PROVE  RefNamed'
<1>1. UNCHANGED <<token, made, images>>
  BY DEF CreateReference, CopyCommit, UpdateReference, PublishReference, ArchiveReference,
         RestoreReference, Transition
<1>2. \A s \in Requests : Brings(request'[s])
  <2>1. Brings(NoRequest)
    BY DEF Brings, NoRequest
  <2>2. ASSUME NEW r \in Requests, CopyCommit(r) PROVE \A s \in Requests : Brings(request'[s])
    BY <2>1, <2>2, RequestNamed DEF CopyCommit, Ends
  <2> QED
    BY <2>2 DEF RefNamed, CreateReference, UpdateReference, PublishReference, ArchiveReference,
                RestoreReference, Transition
<1>3. ASSUME NEW text \in Texts, CreateReference(text)
      PROVE  \A w \in DOMAIN reference' : Legible(reference'[w])
  <2>1. PICK e : e = [status |-> "draft", text |-> text, items |-> NoItems]
    OBVIOUS
  <2>2. reference' = <<e>> /\ Legible(e)
    BY <1>3, <2>1 DEF CreateReference, Legible
  <2> QED
    BY <2>2
<1>4. ASSUME NEW r \in Requests, CopyCommit(r)
      PROVE  \A w \in DOMAIN reference' : Legible(reference'[w])
  <2>1. request[r].text \in Texts
    BY <1>4 DEF CopyCommit, At, RefNamed, Brings
  <2>2. PICK e : e = [status |-> "draft", text |-> request[r].text, items |-> request[r].items]
    OBVIOUS
  <2>3. Legible(e)
    BY <2>1, <2>2 DEF Legible
  <2>4. reference' = Append(reference, e) \/ reference' = reference
    BY <1>4, <2>2 DEF CopyCommit
  <2>5. CASE reference' = Append(reference, e)
    <3>1. PICK n : n = Len(reference)
      OBVIOUS
    <3>2. /\ DOMAIN reference = 1..n /\ n \in Nat /\ DOMAIN reference' = 1..(n + 1)
          /\ \A w \in 1..(n + 1) : reference'[w] = IF w = n + 1 THEN e ELSE reference[w]
      BY <2>5, <3>1, AppendFacts, SeqFacts DEF RefInv, RefTypes
    <3> QED
      BY <2>3, <3>2 DEF RefNamed
  <2> QED
    BY <2>4, <2>5 DEF RefNamed
<1>5. ASSUME NEW v \in DOMAIN reference, NEW text \in Texts, UpdateReference(v, text)
      PROVE  \A w \in DOMAIN reference' : Legible(reference'[w])
  <2>1. PICK a, b, c : reference[v] = [status |-> a, text |-> b, items |-> c]
    BY DEF RefInv, RefTypes, IsReference
  <2>2. PICK e : e = [reference[v] EXCEPT !.text = text]
    OBVIOUS
  <2>3. e = [status |-> a, text |-> text, items |-> c]
    BY <2>1, <2>2
  <2>4. Legible(reference[v])
    BY DEF RefNamed
  <2>5. Legible(e)
    BY <2>1, <2>3, <2>4 DEF Legible
  <2> QED
    BY <1>5, <2>2, <2>5, VersionNamed DEF UpdateReference
<1>6. ASSUME NEW v \in DOMAIN reference, NEW from, NEW to \in {"published", "archived"},
             Transition(v, from, to)
      PROVE  \A w \in DOMAIN reference' : Legible(reference'[w])
  <2>1. PICK a, b, c : reference[v] = [status |-> a, text |-> b, items |-> c]
    BY DEF RefInv, RefTypes, IsReference
  <2>2. PICK e : e = [reference[v] EXCEPT !.status = to]
    OBVIOUS
  <2>3. e = [status |-> to, text |-> b, items |-> c]
    BY <2>1, <2>2
  <2>4. Legible(reference[v])
    BY DEF RefNamed
  <2>5. Legible(e)
    BY <2>1, <2>3, <2>4 DEF Legible
  <2> QED
    BY <1>6, <2>2, <2>5, VersionNamed DEF Transition
<1>7. \A w \in DOMAIN reference' : Legible(reference'[w])
  BY <1>3, <1>4, <1>5, <1>6 DEF PublishReference, ArchiveReference, RestoreReference
<1> QED
  BY <1>1, <1>2, <1>7 DEF RefNamed, IsDerived

(* Requests and tokens go on. *)
LEMMA RequestsNamed ==
    ASSUME RefInv, RefNamed, NEW r \in Requests,
           \/ \E v \in DOMAIN reference :
                 \/ CopyBegin(r, v)
                 \/ \E order : ReorderBegin(r, v, order)
                 \/ \E mask \in Masks : AddItem(r, v, mask)
                 \/ \E key : FindItem(r, v, key)
           \/ \E t \in Tokens : CheckToken(r, t)
           \/ DeleteObjects(r) \/ StopRequest(r)
    PROVE  RefNamed'
<1>1. UNCHANGED <<reference, token, made>> /\ images' \subseteq images
  BY DEF CopyBegin, ReorderBegin, AddItem, FindItem, CheckToken, DeleteObjects, StopRequest
<1>2. ASSUME NEW v \in DOMAIN reference, CopyBegin(r, v)
      PROVE  \E q : Goes(r, q) /\ Brings(q)
  <2>1. PICK q : q = [stage |-> "copying", number |-> Len(reference) + 1,
                      text |-> reference[v].text, items |-> reference[v].items]
    OBVIOUS
  <2>2. Brings(q)
    BY <2>1 DEF Brings, RefNamed, Legible
  <2> QED
    BY <1>2, <2>1, <2>2 DEF CopyBegin
<1>3. ASSUME NEW v \in DOMAIN reference, NEW order, ReorderBegin(r, v, order)
      PROVE  \E q : Goes(r, q) /\ Brings(q)
  <2>1. PICK q : q = [stage |-> "ordering", version |-> v, order |-> order]
    OBVIOUS
  <2> QED
    BY <1>3, <2>1 DEF ReorderBegin, Brings
<1>4. ASSUME NEW v \in DOMAIN reference, NEW mask \in Masks, AddItem(r, v, mask)
      PROVE  \E q : Goes(r, q) /\ Brings(q)
  <2>1. PICK q : q = [stage |-> "claimed", token |-> NoToken, version |-> v, mask |-> mask]
    OBVIOUS
  <2>2. Brings(q)
    BY <1>4, <2>1 DEF AddItem, Brings, IsCover
  <2> QED
    BY <1>4, <2>1, <2>2 DEF AddItem
<1>5. ASSUME NEW v \in DOMAIN reference, NEW key, FindItem(r, v, key)
      PROVE  \E q : Goes(r, q) /\ Brings(q)
  <2>1. PICK q : q = [stage |-> "found", version |-> v, key |-> key]
    OBVIOUS
  <2> QED
    BY <1>5, <2>1 DEF FindItem, Brings
<1>6. ASSUME NEW t \in Tokens, CheckToken(r, t)
      PROVE  \E q : Goes(r, q) /\ Brings(q)
  <2>1. PICK q : q = [stage |-> "checked", token |-> t, version |-> token[t].version,
                      mask |-> token[t].mask]
    OBVIOUS
  <2>2. IsCover(token[t].mask)
    BY <1>6 DEF CheckToken, RefNamed, Carries, IsCover
  <2> QED
    BY <1>6, <2>1, <2>2 DEF CheckToken, Brings
<1>7. ASSUME DeleteObjects(r) \/ StopRequest(r)
      PROVE  \E q : Goes(r, q) /\ Brings(q)
  BY <1>7 DEF DeleteObjects, StopRequest, Ends, Brings, NoRequest
<1>8. PICK q : Goes(r, q) /\ Brings(q)
  BY <1>2, <1>3, <1>4, <1>5, <1>6, <1>7
<1> QED
  BY <1>1, <1>8, RequestNamed DEF RefNamed, IsDerived

LEMMA TokensNamed ==
    ASSUME RefInv, RefNamed, NEW t \in Tokens,
           \/ \E v \in DOMAIN reference, mask \in Masks : IssueToken(t, v, mask)
           \/ PutPicture(t)
    PROVE  RefNamed'
<1>1. UNCHANGED <<reference, made, images, request>>
  BY DEF IssueToken, PutPicture
<1>2. ASSUME NEW v \in DOMAIN reference, NEW mask \in Masks, IssueToken(t, v, mask)
      PROVE  \A u \in Tokens : Carries(token'[u])
  <2>1. PICK e : e = [state |-> "issued", version |-> v, mask |-> mask, arrived |-> FALSE]
    OBVIOUS
  <2>2. Carries(e) /\ token' = [token EXCEPT ![t] = e]
    BY <1>2, <2>1 DEF IssueToken, Carries
  <2> QED
    BY <2>2 DEF RefInv, RefTypes, RefNamed
<1>3. ASSUME PutPicture(t) PROVE \A u \in Tokens : Carries(token'[u])
  <2>1. token[t].state # "unused" /\ token' = [token EXCEPT ![t].arrived = TRUE]
    BY <1>3 DEF PutPicture
  <2> QED
    BY <2>1, TokenNamed
<1> QED
  BY <1>1, <1>2, <1>3 DEF RefNamed, IsDerived

(* A token is claimed, or given back. *)
LEMMA ClaimsNamed ==
    ASSUME RefInv, RefNamed, NEW r \in Requests, ClaimToken(r) \/ StoreFails(r)
    PROVE  RefNamed'
<1>1. UNCHANGED <<reference, made, images>>
  BY DEF ClaimToken, StoreFails
<1>2. Brings(NoRequest)
  BY DEF Brings, NoRequest
<1>3. ASSUME StoreFails(r)
      PROVE  (\A s \in Requests : Brings(request'[s])) /\ \A u \in Tokens : Carries(token'[u])
  BY <1>2, <1>3, RequestNamed, BackNamed DEF StoreFails, Ends
<1>4. ASSUME ClaimToken(r)
      PROVE  (\A s \in Requests : Brings(request'[s])) /\ \A u \in Tokens : Carries(token'[u])
  <2>1. PICK old : old = request[r] /\ IsRequest(old) /\ old.stage = "checked"
    BY <1>4, Asked DEF ClaimToken
  <2>2. old.token \in Tokens /\ token[old.token].state # "unused" /\ Claimer(old)
    BY <2>1 DEF IsRequest, NoRequest
  <2>3. PICK q : q = [old EXCEPT !.stage = "claimed"]
    OBVIOUS
  <2>4. Brings(q)
    <3>1. PICK a, b, c : old = [stage |-> "checked", token |-> a, version |-> b, mask |-> c]
      <4>1. old = [stage |-> "checked", token |-> old.token,
                   version |-> old.version, mask |-> old.mask]
        BY <2>1, <2>2 DEF Claimer
      <4>2. PICK a, b, c : a = old.token /\ b = old.version /\ c = old.mask
        OBVIOUS
      <4> QED
        BY <4>1, <4>2
    <3>2. q = [stage |-> "claimed", token |-> a, version |-> b, mask |-> c]
      BY <2>3, <3>1
    <3>3. IsCover(c)
      <4>1. IsCover(old.mask)
        BY <2>1 DEF RefNamed, Brings
      <4> QED
        BY <3>1, <4>1
    <3> QED
      BY <3>2, <3>3 DEF Brings
  <2>5. \/ Goes(r, q) /\ token' = [token EXCEPT ![old.token].state = "consumed"]
        \/ Goes(r, NoRequest) /\ UNCHANGED token
    BY <1>4, <2>1, <2>3 DEF ClaimToken, Ends
  <2>6. \A s \in Requests : Brings(request'[s])
    BY <1>2, <2>4, <2>5, RequestNamed
  <2>7. \A u \in Tokens : Carries(token'[u])
    BY <2>2, <2>5, TokenNamed DEF RefNamed
  <2> QED
    BY <2>6, <2>7
<1> QED
  BY <1>1, <1>3, <1>4 DEF RefNamed, IsDerived

LEMMA RefNamedInvariant == RefSpec => [](RefInv /\ RefNamed)
<1>1. RefInit => RefNamed
  BY DEF RefInit, RefNamed, Carries, Brings, NoRequest
<1>2. ASSUME RefInv, RefNamed, RefNext PROVE RefNamed'
  BY <1>2, VersionsNamed, RequestsNamed, TokensNamed, ClaimsNamed, RowsNamed, PicturesNamed
     DEF RefNext
<1>3. RefNamed /\ UNCHANGED refVars => RefNamed'
  BY DEF refVars, RefNamed, IsDerived
<1>4. RefInv /\ RefNamed /\ [RefNext]_refVars => RefNamed'
  BY <1>2, <1>3
<1> QED
  BY <1>1, <1>4, RefInvariant, PTL DEF RefSpec

LEMMA ReferenceTypes == RefSpec => []RefTypeOK
<1>1. RefInv /\ RefNamed => RefTypeOK
  <2> SUFFICES ASSUME RefInv, RefNamed PROVE RefTypeOK
    OBVIOUS
  <2>1. DOMAIN token = Tokens /\ DOMAIN request = Requests
    BY DEF RefInv, RefTypes
  <2>2. \A v \in DOMAIN reference : Legible(reference[v]) /\ Items(v) \subseteq DOMAIN made
    BY DEF RefInv, RefTypes, IsReference, RefNamed, Items
  <2>3. \A t \in Tokens : token[t].state \in {"unused", "issued", "consumed"}
    BY DEF RefInv, RefTypes, IsToken
  <2>4. \A r \in Requests : request[r].stage \in {"idle", "checked", "claimed", "stored", "found",
                                                  "deleted", "ordering", "copying"}
    BY DEF RefInv, RefTypes, IsRequest, NoRequest
  <2> QED
    BY <2>1, <2>2, <2>3, <2>4 DEF RefTypeOK, RefNamed, Legible
<1> QED
  BY <1>1, RefNamedInvariant, PTL

(* A mask lies between its least and its largest column and row. *)
LEMMA Spans ==
    ASSUME NEW n \in Nat, NEW S \in SUBSET (0..n - 1), S # {}
    PROVE  /\ Min(S) \in S /\ Max(S) \in S
           /\ \A m \in S : Min(S) <= m /\ m <= Max(S)
<1>1. \E m \in S : \A k \in S : m <= k
  BY Least
<1>2. Min(S) \in S /\ \A k \in S : Min(S) <= k
  BY <1>1 DEF Min
<1>3. PICK T \in SUBSET Nat : T = {n - m : m \in S}
  <2>1. PICK T : T = {n - m : m \in S}
    OBVIOUS
  <2>2. \A m \in S : n - m \in Nat
    OBVIOUS
  <2> QED
    BY <2>1, <2>2
<1>4. PICK l \in T : \A k \in T : l <= k
  BY <1>3, Least
<1>5. \E m \in S : \A k \in S : m >= k
  <2>1. PICK m \in S : l = n - m
    BY <1>3, <1>4
  <2>2. \A k \in S : n - k \in T
    BY <1>3
  <2>3. \A k \in S : l <= n - k
    BY <1>4, <2>2
  <2> QED
    BY <2>1, <2>3
<1>6. Max(S) \in S /\ \A k \in S : Max(S) >= k
  BY <1>5 DEF Max
<1> QED
  BY <1>2, <1>6

(* The box of a mask holds what is between two of its columns and two of its *)
(* rows, and a usable mask leaves a corner of the picture.                   *)
LEMMA BoxFacts ==
    ASSUME NEW mask \in SUBSET Pixels, mask # {}
    PROVE  /\ \A p \in Pixels, a, b, e, f \in mask :
                  p[1] \in a[1]..b[1] /\ p[2] \in e[2]..f[2] => p \in Box(mask)
           /\ Protected(mask) => Pixels \ Box(mask) # {}
<1> DEFINE X == {m[1] : m \in mask}
           Y == {m[2] : m \in mask}
<1>1. Width \in Nat /\ Height \in Nat /\ Width > 0 /\ Height > 0
  BY PictureAssumption
<1>2. \A p \in Pixels : p = <<p[1], p[2]>> /\ p[1] \in 0..Width - 1 /\ p[2] \in 0..Height - 1
  BY DEF Pixels
<1>3. X \in SUBSET (0..Width - 1) /\ Y \in SUBSET (0..Height - 1) /\ X # {} /\ Y # {}
  BY <1>2
<1>4. \A p : p \in Box(mask) <=> p \in Pixels /\ Between(p[1], X) /\ Between(p[2], Y)
  BY DEF Box
<1>5. \A m \in mask : m[1] \in X /\ m[2] \in Y
  OBVIOUS
<1>6. PICK x0, x1 : /\ x0 = Min(X) /\ x1 = Max(X) /\ x0 \in X /\ x1 \in X
                    /\ \A x \in X : x0 <= x /\ x <= x1
  BY <1>1, <1>3, Spans
<1>7. PICK y0, y1 : /\ y0 = Min(Y) /\ y1 = Max(Y) /\ y0 \in Y /\ y1 \in Y
                    /\ \A y \in Y : y0 <= y /\ y <= y1
  BY <1>1, <1>3, Spans
<1>8. /\ \A k : Between(k, X) <=> x0 <= k /\ k <= x1
      /\ \A k : Between(k, Y) <=> y0 <= k /\ k <= y1
  BY <1>6, <1>7 DEF Between
<1>9. Protected(mask) => x0 > 0 \/ x1 < Width - 1 \/ y0 > 0 \/ y1 < Height - 1
  BY <1>6, <1>7 DEF Protected
<1> HIDE DEF X, Y
<1>10. x0 \in Int /\ x1 \in Int /\ y0 \in Int /\ y1 \in Int
  BY <1>3, <1>6, <1>7
<1>11. ASSUME NEW p \in Pixels, NEW a \in mask, NEW b \in mask, NEW e \in mask, NEW f \in mask,
              p[1] \in a[1]..b[1], p[2] \in e[2]..f[2]
       PROVE  p \in Box(mask)
  <2>1. /\ a[1] \in Int /\ b[1] \in Int /\ e[2] \in Int /\ f[2] \in Int
        /\ x0 <= a[1] /\ b[1] <= x1 /\ y0 <= e[2] /\ f[2] <= y1
    <3>1. a[1] \in X /\ b[1] \in X /\ e[2] \in Y /\ f[2] \in Y
      BY <1>5
    <3>2. /\ \A x \in X : x \in Int /\ x0 <= x /\ x <= x1
          /\ \A y \in Y : y \in Int /\ y0 <= y /\ y <= y1
      <4>1. X \subseteq Int /\ Y \subseteq Int
        BY <1>1, <1>3
      <4> QED
        BY <1>6, <1>7, <4>1
    <3> QED
      BY <3>1, <3>2
  <2>2. x0 <= p[1] /\ p[1] <= x1 /\ y0 <= p[2] /\ p[2] <= y1
    BY <1>10, <1>11, <2>1
  <2> QED
    BY <1>4, <1>8, <2>2
<1>12. ASSUME Protected(mask) PROVE Pixels \ Box(mask) # {}
  <2>1. PICK w, h : w = Width - 1 /\ h = Height - 1 /\ w \in Nat /\ h \in Nat
    BY <1>1
  <2>2. PICK low, high : low = <<0, 0>> /\ high = <<w, h>>
    OBVIOUS
  <2>3. low \in Pixels /\ high \in Pixels
    BY <1>1, <2>1, <2>2 DEF Pixels
  <2>4. low[1] = 0 /\ low[2] = 0 /\ high[1] = w /\ high[2] = h
    BY <2>2
  <2>5. low \notin Box(mask) \/ high \notin Box(mask)
    BY <1>4, <1>8, <1>9, <1>10, <1>12, <2>1, <2>4
  <2> QED
    BY <2>3, <2>5
<1> QED
  BY <1>11, <1>12

(* No upload, however it is repeated or interrupted, brings a picture that   *)
(* shows the product its mask covers, its outline, or nothing at all         *)
(* (reference_grants.go neutralizeMaskedProduct, called by                   *)
(* ai_reference_sops.go).                                                    *)
THEOREM ProductStaysHidden == RefSpec => []DerivativesHideProduct
<1>1. ASSUME NEW d, IsDerived(d)
      PROVE  /\ d.shown # {} /\ d.shown \cap d.mask = {}
             /\ \A p \in d.shown, a, b \in d.mask :
                    ~(p[1] \in a[1]..b[1] /\ \E e, f \in d.mask : p[2] \in e[2]..f[2])
  <2>1. CASE d.mask = {}
    <3>1. d.shown = Pixels /\ <<0, 0>> \in Pixels
      BY <1>1, <2>1, PictureAssumption DEF IsDerived, Retained, Pixels
    <3> QED
      BY <2>1, <3>1
  <2>2. CASE d.mask # {}
    <3>1. d.mask \in SUBSET Pixels /\ Protected(d.mask)
      BY <1>1, <2>2, MaskAssumption DEF IsDerived, IsCover, Usable
    <3>2. d.shown = Pixels \ Box(d.mask)
      BY <1>1, <2>2 DEF IsDerived, Retained
    <3>3. \A p \in Pixels, a, b, e, f \in d.mask :
              p[1] \in a[1]..b[1] /\ p[2] \in e[2]..f[2] => p \in Box(d.mask)
      BY <2>2, <3>1, BoxFacts
    <3>4. Pixels \ Box(d.mask) # {}
      BY <2>2, <3>1, BoxFacts
    <3>5. \A m \in d.mask : m[1] \in m[1]..m[1] /\ m[2] \in m[2]..m[2]
      BY <3>1 DEF Pixels
    <3>6. d.shown \cap d.mask = {}
      BY <3>1, <3>2, <3>3, <3>5
    <3> QED
      BY <3>2, <3>3, <3>4, <3>6
  <2> QED
    BY <2>1, <2>2
<1>2. RefInv /\ RefNamed => DerivativesHideProduct
  <2> SUFFICES ASSUME RefInv, RefNamed, NEW d \in ToSet(made)
               PROVE  IsDerived(d)
    BY <1>1 DEF DerivativesHideProduct
  <2>1. PICK k \in DOMAIN made : d = made[k]
    BY DEF ToSet
  <2> QED
    BY <2>1 DEF RefNamed
<1> QED
  BY <1>2, RefNamedInvariant, PTL

-----------------------------------------------------------------------------

(* Whichever office is at work, every row stays of its kind and what one row *)
(* says of another names a row that is there: the keys of shown images, the  *)
(* dimensions and assets of manifests, the pictures of references            *)
(* (inventory_handlers.go, sop_service.go, variant_manifests.go and          *)
(* ai_reference_sops.go).                                                    *)
THEOREM OfficesKeepTypes == Spec /\ SOPSpec /\ FamSpec /\ RefSpec => []OfficeTypeOK
<1>1. TypeOK /\ SOPTypeOK /\ FamTypeOK /\ RefTypeOK => OfficeTypeOK
  BY DEF OfficeTypeOK
<1> QED
  BY <1>1, InventoryTypeOK, SopTypes, FamTypes, ReferenceTypes, PTL
=============================================================================
