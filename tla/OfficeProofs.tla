---------------------------- MODULE OfficeProofs ----------------------------
(***************************************************************************)
(* What the offices around the AI workers do, for any number of whatever     *)
(* they keep: templates (ContentTemplates.tla), jobs (JobCreation.tla), the *)
(* review of texts (TextReview.tla), the provider's settings                *)
(* (ProviderSettings.tla), the costs (CostAccounting.tla).                  *)
(*                                                                         *)
(* Templates: the rows of the versions, in the order in which they were     *)
(* made, live as VersionLifecycle says.  A version is made into an entry of *)
(* the shelf (Entry); adding and changing a row is adding and changing its  *)
(* entry, and each operation is one step of the life cycle.  A template     *)
(* shows what its versions are (Showing), and a row that was published is   *)
(* its publication (Standing).                                              *)
(*                                                                         *)
(* Jobs: a key has one job, and who is given it asked for it.  OneJobPerKey *)
(* is not inductive alone: an answer must name a job that is there, or a    *)
(* later job would take its place (Answers), and a request must be one of   *)
(* those that hash to themselves (Sent).  A job covers its request, for the *)
(* checks let through only what fits (Passing, ItemsCover), and a published *)
(* template is not to blame for a refusal, for publication checks as much.  *)
(*                                                                         *)
(* Texts: who holds the SKU has read the content as it is, and alone        *)
(* (Reading), so what it writes follows on what was written last.           *)
(*                                                                         *)
(* Settings: a call in flight works with the key, mode and model that the   *)
(* settings name, unless they were replaced under it (SettingsInv), so what *)
(* it stamps is what it has proven.                                         *)
(*                                                                         *)
(* Costs: a ledger is what some of its charges come to, and whoever prices  *)
(* it holds some of them (PricingInv): two at once may leave it behind, but *)
(* never priced in part.  A sync beside which nothing happens holds what    *)
(* the tables say (Settled): each bucket of its span is still to come, in   *)
(* hand, or in order, and the version in hand has a row for each job it has *)
(* come to and adds up to what it has given (HalfAllocated).                *)
(*                                                                         *)
(* The types follow from these invariants and from what comes in and is      *)
(* handed on before it is written (Entered, KeysKnown, RatesInv, CostsNamed). *)
(***************************************************************************)
EXTENDS AIOffice, DataFacts

-----------------------------------------------------------------------------
(* Templates keep the life cycle *)

Entry(row) ==
    [parent |-> row.template, status |-> row.status, content |-> <<row.prompt, row.slots>>]
Shelf(rows) == [v \in DOMAIN rows |-> Entry(rows[v])]

IsVersion(row) ==
    row = [template |-> row.template, number |-> row.number, status |-> row.status,
           prompt |-> row.prompt, slots |-> row.slots]

(* Versions are rows of templates that exist. *)
Rows ==
    /\ IsSeq(templates) /\ IsSeq(versions)
    /\ \A v \in DOMAIN versions :
           IsVersion(versions[v]) /\ versions[v].template \in DOMAIN templates

-----------------------------------------------------------------------------
LEMMA ShelfOfSeq ==
    ASSUME NEW rows, IsSeq(rows)
    PROVE  IsSeq(Shelf(rows)) /\ DOMAIN Shelf(rows) = DOMAIN rows /\ Len(Shelf(rows)) = Len(rows)
<1>1. DOMAIN Shelf(rows) = 1..Len(rows) /\ Len(rows) \in Nat
      /\ Shelf(rows) = [i \in 1..Len(rows) |-> Shelf(rows)[i]]
  BY SeqFacts DEF Shelf
<1>2. IsSeq(Shelf(rows))
  BY <1>1 DEF IsSeq
<1>3. DOMAIN Shelf(rows) = 1..Len(Shelf(rows)) /\ Len(Shelf(rows)) \in Nat
  BY <1>2, SeqFacts
<1> QED
  BY <1>1, <1>2, <1>3, SeqFacts

LEMMA ShelfOfAppend ==
    ASSUME NEW rows, IsSeq(rows), NEW row
    PROVE  Shelf(Append(rows, row)) = Append(Shelf(rows), Entry(row))
<1> DEFINE n == Len(rows)
<1>1. /\ n \in Nat /\ DOMAIN rows = 1..n
      /\ DOMAIN Append(rows, row) = 1..(n + 1)
      /\ \A i \in 1..(n + 1) : Append(rows, row)[i] = IF i = n + 1 THEN row ELSE rows[i]
  BY AppendFacts, SeqFacts
<1>2. Append(Shelf(rows), Entry(row))
         = [i \in 1..(n + 1) |-> IF i = n + 1 THEN Entry(row) ELSE Shelf(rows)[i]]
  BY ShelfOfSeq, AppendFacts
<1>3. \A i \in 1..(n + 1) : Entry(Append(rows, row)[i])
         = IF i = n + 1 THEN Entry(row) ELSE Shelf(rows)[i]
  BY <1>1 DEF Shelf
<1> HIDE DEF n
<1>4. Shelf(Append(rows, row)) = [i \in 1..(n + 1) |-> Entry(Append(rows, row)[i])]
  BY <1>1 DEF Shelf
<1> QED
  BY <1>2, <1>3, <1>4

LEMMA ShelfOfExcept ==
    ASSUME NEW rows, NEW k \in DOMAIN rows, NEW row
    PROVE  Shelf([rows EXCEPT ![k] = row]) = [Shelf(rows) EXCEPT ![k] = Entry(row)]
  BY DEF Shelf

-----------------------------------------------------------------------------
(* The rows stay rows.  An operation adds one or changes one; templates are  *)
(* only added.                                                               *)
LEMMA Added ==
    ASSUME Rows, NEW row, IsVersion(row), versions' = Append(versions, row),
           IsSeq(templates'), DOMAIN templates \subseteq DOMAIN templates',
           row.template \in DOMAIN templates'
    PROVE  Rows'
<1>1. /\ IsSeq(versions') /\ DOMAIN versions' = 1..(Len(versions) + 1)
      /\ \A v \in 1..(Len(versions) + 1) :
             versions'[v] = IF v = Len(versions) + 1 THEN row ELSE versions[v]
  BY AppendFacts DEF Rows
<1>2. DOMAIN versions = 1..Len(versions) /\ Len(versions) \in Nat
  BY SeqFacts DEF Rows
<1>3. \A v \in DOMAIN versions' : v # Len(versions) + 1 => v \in DOMAIN versions
  BY <1>1, <1>2
<1>4. ASSUME NEW v \in DOMAIN versions'
      PROVE  IsVersion(versions'[v]) /\ versions'[v].template \in DOMAIN templates'
  <2>1. CASE v = Len(versions) + 1
    BY <1>1, <2>1
  <2>2. CASE v # Len(versions) + 1
    BY <1>1, <1>3, <2>2 DEF Rows
  <2> QED
    BY <2>1, <2>2
<1> QED
  BY <1>1, <1>4 DEF Rows

LEMMA Changed ==
    ASSUME Rows, NEW v \in DOMAIN versions, NEW row, IsVersion(row),
           versions' = [versions EXCEPT ![v] = row], row.template = versions[v].template,
           IsSeq(templates'), DOMAIN templates' = DOMAIN templates
    PROVE  Rows'
<1>1. IsSeq(versions') /\ DOMAIN versions' = DOMAIN versions
  BY ExceptFacts DEF Rows
<1>2. \A w \in DOMAIN versions' : versions'[w] = IF w = v THEN row ELSE versions[w]
  BY <1>1
<1> QED
  BY <1>1, <1>2 DEF Rows

(* A row with some of its fields changed. *)
Turning(row, to) == [row EXCEPT !.status = to]
Editing(row, p, s) == [row EXCEPT !.prompt = p, !.slots = s]
Copying(row, n) == [row EXCEPT !.status = "draft", !.number = n]

LEMMA Versions ==
    ASSUME NEW row, IsVersion(row), NEW x, NEW y
    PROVE  /\ IsVersion(Turning(row, x)) /\ Turning(row, x).template = row.template
           /\ Entry(Turning(row, x)) = [Entry(row) EXCEPT !.status = x]
           /\ IsVersion(Editing(row, x, y)) /\ Editing(row, x, y).template = row.template
           /\ Entry(Editing(row, x, y)) = [Entry(row) EXCEPT !.content = <<x, y>>]
           /\ IsVersion(Copying(row, y)) /\ Copying(row, y).template = row.template
           /\ Entry(Copying(row, y)) = [Entry(row) EXCEPT !.status = "draft"]
<1> DEFINE R(t, n, st, p, sl) ==
        [template |-> t, number |-> n, status |-> st, prompt |-> p, slots |-> sl]
<1>1. PICK t, n, st, p, sl : row = R(t, n, st, p, sl)
  BY DEF IsVersion
<1>2. /\ Turning(row, x) = R(t, n, x, p, sl)
      /\ Editing(row, x, y) = R(t, n, st, x, y)
      /\ Copying(row, y) = R(t, y, "draft", p, sl)
  <2>1. [row EXCEPT !.status = x] = R(t, n, x, p, sl)
    BY <1>1
  <2>2. [row EXCEPT !.prompt = x] = R(t, n, st, x, sl)
    BY <1>1
  <2>3. [R(t, n, st, x, sl) EXCEPT !.slots = y] = R(t, n, st, x, y)
    OBVIOUS
  <2>4. [row EXCEPT !.status = "draft"] = R(t, n, "draft", p, sl)
    BY <1>1
  <2>5. [R(t, n, "draft", p, sl) EXCEPT !.number = y] = R(t, y, "draft", p, sl)
    OBVIOUS
  <2> HIDE DEF R
  <2>6. Editing(row, x, y) = [[row EXCEPT !.prompt = x] EXCEPT !.slots = y]
    BY DEF Editing
  <2>7. Copying(row, y) = [[row EXCEPT !.status = "draft"] EXCEPT !.number = y]
    BY DEF Copying
  <2> QED
    BY <2>1, <2>2, <2>3, <2>4, <2>5, <2>6, <2>7 DEF Turning
<1>3. /\ Entry(row) = [parent |-> t, status |-> st, content |-> <<p, sl>>]
      /\ Entry(R(t, n, x, p, sl)) = [parent |-> t, status |-> x, content |-> <<p, sl>>]
      /\ Entry(R(t, n, st, x, y)) = [parent |-> t, status |-> st, content |-> <<x, y>>]
      /\ Entry(R(t, y, "draft", p, sl)) = [parent |-> t, status |-> "draft", content |-> <<p, sl>>]
  BY <1>1 DEF Entry
<1>4. \A a, b, c, d, e : IsVersion(R(a, b, c, d, e)) /\ R(a, b, c, d, e).template = a
  BY DEF IsVersion
<1>5. /\ [Entry(row) EXCEPT !.status = x] = [parent |-> t, status |-> x, content |-> <<p, sl>>]
      /\ [Entry(row) EXCEPT !.status = "draft"]
            = [parent |-> t, status |-> "draft", content |-> <<p, sl>>]
      /\ [Entry(row) EXCEPT !.content = <<x, y>>]
            = [parent |-> t, status |-> st, content |-> <<x, y>>]
  BY <1>3
<1>6. row.template = t
  BY <1>1
<1> HIDE DEF R
<1> QED
  BY <1>2, <1>3, <1>4, <1>5, <1>6

-----------------------------------------------------------------------------
(* What an addition or a change of a row does to the shelf. *)
LEMMA ShelfAdded ==
    ASSUME Rows, NEW row, versions' = Append(versions, row)
    PROVE  /\ TemplateShelf' = Append(TemplateShelf, Entry(row))
           /\ Len(TemplateShelf') = Len(TemplateShelf) + 1
           /\ TemplateShelf'[Len(TemplateShelf) + 1] = Entry(row)
<1>1. TemplateShelf = Shelf(versions) /\ TemplateShelf' = Shelf(versions')
  BY DEF TemplateShelf, Shelf, Entry
<1>2. TemplateShelf' = Append(TemplateShelf, Entry(row)) /\ IsSeq(TemplateShelf)
  BY <1>1, ShelfOfAppend, ShelfOfSeq DEF Rows
<1>3. Len(TemplateShelf) \in Nat
  BY <1>2, SeqFacts
<1> QED
  BY <1>2, <1>3, AppendFacts

LEMMA ShelfChanged ==
    ASSUME Rows, NEW v \in DOMAIN versions, NEW row, versions' = [versions EXCEPT ![v] = row]
    PROVE  /\ TemplateShelf' = [TemplateShelf EXCEPT ![v] = Entry(row)]
           /\ Len(TemplateShelf') = Len(TemplateShelf)
           /\ DOMAIN TemplateShelf = DOMAIN versions /\ TemplateShelf[v] = Entry(versions[v])
           /\ TemplateShelf'[v] = Entry(row)
<1>1. TemplateShelf = Shelf(versions) /\ TemplateShelf' = Shelf(versions')
  BY DEF TemplateShelf, Shelf, Entry
<1>2. /\ TemplateShelf' = [TemplateShelf EXCEPT ![v] = Entry(row)] /\ IsSeq(TemplateShelf)
      /\ DOMAIN TemplateShelf = DOMAIN versions
  BY <1>1, ShelfOfExcept, ShelfOfSeq DEF Rows
<1>3. TemplateShelf[v] = Entry(versions[v]) /\ TemplateShelf'[v] = Entry(row)
  BY <1>1, <1>2 DEF Shelf
<1> QED
  BY <1>2, <1>3, ExceptFacts

(* A version of a template that is drafted, read off the rows and the shelf. *)
LEMMA DraftsShown ==
    ASSUME Rows, NEW t
    PROVE  /\ WithStatus(t, "draft") = {} => ~Lifecycle!HasDraft(t)
           /\ t \notin DOMAIN templates => ~Lifecycle!HasDraft(t)
<1>1. /\ DOMAIN TemplateShelf = DOMAIN versions
      /\ \A v \in DOMAIN versions : /\ TemplateShelf[v].parent = versions[v].template
                                    /\ TemplateShelf[v].status = versions[v].status
  BY DEF TemplateShelf
<1> QED
  BY <1>1 DEF Lifecycle!HasDraft, WithStatus, VersionsOf, Exists, Rows

(* An operation that takes a version from one status to another turns it. *)
LEMMA Turned ==
    ASSUME Rows, NEW v \in DOMAIN versions, NEW from, NEW to, versions[v].status = from,
           versions' = [versions EXCEPT ![v].status = to],
           IsSeq(templates'), DOMAIN templates' = DOMAIN templates
    PROVE  Rows' /\ Lifecycle!Turn(v, from, to)
<1> DEFINE row == Turning(versions[v], to)
<1>1. versions' = [versions EXCEPT ![v] = row] /\ IsVersion(versions[v])
  BY DEF Rows, Turning
<1>2. /\ IsVersion(row) /\ row.template = versions[v].template
      /\ Entry(row) = [Entry(versions[v]) EXCEPT !.status = to]
  BY <1>1, Versions
<1> HIDE DEF row
<1>3. Rows'
  BY <1>1, <1>2, Changed
<1>4. /\ TemplateShelf' = [TemplateShelf EXCEPT ![v] = Entry(row)]
      /\ TemplateShelf[v] = Entry(versions[v])
  BY <1>1, ShelfChanged
<1>5. TemplateShelf' = [TemplateShelf EXCEPT ![v].status = to]
  BY <1>2, <1>4
<1>6. TemplateShelf[v].status = from
  BY <1>4 DEF Entry
<1> QED
  BY <1>3, <1>5, <1>6 DEF Lifecycle!Turn

-----------------------------------------------------------------------------
(* Each operation is a step of the life cycle. *)
LEMMA CreateStep ==
    ASSUME Rows, NEW form, CreateTemplate(form)
    PROVE  Rows' /\ \E p \in 1..MaxTemplates : Lifecycle!Create(p)
<1> DEFINE t == Len(templates) + 1
           row == NewVersion(t, 1, form)
<1>1. /\ versions' = Append(versions, row) /\ Len(templates) < MaxTemplates
      /\ IsSeq(templates') /\ DOMAIN templates' = 1..t
      /\ DOMAIN templates = 1..Len(templates) /\ Len(templates) \in Nat
  BY AppendFacts, SeqFacts DEF CreateTemplate, AddVersion, Rows
<1>2. /\ IsVersion(row) /\ row.template = t /\ Entry(row).parent = t
      /\ Entry(row) = [parent |-> t, status |-> "draft", content |-> Entry(row).content]
  BY DEF NewVersion, IsVersion, Entry
<1>3. t \in 1..MaxTemplates /\ t \notin DOMAIN templates
      /\ t \in DOMAIN templates' /\ DOMAIN templates \subseteq DOMAIN templates'
  BY <1>1, TemplateBoundsAssumption
<1> HIDE DEF row, t
<1>4. Rows'
  BY <1>1, <1>2, <1>3, Added
<1>5. Lifecycle!Create(t)
  BY <1>1, <1>2, <1>3, ShelfAdded, DraftsShown DEF Lifecycle!Create, Lifecycle!NewDraft
<1> QED
  BY <1>3, <1>4, <1>5

LEMMA UpdateStep ==
    ASSUME Rows, NEW v \in DOMAIN versions, NEW form, UpdateDraft(v, form)
    PROVE  Rows' /\ Lifecycle!Edit(v)
<1> DEFINE row == Editing(versions[v], form.prompt, NormalizeSlots(form.slots))
           t == versions[v].template
<1>1. /\ versions' = [versions EXCEPT ![v] = row] /\ versions[v].status = "draft"
      /\ IsVersion(versions[v]) /\ t \in DOMAIN templates
  BY DEF UpdateDraft, Rows, Editing
<1>2. IsSeq(templates') /\ DOMAIN templates' = DOMAIN templates
  <2>1. templates' = [templates EXCEPT ![t] = templates'[t]]
    BY <1>1 DEF UpdateDraft
  <2> QED
    BY <1>1, <2>1, ExceptFacts DEF Rows
<1>3. /\ IsVersion(row) /\ row.template = versions[v].template
      /\ \E c : Entry(row) = [Entry(versions[v]) EXCEPT !.content = c] /\ Entry(row).content = c
  <2> DEFINE c == <<form.prompt, NormalizeSlots(form.slots)>>
  <2>1. /\ IsVersion(row) /\ row.template = versions[v].template
        /\ Entry(row) = [Entry(versions[v]) EXCEPT !.content = c]
    BY <1>1, Versions
  <2>2. [Entry(versions[v]) EXCEPT !.content = c].content = c
    BY DEF Entry
  <2> HIDE DEF c, row
  <2> QED
    BY <2>1, <2>2
<1> HIDE DEF row
<1>4. Rows'
  BY <1>1, <1>2, <1>3, Changed
<1>5. /\ TemplateShelf' = [TemplateShelf EXCEPT ![v] = Entry(row)]
      /\ Len(TemplateShelf') = Len(TemplateShelf)
      /\ TemplateShelf[v] = Entry(versions[v]) /\ TemplateShelf'[v] = Entry(row)
  BY <1>1, ShelfChanged
<1>6. TemplateShelf' = [TemplateShelf EXCEPT ![v].content = TemplateShelf'[v].content]
  BY <1>3, <1>5
<1>7. TemplateShelf[v].status = "draft"
  BY <1>1, <1>5 DEF Entry
<1> QED
  BY <1>4, <1>5, <1>6, <1>7 DEF Lifecycle!Edit

LEMMA CopyStep ==
    ASSUME Rows, NEW v \in DOMAIN versions, CopyVersion(v)
    PROVE  Rows' /\ Lifecycle!Copy(v)
<1> DEFINE t == versions[v].template
           number == Max({versions[w].number : w \in VersionsOf(t)}) + 1
           row == Copying(versions[v], number)
<1>1. /\ versions' = Append(versions, row) /\ versions[v].status = "published"
      /\ WithStatus(t, "draft") = {} /\ templates' = templates
      /\ IsVersion(versions[v]) /\ t \in DOMAIN templates
  BY DEF CopyVersion, AddVersion, Rows, Copying
<1> HIDE DEF number
<1>2. /\ IsVersion(row) /\ row.template = t
      /\ Entry(row) = [Entry(versions[v]) EXCEPT !.status = "draft"]
  BY <1>1, Versions
<1> HIDE DEF row, t
<1>3. Rows'
  BY <1>1, <1>2, Added DEF Rows
<1>4. TemplateShelf[v] = Entry(versions[v])
  BY DEF TemplateShelf, Entry
<1>5. /\ TemplateShelf[v].status = "published" /\ TemplateShelf[v].parent = t
      /\ Entry(row) = [parent |-> TemplateShelf[v].parent, status |-> "draft",
                       content |-> TemplateShelf[v].content]
  BY <1>1, <1>2, <1>4 DEF Entry, t
<1>6. ~Lifecycle!HasDraft(t) /\ TemplateShelf' = Append(TemplateShelf, Entry(row))
  BY <1>1, DraftsShown, ShelfAdded
<1> QED
  BY <1>3, <1>5, <1>6 DEF Lifecycle!Copy, Lifecycle!NewDraft

LEMMA TurnStep ==
    ASSUME Rows, NEW v \in DOMAIN versions,
           Publish(v) \/ Archive(v) \/ Restore(v) \/ DeleteDraft(v)
    PROVE  /\ Rows'
           /\ \/ Lifecycle!Turn(v, "draft", "published") \/ Lifecycle!Turn(v, "draft", "deleted")
              \/ Lifecycle!Turn(v, "published", "archived")
              \/ Lifecycle!Turn(v, "archived", "published")
<1> DEFINE t == versions[v].template
<1>1. IsSeq(templates) /\ t \in DOMAIN templates
  BY DEF Rows
<1>2. IsSeq(templates') /\ DOMAIN templates' = DOMAIN templates
  <2>1. \/ templates' = templates
        \/ \E x : templates' = [templates EXCEPT ![t] = x]
    BY <1>1 DEF Publish, Archive, Restore, DeleteDraft
  <2> QED
    BY <1>1, <2>1, ExceptFacts
<1>3. CASE Publish(v)
  BY <1>2, <1>3, Turned DEF Publish
<1>4. CASE Archive(v)
  BY <1>2, <1>4, Turned DEF Archive
<1>5. CASE Restore(v)
  BY <1>2, <1>5, Turned DEF Restore
<1>6. CASE DeleteDraft(v)
  BY <1>2, <1>6, Turned DEF DeleteDraft
<1> QED
  BY <1>3, <1>4, <1>5, <1>6

LEMMA TemplatesStep ==
    ASSUME Rows, [TemplatesNext]_templateVars
    PROVE  Rows' /\ [Lifecycle!LifeNext]_TemplateShelf
<1>1. CASE \E form \in Forms : CreateTemplate(form)
  BY <1>1, CreateStep DEF Lifecycle!LifeNext
<1>2. ASSUME NEW v \in DOMAIN versions,
             \/ \E form \in Forms : UpdateDraft(v, form)
             \/ CopyVersion(v)
             \/ Publish(v) \/ Archive(v) \/ Restore(v) \/ DeleteDraft(v)
      PROVE  Rows' /\ Lifecycle!LifeNext
  <2>1. v \in DOMAIN TemplateShelf
    BY DEF TemplateShelf
  <2>2. CASE \E form \in Forms : UpdateDraft(v, form)
    BY <2>1, <2>2, UpdateStep DEF Lifecycle!LifeNext
  <2>3. CASE CopyVersion(v)
    BY <2>1, <2>3, CopyStep DEF Lifecycle!LifeNext
  <2>4. CASE Publish(v) \/ Archive(v) \/ Restore(v) \/ DeleteDraft(v)
    BY <2>1, <2>4, TurnStep DEF Lifecycle!LifeNext
  <2> QED
    BY <1>2, <2>2, <2>3, <2>4
<1>3. CASE UNCHANGED templateVars
  <2>1. versions' = versions /\ templates' = templates
    BY <1>3 DEF templateVars
  <2> QED
    BY <2>1 DEF Rows, TemplateShelf
<1> QED
  BY <1>1, <1>2, <1>3 DEF TemplatesNext

(* Content templates keep the promise of VersionLifecycle (templates.go, all *)
(* the operations): one draft of a template at a time, edits and deletions   *)
(* of drafts alone, and publications that never change.                      *)
THEOREM TemplatesKeepLifecycle == TemplatesSpec => TemplateLifecycle
<1>1. TemplatesInit => Rows /\ Lifecycle!LifeInit
  <2> SUFFICES ASSUME TemplatesInit PROVE Rows /\ Lifecycle!LifeInit
    OBVIOUS
  <2>1. versions = <<>> /\ templates = <<>> /\ DOMAIN versions = {}
    BY DEF TemplatesInit
  <2>2. IsSeq(<<>>)
    <3>1. <<>> = [i \in 1..0 |-> <<>>[i]] /\ 0 \in Nat
      OBVIOUS
    <3> QED
      BY <3>1 DEF IsSeq
  <2>3. TemplateShelf = <<>>
    BY <2>1 DEF TemplateShelf
  <2> QED
    BY <2>1, <2>2, <2>3 DEF Rows, Lifecycle!LifeInit
<1>2. Rows /\ [TemplatesNext]_templateVars => Rows' /\ [Lifecycle!LifeNext]_TemplateShelf
  BY TemplatesStep
<1> QED
  BY <1>1, <1>2, PTL DEF TemplatesSpec, TemplateLifecycle, Lifecycle!LifeSpec

-----------------------------------------------------------------------------
(* Templates show their versions *)

Statuses == {"draft", "published", "archived", "deleted"}

IsTemplate(row) ==
    row = [named |-> row.named, platform |-> row.platform, status |-> row.status]

Typed ==
    /\ Rows
    /\ \A t \in DOMAIN templates : IsTemplate(templates[t])
    /\ \A v \in DOMAIN versions : versions[v].status \in Statuses /\ versions[v].number \in Nat

(* TemplateShowsVersions, said of the rows one by one. *)
OfTemplate(v, t) == v \in DOMAIN versions /\ versions[v].template = t
Has(t, s) == \E v \in DOMAIN versions : OfTemplate(v, t) /\ versions[v].status = s
GoneWithLast(t) ==
    (templates[t].status = "deleted") <=>
        (\A v \in DOMAIN versions : OfTemplate(v, t) => versions[v].status = "deleted")
ArchivedWithLast(t) ==
    (templates[t].status = "archived") <=> (~Has(t, "published") /\ Has(t, "archived"))
OneDraft(t) ==
    \A v, w \in DOMAIN versions :
        /\ OfTemplate(v, t) /\ versions[v].status = "draft"
        /\ OfTemplate(w, t) /\ versions[w].status = "draft"
        => v = w
NumbersOnce(t) ==
    \A v, w \in DOMAIN versions :
        /\ OfTemplate(v, t) /\ versions[v].status # "deleted"
        /\ OfTemplate(w, t) /\ versions[w].status # "deleted"
        /\ versions[v].number = versions[w].number
        => v = w

Shown(t) == GoneWithLast(t) /\ ArchivedWithLast(t) /\ OneDraft(t) /\ NumbersOnce(t)
Showing == Typed /\ \A t \in DOMAIN templates : Shown(t)

(* What the invariant says is what the property says. *)
LEMMA ShownMeaning == Showing => TemplateShowsVersions
<1> SUFFICES ASSUME Showing, NEW t \in DOMAIN templates
             PROVE  /\ (templates[t].status = "deleted") <=> (VersionsOf(t) = {})
                    /\ (templates[t].status = "archived") <=>
                           (WithStatus(t, "published") = {} /\ WithStatus(t, "archived") # {})
                    /\ Cardinality(WithStatus(t, "draft")) <= 1
                    /\ \A v, w \in VersionsOf(t) :
                           versions[v].number = versions[w].number => v = w
  BY DEF TemplateShowsVersions
<1>1. Shown(t)
  BY DEF Showing
<1>2. (templates[t].status = "deleted") <=> (VersionsOf(t) = {})
  BY <1>1 DEF Shown, GoneWithLast, VersionsOf, Exists, OfTemplate
<1>3. \A s \in {"draft", "published", "archived"} : WithStatus(t, s) = {} <=> ~Has(t, s)
  BY DEF Has, WithStatus, VersionsOf, Exists, OfTemplate
<1>4. (templates[t].status = "archived") <=>
          (WithStatus(t, "published") = {} /\ WithStatus(t, "archived") # {})
  BY <1>1, <1>3 DEF Shown, ArchivedWithLast
<1>5. Cardinality(WithStatus(t, "draft")) <= 1
  <2> DEFINE D == WithStatus(t, "draft")
  <2>1. \A v, w \in D : v = w
    BY <1>1 DEF Shown, OneDraft, WithStatus, VersionsOf, Exists, OfTemplate
  <2> HIDE DEF D
  <2>2. D = {} => Cardinality(D) <= 1
    BY FS_EmptySet
  <2>3. ASSUME NEW v \in D PROVE Cardinality(D) <= 1
    <3>1. D = {v}
      BY <2>1, <2>3
    <3> QED
      BY <3>1, FS_Singleton
  <2>4. Cardinality(D) <= 1
    BY <2>2, <2>3
  <2> QED
    BY <2>4 DEF D
<1>6. \A v, w \in VersionsOf(t) : versions[v].number = versions[w].number => v = w
  BY <1>1 DEF Shown, NumbersOnce, VersionsOf, Exists, OfTemplate
<1> QED
  BY <1>2, <1>4, <1>5, <1>6

(* The status of one template changes, or of none. *)
LEMMA TemplateTurned ==
    ASSUME Typed, NEW t \in DOMAIN templates, NEW s,
           templates' = [templates EXCEPT ![t].status = s]
    PROVE  /\ IsSeq(templates') /\ DOMAIN templates' = DOMAIN templates
           /\ templates'[t].status = s
           /\ \A u \in DOMAIN templates : u # t => templates'[u].status = templates[u].status
           /\ \A u \in DOMAIN templates : IsTemplate(templates'[u])
<1> DEFINE row == [templates[t] EXCEPT !.status = s]
<1>1. templates' = [templates EXCEPT ![t] = row] /\ IsTemplate(templates[t])
  BY DEF Typed
<1>2. IsTemplate(row) /\ row.status = s
  BY <1>1 DEF IsTemplate
<1> HIDE DEF row
<1>3. IsSeq(templates') /\ DOMAIN templates' = DOMAIN templates
  <2>1. IsSeq(templates)
    BY DEF Typed, Rows
  <2>2. /\ IsSeq([templates EXCEPT ![t] = row])
        /\ DOMAIN [templates EXCEPT ![t] = row] = DOMAIN templates
    BY <2>1, ExceptFacts
  <2> QED
    BY <1>1, <2>2
<1>4. \A u \in DOMAIN templates : templates'[u] = IF u = t THEN row ELSE templates[u]
  BY <1>1
<1> QED
  BY <1>2, <1>3, <1>4 DEF Typed

(* A version that turns from one status to another, with its template, which *)
(* then shows its versions if it says so of that version and the others.     *)
LEMMA VersionTurned ==
    ASSUME Typed, NEW v \in DOMAIN versions, NEW to \in Statuses,
           versions' = [versions EXCEPT ![v].status = to],
           IsSeq(templates'), DOMAIN templates' = DOMAIN templates,
           \A u \in DOMAIN templates : IsTemplate(templates'[u])
    PROVE  /\ Typed' /\ DOMAIN versions' = DOMAIN versions
           /\ versions'[v].status = to
           /\ \A w \in DOMAIN versions :
                  /\ versions'[w].template = versions[w].template
                  /\ versions'[w].number = versions[w].number
                  /\ w # v => versions'[w].status = versions[w].status
<1> DEFINE row == Turning(versions[v], to)
<1>1. /\ versions' = [versions EXCEPT ![v] = row] /\ IsVersion(versions[v])
      /\ row.status = to /\ row.number = versions[v].number
      /\ row.template = versions[v].template /\ IsVersion(row)
  <2>1. IsVersion(versions[v])
    BY DEF Typed, Rows
  <2> QED
    BY <2>1 DEF Turning, IsVersion
<1> HIDE DEF row
<1>2. Rows' /\ DOMAIN versions' = DOMAIN versions
  BY <1>1, Changed, ExceptFacts DEF Typed, Rows
<1>3. \A w \in DOMAIN versions : versions'[w] = IF w = v THEN row ELSE versions[w]
  BY <1>1
<1> QED
  BY <1>1, <1>2, <1>3 DEF Typed

(* The version that changes, and what does not. *)
Turns(v, to) ==
    /\ Typed /\ v \in DOMAIN versions /\ DOMAIN versions' = DOMAIN versions
    /\ versions'[v].status = to
    /\ \A w \in DOMAIN versions :
           /\ versions'[w].template = versions[w].template
           /\ versions'[w].number = versions[w].number
           /\ w # v => versions'[w].status = versions[w].status

(* Another template shows what it did. *)
LEMMA OthersShown ==
    ASSUME NEW v, NEW to, Turns(v, to), NEW u \in DOMAIN templates, Shown(u),
           versions[v].template # u, templates'[u].status = templates[u].status
    PROVE  Shown(u)'
<1>1. \A w \in DOMAIN versions : OfTemplate(w, u) =>
          versions'[w].status = versions[w].status /\ versions'[w].number = versions[w].number
  BY DEF Turns, OfTemplate
<1>2. DOMAIN versions' = DOMAIN versions
      /\ \A w \in DOMAIN versions : (versions'[w].template = u) <=> OfTemplate(w, u)
  BY DEF Turns, OfTemplate
<1>3. \A w : (w \in DOMAIN versions' /\ versions'[w].template = u) <=> OfTemplate(w, u)
  BY <1>2 DEF OfTemplate
<1>4. GoneWithLast(u)'
  BY <1>1, <1>2, <1>3 DEF Shown, GoneWithLast, OfTemplate
<1>5. ArchivedWithLast(u)'
  BY <1>1, <1>2, <1>3 DEF Shown, ArchivedWithLast, Has, OfTemplate
<1>6. OneDraft(u)'
  BY <1>1, <1>2, <1>3 DEF Shown, OneDraft, OfTemplate
<1>7. NumbersOnce(u)'
  BY <1>1, <1>2, <1>3 DEF Shown, NumbersOnce, OfTemplate
<1> QED
  BY <1>4, <1>5, <1>6, <1>7 DEF Shown

(* A turn that makes no draft and revives nothing leaves one draft at most   *)
(* and its numbers to each version.                                          *)
LEMMA TurnKeepsNumbers ==
    ASSUME NEW v, NEW to, Turns(v, to), NEW u \in DOMAIN templates, Shown(u),
           to # "draft", versions[v].status # "deleted"
    PROVE  OneDraft(u)' /\ NumbersOnce(u)'
<1>1. OneDraft(u)'
  BY DEF Turns, Shown, OneDraft, OfTemplate
<1>2. NumbersOnce(u)'
  BY DEF Turns, Shown, NumbersOnce, OfTemplate
<1> QED
  BY <1>1, <1>2

LEMMA PublishShows == ASSUME Showing, NEW v \in DOMAIN versions, Publish(v) PROVE Showing'
<1>0. PICK t : t = versions[v].template
  OBVIOUS
<1>1. /\ versions[v].status = "draft" /\ t \in DOMAIN templates
      /\ versions' = [versions EXCEPT ![v].status = "published"]
      /\ templates' = [templates EXCEPT ![t].status = "active"]
  BY <1>0 DEF Publish, Showing, Typed, Rows
<1>2. /\ IsSeq(templates') /\ DOMAIN templates' = DOMAIN templates
      /\ templates'[t].status = "active"
      /\ \A u \in DOMAIN templates : u # t => templates'[u].status = templates[u].status
      /\ \A u \in DOMAIN templates : IsTemplate(templates'[u])
  BY <1>1, TemplateTurned DEF Showing
<1>3. Typed' /\ Turns(v, "published")
  BY <1>1, <1>2, VersionTurned DEF Showing, Statuses, Turns
<1>4. ASSUME NEW u \in DOMAIN templates, u # t PROVE Shown(u)'
  BY <1>0, <1>2, <1>3, <1>4, OthersShown DEF Showing
<1>5. Shown(t)'
  <2>1. OneDraft(t)' /\ NumbersOnce(t)'
    BY <1>1, <1>3, TurnKeepsNumbers DEF Showing
  <2>2. Has(t, "published")'
    BY <1>0, <1>3 DEF Has, OfTemplate, Turns
  <2>3. GoneWithLast(t)'
    BY <1>2, <2>2 DEF GoneWithLast, Has
  <2>4. ArchivedWithLast(t)'
    BY <1>2, <2>2 DEF ArchivedWithLast
  <2> QED
    BY <2>1, <2>3, <2>4 DEF Shown
<1> QED
  BY <1>2, <1>3, <1>4, <1>5 DEF Showing

LEMMA RestoreShows == ASSUME Showing, NEW v \in DOMAIN versions, Restore(v) PROVE Showing'
<1>0. PICK t : t = versions[v].template
  OBVIOUS
<1>1. /\ versions[v].status = "archived" /\ t \in DOMAIN templates
      /\ versions' = [versions EXCEPT ![v].status = "published"]
      /\ templates' = [templates EXCEPT ![t].status = "active"]
  BY <1>0 DEF Restore, Showing, Typed, Rows
<1>2. /\ IsSeq(templates') /\ DOMAIN templates' = DOMAIN templates
      /\ templates'[t].status = "active"
      /\ \A u \in DOMAIN templates : u # t => templates'[u].status = templates[u].status
      /\ \A u \in DOMAIN templates : IsTemplate(templates'[u])
  BY <1>1, TemplateTurned DEF Showing
<1>3. Typed' /\ Turns(v, "published")
  BY <1>1, <1>2, VersionTurned DEF Showing, Statuses, Turns
<1>4. ASSUME NEW u \in DOMAIN templates, u # t PROVE Shown(u)'
  BY <1>0, <1>2, <1>3, <1>4, OthersShown DEF Showing
<1>5. Shown(t)'
  <2>1. OneDraft(t)' /\ NumbersOnce(t)'
    BY <1>1, <1>3, TurnKeepsNumbers DEF Showing
  <2>2. Has(t, "published")'
    BY <1>0, <1>3 DEF Has, OfTemplate, Turns
  <2>3. GoneWithLast(t)'
    BY <1>2, <2>2 DEF GoneWithLast, Has
  <2>4. ArchivedWithLast(t)'
    BY <1>2, <2>2 DEF ArchivedWithLast
  <2> QED
    BY <2>1, <2>3, <2>4 DEF Shown
<1> QED
  BY <1>2, <1>3, <1>4, <1>5 DEF Showing

(* Archive looks whether the version is the last that is published. *)
LEMMA ArchiveShows == ASSUME Showing, NEW v \in DOMAIN versions, Archive(v) PROVE Showing'
<1>0. PICK t : t = versions[v].template
  OBVIOUS
<1> DEFINE last == WithStatus(t, "published") = {v}
           says == IF last THEN "archived" ELSE "active"
<1>1. /\ versions[v].status = "published" /\ t \in DOMAIN templates
      /\ versions' = [versions EXCEPT ![v].status = "archived"]
      /\ templates' = [templates EXCEPT ![t].status = says]
  BY <1>0 DEF Archive, Showing, Typed, Rows
<1>2. last <=> \A w \in DOMAIN versions :
                   OfTemplate(w, t) /\ versions[w].status = "published" => w = v
  BY <1>0, <1>1 DEF WithStatus, VersionsOf, Exists, OfTemplate
<1>3. says # "deleted" /\ (says = "archived" <=> last)
  OBVIOUS
<1> HIDE DEF says, last
<1>4. /\ IsSeq(templates') /\ DOMAIN templates' = DOMAIN templates
      /\ templates'[t].status = says
      /\ \A u \in DOMAIN templates : u # t => templates'[u].status = templates[u].status
      /\ \A u \in DOMAIN templates : IsTemplate(templates'[u])
  BY <1>1, TemplateTurned DEF Showing
<1>5. Typed' /\ Turns(v, "archived")
  BY <1>1, <1>4, VersionTurned DEF Showing, Statuses, Turns
<1>6. ASSUME NEW u \in DOMAIN templates, u # t PROVE Shown(u)'
  BY <1>0, <1>4, <1>5, <1>6, OthersShown DEF Showing
<1>7. Shown(t)'
  <2>1. OneDraft(t)' /\ NumbersOnce(t)'
    BY <1>1, <1>5, TurnKeepsNumbers DEF Showing
  <2>2. Has(t, "archived")'
    BY <1>0, <1>5 DEF Has, OfTemplate, Turns
  <2>3. GoneWithLast(t)'
    BY <1>3, <1>4, <2>2 DEF GoneWithLast, Has
  <2>4. last <=> ~Has(t, "published")'
    BY <1>0, <1>2, <1>5 DEF Has, OfTemplate, Turns
  <2>5. ArchivedWithLast(t)'
    BY <1>3, <1>4, <2>2, <2>4 DEF ArchivedWithLast
  <2> QED
    BY <2>1, <2>3, <2>5 DEF Shown
<1> QED
  BY <1>4, <1>5, <1>6, <1>7 DEF Showing

(* DeleteDraft looks whether the draft is the last version. *)
LEMMA DeleteShows == ASSUME Showing, NEW v \in DOMAIN versions, DeleteDraft(v) PROVE Showing'
<1>0. PICK t : t = versions[v].template
  OBVIOUS
<1> DEFINE last == VersionsOf(t) = {v}
<1>1. /\ versions[v].status = "draft" /\ t \in DOMAIN templates
      /\ versions' = [versions EXCEPT ![v].status = "deleted"]
      /\ templates' = IF last THEN [templates EXCEPT ![t].status = "deleted"] ELSE templates
  BY <1>0 DEF DeleteDraft, Showing, Typed, Rows
<1>2. last <=> \A w \in DOMAIN versions :
                   OfTemplate(w, t) /\ versions[w].status # "deleted" => w = v
  BY <1>0, <1>1 DEF VersionsOf, Exists, OfTemplate
<1> HIDE DEF last
<1>3. /\ IsSeq(templates') /\ DOMAIN templates' = DOMAIN templates
      /\ templates'[t].status = IF last THEN "deleted" ELSE templates[t].status
      /\ \A u \in DOMAIN templates : u # t => templates'[u].status = templates[u].status
      /\ \A u \in DOMAIN templates : IsTemplate(templates'[u])
  <2>1. CASE last
    BY <1>1, <2>1, TemplateTurned DEF Showing
  <2>2. CASE ~last
    BY <1>1, <2>2 DEF Showing, Typed, Rows
  <2> QED
    BY <2>1, <2>2
<1>4. Typed' /\ Turns(v, "deleted")
  BY <1>1, <1>3, VersionTurned DEF Showing, Statuses, Turns
<1>5. ASSUME NEW u \in DOMAIN templates, u # t PROVE Shown(u)'
  BY <1>0, <1>3, <1>4, <1>5, OthersShown DEF Showing
<1>6. Shown(t)'
  <2>1. OneDraft(t)' /\ NumbersOnce(t)'
    BY <1>1, <1>4, TurnKeepsNumbers DEF Showing
  <2>2. templates[t].status # "deleted"
    BY <1>0, <1>1 DEF Showing, Shown, GoneWithLast, OfTemplate
  <2>3. GoneWithLast(t)'
    BY <1>0, <1>2, <1>3, <1>4, <2>2 DEF GoneWithLast, OfTemplate, Turns
  <2>4. \A s \in {"published", "archived"} : Has(t, s)' <=> Has(t, s)
    BY <1>0, <1>1, <1>4 DEF Has, OfTemplate, Turns
  <2>5. last => ~Has(t, "archived")
    BY <1>0, <1>1, <1>2 DEF Has
  <2>6. ArchivedWithLast(t)
    BY <1>1 DEF Showing, Shown
  <2>7. ArchivedWithLast(t)'
    BY <1>3, <2>4, <2>5, <2>6 DEF ArchivedWithLast
  <2> QED
    BY <2>1, <2>3, <2>7 DEF Shown
<1> QED
  BY <1>3, <1>4, <1>5, <1>6 DEF Showing

(* An edit of a draft changes what no one of these is about. *)
LEMMA SameShown ==
    ASSUME DOMAIN versions' = DOMAIN versions, NEW u, Shown(u),
           \A w \in DOMAIN versions :
               /\ versions'[w].template = versions[w].template
               /\ versions'[w].number = versions[w].number
               /\ versions'[w].status = versions[w].status,
           templates'[u].status = templates[u].status
    PROVE  Shown(u)'
<1>1. GoneWithLast(u)'
  BY DEF Shown, GoneWithLast, OfTemplate
<1>2. ArchivedWithLast(u)'
  BY DEF Shown, ArchivedWithLast, Has, OfTemplate
<1>3. OneDraft(u)'
  BY DEF Shown, OneDraft, OfTemplate
<1>4. NumbersOnce(u)'
  BY DEF Shown, NumbersOnce, OfTemplate
<1> QED
  BY <1>1, <1>2, <1>3, <1>4 DEF Shown

LEMMA UpdateShows ==
    ASSUME Showing, NEW v \in DOMAIN versions, NEW form, UpdateDraft(v, form)
    PROVE  Showing'
<1>0. PICK t : t = versions[v].template
  OBVIOUS
<1>1. PICK p, q : templates' = [templates EXCEPT ![t].named = p, ![t].platform = q]
  BY <1>0 DEF UpdateDraft
<1>2. PICK x, y : versions' = [versions EXCEPT ![v].prompt = x, ![v].slots = y]
  BY DEF UpdateDraft
<1>3. t \in DOMAIN templates /\ IsTemplate(templates[t]) /\ IsVersion(versions[v])
  BY <1>0 DEF Showing, Typed, Rows
<1> DEFINE row == Editing(versions[v], x, y)
           parent == [templates[t] EXCEPT !.named = p, !.platform = q]
<1>4. /\ IsVersion(row) /\ row.template = versions[v].template
      /\ row.status = versions[v].status /\ row.number = versions[v].number
  <2>1. PICK a : a = [versions[v] EXCEPT !.prompt = x]
    OBVIOUS
  <2>2. /\ IsVersion(a) /\ a.template = versions[v].template
        /\ a.status = versions[v].status /\ a.number = versions[v].number
    BY <1>3, <2>1 DEF IsVersion
  <2>3. row = [a EXCEPT !.slots = y]
    BY <2>1 DEF Editing
  <2> HIDE DEF row
  <2> QED
    BY <2>2, <2>3 DEF IsVersion
<1>5. IsTemplate(parent) /\ parent.status = templates[t].status
  <2>1. PICK a : a = [templates[t] EXCEPT !.named = p]
    OBVIOUS
  <2>2. IsTemplate(a) /\ a.status = templates[t].status
    BY <1>3, <2>1 DEF IsTemplate
  <2>3. parent = [a EXCEPT !.platform = q]
    BY <2>1
  <2> HIDE DEF parent
  <2> QED
    BY <2>2, <2>3 DEF IsTemplate
<1>6. versions' = [versions EXCEPT ![v] = row] /\ templates' = [templates EXCEPT ![t] = parent]
  BY <1>1, <1>2, <1>3 DEF Editing
<1> HIDE DEF row, parent
<1>7. /\ IsSeq([templates EXCEPT ![t] = parent])
      /\ DOMAIN [templates EXCEPT ![t] = parent] = DOMAIN templates
  <2>1. IsSeq(templates)
    BY DEF Showing, Typed, Rows
  <2> QED
    BY <1>3, <2>1, ExceptFacts
<1>8. Rows' /\ DOMAIN versions' = DOMAIN versions
  BY <1>4, <1>6, <1>7, Changed, ExceptFacts DEF Showing, Typed, Rows
<1>9. /\ \A w \in DOMAIN versions :
             /\ versions'[w].template = versions[w].template
             /\ versions'[w].number = versions[w].number
             /\ versions'[w].status = versions[w].status
      /\ \A u \in DOMAIN templates :
             /\ templates'[u].status = templates[u].status /\ IsTemplate(templates'[u])
  BY <1>4, <1>5, <1>6 DEF Showing, Typed
<1>10. Typed'
  BY <1>6, <1>7, <1>8, <1>9 DEF Showing, Typed
<1>11. ASSUME NEW u \in DOMAIN templates PROVE Shown(u)'
  BY <1>8, <1>9, SameShown DEF Showing
<1> QED
  BY <1>6, <1>7, <1>10, <1>11 DEF Showing

(* A draft is added. *)
Adds(k, row) ==
    /\ Typed /\ k \notin DOMAIN versions /\ DOMAIN versions' = DOMAIN versions \cup {k}
    /\ \A w \in DOMAIN versions : versions'[w] = versions[w]
    /\ versions'[k] = row /\ row.status = "draft"

LEMMA Adding ==
    ASSUME Typed, NEW row, IsVersion(row), row.status = "draft", row.number \in Nat,
           versions' = Append(versions, row),
           IsSeq(templates'), DOMAIN templates \subseteq DOMAIN templates',
           \A u \in DOMAIN templates' : IsTemplate(templates'[u]),
           row.template \in DOMAIN templates'
    PROVE  Typed' /\ Adds(Len(versions) + 1, row)
<1>1. Rows'
  BY Added DEF Typed
<1>2. /\ DOMAIN versions' = 1..(Len(versions) + 1)
      /\ \A v \in 1..(Len(versions) + 1) :
             versions'[v] = IF v = Len(versions) + 1 THEN row ELSE versions[v]
  BY AppendFacts DEF Typed, Rows
<1>3. DOMAIN versions = 1..Len(versions) /\ Len(versions) \in Nat
  BY SeqFacts DEF Typed, Rows
<1>4. Adds(Len(versions) + 1, row)
  BY <1>2, <1>3 DEF Adds
<1>5. \A v \in DOMAIN versions' : versions'[v].status \in Statuses /\ versions'[v].number \in Nat
  BY <1>4 DEF Adds, Typed, Statuses
<1> QED
  BY <1>1, <1>4, <1>5 DEF Typed

LEMMA OthersShownToo ==
    ASSUME NEW k, NEW row, Adds(k, row), NEW u, Shown(u), row.template # u,
           templates'[u].status = templates[u].status
    PROVE  Shown(u)'
<1>1. GoneWithLast(u)'
  BY DEF Adds, Shown, GoneWithLast, OfTemplate
<1>2. ArchivedWithLast(u)'
  BY DEF Adds, Shown, ArchivedWithLast, Has, OfTemplate
<1>3. OneDraft(u)'
  BY DEF Adds, Shown, OneDraft, OfTemplate
<1>4. NumbersOnce(u)'
  BY DEF Adds, Shown, NumbersOnce, OfTemplate
<1> QED
  BY <1>1, <1>2, <1>3, <1>4 DEF Shown

LEMMA CreateShows == ASSUME Showing, NEW form, CreateTemplate(form) PROVE Showing'
<1>0. PICK t : t = Len(templates) + 1
  OBVIOUS
<1>1. PICK row : row = NewVersion(t, 1, form)
  OBVIOUS
<1>2. /\ IsVersion(row) /\ row.template = t /\ row.status = "draft" /\ row.number = 1
  BY <1>1 DEF NewVersion, IsVersion
<1>3. PICK parent : parent = [named |-> form.named, platform |-> form.platform, status |-> "active"]
  OBVIOUS
<1>4. versions' = Append(versions, row) /\ templates' = Append(templates, parent)
  BY <1>0, <1>1, <1>3 DEF CreateTemplate, AddVersion
<1>5. IsTemplate(parent) /\ parent.status = "active"
  BY <1>3 DEF IsTemplate
<1>6. DOMAIN templates = 1..Len(templates) /\ Len(templates) \in Nat /\ IsSeq(templates)
  BY SeqFacts DEF Showing, Typed, Rows
<1>7. /\ IsSeq(templates') /\ DOMAIN templates' = 1..(Len(templates) + 1)
      /\ \A u \in 1..(Len(templates) + 1) :
             templates'[u] = IF u = Len(templates) + 1 THEN parent ELSE templates[u]
  BY <1>4, <1>6, AppendFacts
<1>8. /\ DOMAIN templates' = DOMAIN templates \cup {t} /\ t \notin DOMAIN templates
      /\ templates'[t] = parent
      /\ \A u \in DOMAIN templates : templates'[u] = templates[u]
  BY <1>0, <1>6, <1>7
<1>9. \A u \in DOMAIN templates' : IsTemplate(templates'[u])
  BY <1>5, <1>8 DEF Showing, Typed
<1>10. PICK k : k = Len(versions) + 1
  OBVIOUS
<1>11. Typed' /\ Adds(k, row)
  BY <1>2, <1>4, <1>7, <1>8, <1>9, <1>10, Adding DEF Showing
<1>12. ASSUME NEW u \in DOMAIN templates PROVE Shown(u)'
  BY <1>2, <1>8, <1>11, OthersShownToo DEF Showing
<1>13. Shown(t)'
  <2>1. \A w : OfTemplate(w, t)' <=> w = k
    BY <1>2, <1>8, <1>11 DEF OfTemplate, Adds, Typed, Rows
  <2>2. k \in DOMAIN versions' /\ versions'[k].status = "draft" /\ templates'[t].status = "active"
    BY <1>5, <1>8, <1>11 DEF Adds
  <2>3. GoneWithLast(t)' /\ ArchivedWithLast(t)'
    BY <2>1, <2>2 DEF GoneWithLast, ArchivedWithLast, Has
  <2>4. OneDraft(t)' /\ NumbersOnce(t)'
    BY <2>1 DEF OneDraft, NumbersOnce
  <2> QED
    BY <2>3, <2>4 DEF Shown
<1> QED
  BY <1>8, <1>11, <1>12, <1>13 DEF Showing

(* Where there is a largest number, Max chooses it. *)
LEMMA MaxFacts ==
    ASSUME NEW S \in SUBSET Int, NEW m \in S, \A n \in S : n <= m
    PROVE  Max(S) \in S /\ \A n \in S : n <= Max(S)
<1>2. \A n \in S : m >= n
  OBVIOUS
<1>3. Max(S) \in S /\ \A n \in S : Max(S) >= n
  BY <1>2 DEF Max
<1> QED
  BY <1>3

(* The number of a copy is new among the versions that are there. *)
LEMMA NewNumber ==
    ASSUME Typed, NEW v \in DOMAIN versions, NEW t, OfTemplate(v, t),
           versions[v].status # "deleted",
           NEW number, number = Max({versions[w].number : w \in VersionsOf(t)}) + 1
    PROVE  /\ number \in Nat
           /\ \A w \in DOMAIN versions :
                  OfTemplate(w, t) /\ versions[w].status # "deleted"
                      => versions[w].number # number
<1> DEFINE f == [w \in DOMAIN versions |-> versions[w].number]
           S == {f[w] : w \in VersionsOf(t)}
<1>1. VersionsOf(t) \subseteq DOMAIN versions /\ v \in VersionsOf(t)
  BY DEF VersionsOf, Exists, OfTemplate
<1>2. IsFiniteSet(DOMAIN versions)
  <2>1. DOMAIN versions = 1..Len(versions) /\ Len(versions) \in Int
    BY SeqFacts DEF Typed, Rows
  <2> QED
    BY <2>1, FS_Interval
<1>3. IsFiniteSet(VersionsOf(t))
  BY <1>1, <1>2, FS_Subset
<1>4. S = {versions[w].number : w \in VersionsOf(t)} /\ S \in SUBSET Nat /\ S # {}
  BY <1>1 DEF Typed
<1>5. \E m \in {0} \cup S : \A n \in {0} \cup S : n <= m
  <2>1. \A w \in VersionsOf(t) : f[w] \in Int
    BY <1>1 DEF Typed
  <2> HIDE DEF f
  <2> QED
    BY <1>3, <2>1, LargestOf
<1> HIDE DEF S
<1>6. PICK m \in S : \A n \in S : n <= m
  <2>1. PICK m \in {0} \cup S : \A n \in {0} \cup S : n <= m
    BY <1>5
  <2>2. PICK n \in S : TRUE
    BY <1>4
  <2>3. CASE m \in S
    BY <2>1, <2>3
  <2>4. CASE m = 0
    <3>1. n = 0
      <4>1. n \in Nat
        BY <1>4, <2>2
      <4>2. n <= 0
        BY <2>1, <2>2, <2>4
      <4> QED
        BY <4>1, <4>2
    <3> QED
      BY <2>1, <2>2, <2>4, <3>1
  <2> QED
    BY <2>3, <2>4
<1>7. Max(S) \in S /\ \A n \in S : n <= Max(S)
  <2>1. S \in SUBSET Int
    BY <1>4
  <2> QED
    BY <1>6, <2>1, MaxFacts
<1>8. Max(S) \in Nat /\ number = Max(S) + 1
  BY <1>4, <1>7
<1>9. \A w \in VersionsOf(t) : versions[w].number \in S
  BY <1>4
<1>10. \A n \in S : n # number
  BY <1>4, <1>7, <1>8
<1> QED
  BY <1>8, <1>9, <1>10 DEF VersionsOf, Exists, OfTemplate

LEMMA CopyShows == ASSUME Showing, NEW v \in DOMAIN versions, CopyVersion(v) PROVE Showing'
<1>0. PICK t : t = versions[v].template
  OBVIOUS
<1>1. PICK number : number = Max({versions[w].number : w \in VersionsOf(t)}) + 1
  OBVIOUS
<1>2. PICK row : row = Copying(versions[v], number)
  OBVIOUS
<1>3. /\ versions[v].status = "published" /\ WithStatus(t, "draft") = {}
      /\ versions' = Append(versions, row) /\ templates' = templates
  BY <1>0, <1>1, <1>2 DEF CopyVersion, AddVersion, Copying
<1>4. /\ IsVersion(row) /\ row.template = t /\ row.status = "draft" /\ row.number = number
  <2>1. IsVersion(versions[v])
    BY DEF Showing, Typed, Rows
  <2> QED
    BY <1>0, <1>2, <2>1 DEF Copying, IsVersion
<1>5. /\ number \in Nat
      /\ \A w \in DOMAIN versions :
             OfTemplate(w, t) /\ versions[w].status # "deleted" => versions[w].number # number
  BY <1>0, <1>1, <1>3, NewNumber DEF Showing, OfTemplate
<1>6. PICK k : k = Len(versions) + 1
  OBVIOUS
<1>7. /\ IsSeq(templates') /\ DOMAIN templates' = DOMAIN templates /\ t \in DOMAIN templates
      /\ \A u \in DOMAIN templates' : IsTemplate(templates'[u])
  BY <1>0, <1>3 DEF Showing, Typed, Rows
<1>8. Typed' /\ Adds(k, row)
  BY <1>3, <1>4, <1>5, <1>6, <1>7, Adding DEF Showing
<1>9. ASSUME NEW u \in DOMAIN templates, u # t PROVE Shown(u)'
  BY <1>3, <1>4, <1>8, <1>9, OthersShownToo DEF Showing
<1>10. Shown(t)'
  <2>1. \A w : OfTemplate(w, t)' <=> OfTemplate(w, t) \/ w = k
    BY <1>4, <1>8 DEF OfTemplate, Adds
  <2>2. /\ k \in DOMAIN versions' /\ versions'[k].status = "draft" /\ versions'[k].number = number
        /\ k \notin DOMAIN versions
        /\ \A w \in DOMAIN versions : w \in DOMAIN versions' /\ versions'[w] = versions[w]
        /\ \A w \in DOMAIN versions' : w \in DOMAIN versions \/ w = k
    BY <1>4, <1>8 DEF Adds
  <2>3. OfTemplate(v, t) /\ Has(t, "published") /\ Shown(t)
    BY <1>0, <1>3, <1>7 DEF OfTemplate, Has, Showing
  <2>4. templates[t].status \notin {"deleted", "archived"}
    BY <1>3, <2>3 DEF Shown, GoneWithLast, ArchivedWithLast
  <2>5. Has(t, "published")' /\ templates'[t].status \notin {"deleted", "archived"}
    BY <1>3, <2>1, <2>2, <2>3, <2>4 DEF Has
  <2>6. GoneWithLast(t)' /\ ArchivedWithLast(t)'
    BY <2>5 DEF GoneWithLast, ArchivedWithLast, Has
  <2>7. \A w \in DOMAIN versions : OfTemplate(w, t) => versions[w].status # "draft"
    BY <1>3 DEF WithStatus, VersionsOf, Exists, OfTemplate
  <2>8. OneDraft(t)'
    BY <2>1, <2>2, <2>7 DEF OneDraft
  <2>9. NumbersOnce(t)'
    BY <1>5, <2>1, <2>2, <2>3 DEF NumbersOnce, Shown
  <2> QED
    BY <2>6, <2>8, <2>9 DEF Shown
<1> QED
  BY <1>7, <1>8, <1>9, <1>10 DEF Showing

LEMMA ShowsAtFirst == TemplatesInit => Showing
<1> SUFFICES ASSUME TemplatesInit PROVE Showing
  OBVIOUS
<1>1. versions = <<>> /\ templates = <<>> /\ DOMAIN versions = {} /\ DOMAIN templates = {}
  BY DEF TemplatesInit
<1>2. IsSeq(<<>>)
  <2>1. <<>> = [i \in 1..0 |-> <<>>[i]] /\ 0 \in Nat
    OBVIOUS
  <2> QED
    BY <2>1 DEF IsSeq
<1> QED
  BY <1>1, <1>2 DEF Showing, Typed, Rows

LEMMA ShowingHolds == TemplatesSpec => []Showing
<1>1. ASSUME Showing, [TemplatesNext]_templateVars PROVE Showing'
  <2>1. CASE \E form \in Forms : CreateTemplate(form)
    BY <1>1, <2>1, CreateShows
  <2>2. ASSUME NEW v \in DOMAIN versions, NEW form, UpdateDraft(v, form) PROVE Showing'
    BY <1>1, <2>2, UpdateShows
  <2>3. ASSUME NEW v \in DOMAIN versions,
               Publish(v) \/ CopyVersion(v) \/ Archive(v) \/ Restore(v) \/ DeleteDraft(v)
        PROVE  Showing'
    BY <1>1, <2>3, PublishShows, CopyShows, ArchiveShows, RestoreShows, DeleteShows
  <2>4. CASE UNCHANGED templateVars
    BY <1>1, <2>4 DEF templateVars, Showing, Typed, Rows, Shown, GoneWithLast,
       ArchivedWithLast, OneDraft, NumbersOnce, Has, OfTemplate
  <2> QED
    BY <1>1, <2>1, <2>2, <2>3, <2>4 DEF TemplatesNext
<1> QED
  BY <1>1, ShowsAtFirst, PTL DEF TemplatesSpec

(* A template says of its versions what is true (templates.go, all the       *)
(* operations): it is archived just when all that it published is, gone      *)
(* with its last version, has one draft at most and a number once.  The      *)
(* invariant is the property itself, said row by row: with each operation    *)
(* looking at the versions that matter, no more is needed.                   *)
THEOREM TemplatesShowVersions == TemplatesSpec => []TemplateShowsVersions
<1> QED
  BY ShowingHolds, ShownMeaning, PTL

-----------------------------------------------------------------------------
(* One job for a key *)

(* Every caller is nowhere, on its way with a request, or answered. *)
Sent(state) ==
    \/ state = Idle
    \/ state.phase = "looked" /\ state.request \in Requests
    \/ /\ state.request \in Requests
       /\ state = [phase |-> "failed", request |-> state.request, seen |-> state.seen,
                   outcome |-> state.outcome]
    \/ state.phase = "refused"
    \/ state.phase = "answered"

Given(state) == state.phase = "answered" /\ state.outcome \in {"created", "replayed"}

Answers ==
    \A c \in Clients : Given(creating[c]) =>
        creating[c].job \in DOMAIN jobs /\ jobs[creating[c].job].request = creating[c].request

KeysOnce == \A j, k \in DOMAIN jobs : jobs[j].request.key = jobs[k].request.key => j = k

IInv ==
    /\ IsSeq(jobs) /\ \A j \in DOMAIN jobs : jobs[j].request \in Requests
    /\ creating = [c \in Clients |-> creating[c]] /\ \A c \in Clients : Sent(creating[c])
    /\ Answers /\ KeysOnce

-----------------------------------------------------------------------------
(* Two requests with one key and one hash are the same request: the hash     *)
(* covers all the fields but the key (jobs.go jobRequestHash).               *)
LEMMA HashCoversRequest ==
    ASSUME NEW q \in Requests, NEW r \in Requests, q.key = r.key, RequestHash(q) = RequestHash(r)
    PROVE  q = r
<1>1. /\ DOMAIN q = {"key", "version", "slots", "sources", "canvases", "overrides",
                     "preference", "device"}
      /\ DOMAIN r = DOMAIN q
  BY RequestsAssumption
<1>2. \A field \in DOMAIN q \ {"key"} : q[field] = r[field]
  <2> TAKE field \in DOMAIN q \ {"key"}
  <2>1. RequestHash(q)[field] = q[field] /\ RequestHash(r)[field] = r[field]
    BY <1>1 DEF RequestHash
  <2> QED
    BY <2>1
<1>3. /\ q.version = r.version /\ q.slots = r.slots /\ q.sources = r.sources
      /\ q.canvases = r.canvases /\ q.overrides = r.overrides
      /\ q.preference = r.preference /\ q.device = r.device
  BY <1>1, <1>2
<1> QED
  BY <1>3, RequestsAssumption

(* Who repeats a request is given its job, or refused. *)
LEMMA ReplayIsHonest ==
    ASSUME IInv, NEW r \in Requests, WithKey(r.key) # {}
    PROVE  /\ Sent(ReplayOf(r))
           /\ Given(ReplayOf(r)) => /\ ReplayOf(r).job \in DOMAIN jobs
                                    /\ jobs[ReplayOf(r).job].request = ReplayOf(r).request
<1> DEFINE j == CHOOSE k \in WithKey(r.key) : TRUE
<1>1. j \in DOMAIN jobs /\ jobs[j].request \in Requests /\ jobs[j].request.key = r.key
  BY DEF WithKey, IInv
<1> HIDE DEF j
<1>2. CASE RequestHash(jobs[j].request) = RequestHash(r)
  <2>1. jobs[j].request = r
    BY <1>1, <1>2, HashCoversRequest
  <2>2. ReplayOf(r) = Answered(r, "replayed", j)
    BY <1>2 DEF ReplayOf, j
  <2> QED
    BY <1>1, <2>1, <2>2 DEF Answered, Sent
<1>3. CASE RequestHash(jobs[j].request) # RequestHash(r)
  <2>1. ReplayOf(r) = Answered(r, "idempotency_conflict", 0)
    BY <1>3 DEF ReplayOf, j
  <2> QED
    BY <2>1 DEF Answered, Sent, Given
<1> QED
  BY <1>2, <1>3

(* A caller moves on, and no job is made. *)
LEMMA Moves ==
    ASSUME IInv, NEW c \in Clients, NEW state, creating' = [creating EXCEPT ![c] = state],
           jobs' = jobs, Sent(state),
           Given(state) => state.job \in DOMAIN jobs /\ jobs[state.job].request = state.request
    PROVE  IInv'
<1>1. /\ creating' = [d \in Clients |-> creating'[d]]
      /\ \A d \in Clients : creating'[d] = IF d = c THEN state ELSE creating[d]
  BY DEF IInv
<1> QED
  BY <1>1 DEF IInv, Answers, KeysOnce

LEMMA LookStep ==
    ASSUME IInv, NEW c \in Clients, NEW r \in Requests, LookForJob(c, r)
    PROVE  IInv'
<1>1. CASE WithKey(r.key) # {}
  <2>1. creating' = [creating EXCEPT ![c] = ReplayOf(r)] /\ jobs' = jobs
    BY <1>1 DEF LookForJob
  <2> QED
    BY <1>1, <2>1, ReplayIsHonest, Moves
<1>2. CASE WithKey(r.key) = {}
  <2>1. PICK seen : creating' = [creating EXCEPT ![c] =
                       [phase |-> "looked", request |-> r, seen |-> seen]]
    BY <1>2 DEF LookForJob
  <2>2. jobs' = jobs
    BY DEF LookForJob
  <2> QED
    BY <2>1, <2>2, Moves DEF Sent, Given
<1> QED
  BY <1>1, <1>2

LEMMA RecoverStep ==
    ASSUME IInv, NEW c \in Clients, RecoverIdempotentCreate(c)
    PROVE  IInv'
<1> DEFINE r == creating[c].request
<1>1. /\ r \in Requests /\ jobs' = jobs
      /\ creating[c] = [phase |-> "failed", request |-> r, seen |-> creating[c].seen,
                        outcome |-> creating[c].outcome]
  BY DEF RecoverIdempotentCreate, IInv, Sent, Idle
<1>2. CASE WithKey(r.key) # {}
  <2>1. creating' = [creating EXCEPT ![c] = ReplayOf(r)]
    BY <1>2 DEF RecoverIdempotentCreate
  <2> QED
    BY <1>1, <1>2, <2>1, ReplayIsHonest, Moves
<1>3. CASE WithKey(r.key) = {}
  <2> DEFINE state == [creating[c] EXCEPT !.phase = "refused"]
  <2>1. creating' = [creating EXCEPT ![c] = state]
    BY <1>3 DEF RecoverIdempotentCreate
  <2>2. state.phase = "refused"
    BY <1>1
  <2> HIDE DEF state
  <2> QED
    BY <1>1, <2>1, <2>2, Moves DEF Sent, Given
<1> QED
  BY <1>2, <1>3

(* A job is added under a key that has none. *)
LEMMA FinishStep ==
    ASSUME IInv, NEW c \in Clients, FinishCreate(c)
    PROVE  IInv'
<1> DEFINE r == creating[c].request
           job == NewJob(r, creating[c].seen)
           n == Len(jobs)
<1>1. r \in Requests
  <2>1. creating[c].phase = "looked"
    <3> HIDE DEF r, job, n
    <3> QED
      BY DEF FinishCreate, Looked
  <2>2. Sent(creating[c])
    BY DEF IInv
  <2> QED
    BY <2>1, <2>2 DEF Sent, Idle
<1>2. ASSUME NEW error, jobs' = jobs,
             creating' = [creating EXCEPT ![c] =
                 [phase |-> "failed", request |-> r, seen |-> creating[c].seen,
                  outcome |-> error]]
      PROVE  IInv'
  <2> DEFINE state == [phase |-> "failed", request |-> r, seen |-> creating[c].seen,
                       outcome |-> error]
  <2>1. Sent(state) /\ ~Given(state)
    BY <1>1 DEF Sent, Given
  <2> HIDE DEF state
  <2> QED
    BY <1>2, <2>1, Moves DEF state
<1>3. ASSUME WithKey(r.key) = {}, jobs' = Append(jobs, job),
             creating' = [creating EXCEPT ![c] = Answered(r, "created", n + 1)]
      PROVE  IInv'
  <2>1. /\ n \in Nat /\ DOMAIN jobs = 1..n /\ job.request = r
        /\ IsSeq(jobs') /\ DOMAIN jobs' = 1..(n + 1)
        /\ \A j \in 1..(n + 1) : jobs'[j] = IF j = n + 1 THEN job ELSE jobs[j]
    BY <1>3, SeqFacts, AppendFacts DEF IInv, NewJob
  <2> HIDE DEF n, job, r
  <2>2. jobs'[n + 1].request = r /\ \A j \in DOMAIN jobs : jobs'[j] = jobs[j]
    BY <2>1
  <2>3. \A j \in DOMAIN jobs' : j \in DOMAIN jobs \/ j = n + 1
    BY <2>1
  <2>4. \A j \in DOMAIN jobs : jobs[j].request.key # r.key
    BY <1>3 DEF WithKey
  <2>5. KeysOnce'
    BY <2>2, <2>3, <2>4 DEF KeysOnce, IInv
  <2>6. \A j \in DOMAIN jobs' : jobs'[j].request \in Requests
    BY <1>1, <2>2, <2>3 DEF IInv
  <2>7. /\ creating' = [d \in Clients |-> creating'[d]]
        /\ \A d \in Clients : creating'[d] =
               IF d = c THEN Answered(r, "created", n + 1) ELSE creating[d]
    BY <1>3 DEF IInv
  <2>8. Answered(r, "created", n + 1).phase = "answered"
        /\ Answered(r, "created", n + 1).job = n + 1
        /\ Answered(r, "created", n + 1).request = r
    BY DEF Answered
  <2>9. n + 1 \in DOMAIN jobs' /\ DOMAIN jobs \subseteq DOMAIN jobs'
    BY <2>1
  <2>10. Answers'
    BY <2>2, <2>7, <2>8, <2>9 DEF Answers, IInv
  <2>11. \A d \in Clients : Sent(creating'[d])
    BY <2>7, <2>8 DEF IInv, Sent
  <2> QED
    BY <2>1, <2>5, <2>6, <2>7, <2>10, <2>11 DEF IInv
<1> QED
  BY <1>2, <1>3 DEF FinishCreate

LEMMA Invariant == Spec => []IInv
<1>1. Init => IInv
  <2> SUFFICES ASSUME Init PROVE IInv
    OBVIOUS
  <2>1. jobs = [j \in 1..0 |-> jobs[j]] /\ 0 \in Nat /\ DOMAIN jobs = {}
    BY DEF Init
  <2>2. IsSeq(jobs)
    BY <2>1 DEF IsSeq
  <2>3. creating = [c \in Clients |-> Idle] /\ Idle.phase = "idle"
    BY DEF Init, Idle
  <2> QED
    BY <2>1, <2>2, <2>3 DEF IInv, Answers, Given, KeysOnce, Sent
<1>2. IInv /\ [Next]_vars => IInv'
  <2> SUFFICES ASSUME IInv, [Next]_vars PROVE IInv'
    OBVIOUS
  <2>1. ASSUME jobs' = jobs, creating' = creating PROVE IInv'
    BY <2>1 DEF IInv, Answers, KeysOnce
  <2>2. CASE TemplatesNext /\ UNCHANGED creationVars
    BY <2>1, <2>2 DEF creationVars
  <2>3. ASSUME NEW c \in Clients, NEW r \in Requests, LookForJob(c, r) PROVE IInv'
    BY <2>3, LookStep
  <2>4. ASSUME NEW c \in Clients, FinishCreate(c) \/ RecoverIdempotentCreate(c) PROVE IInv'
    BY <2>4, FinishStep, RecoverStep
  <2>5. ASSUME NEW s \in Sources, ReviewSource(s) PROVE IInv'
    BY <2>1, <2>5 DEF ReviewSource
  <2>6. CASE UNCHANGED vars
    BY <2>1, <2>6 DEF vars, creationVars
  <2> QED
    BY <2>2, <2>3, <2>4, <2>5, <2>6 DEF Next
<1> QED
  BY <1>1, <1>2, PTL DEF Spec

(* There is one job for a key, and everyone who is given it asked for what   *)
(* it is, however many requests with one key run at once, are refused by the *)
(* gap lock or repeated (jobs.go Create, recoverIdempotentCreate).           *)
THEOREM KeysAreHonoured == Spec => []OneJobPerKey
<1>1. IInv => OneJobPerKey
  BY DEF IInv, Answers, Given, KeysOnce, OneJobPerKey
<1> QED
  BY <1>1, Invariant, PTL

-----------------------------------------------------------------------------
(* The checks of a request *)

(* What the checks are that matter here, and that each has a word for it. *)
LEMMA ChecksRead ==
    ASSUME NEW r, NEW seen, NEW slots, slots = SelectJobSlots(seen.slots, r.slots)
    PROVE  /\ DOMAIN Checks(r, seen) = 1..17
           /\ \A i \in 1..17 : Checks(r, seen)[i].error # ""
           /\ \A i \in 1..17 : Checks(r, seen)[i].error = "configuration_invalid" => i \in {5, 7, 13}
           /\ Checks(r, seen)[2].fails <=> versions[r.version].status # "published"
           /\ Checks(r, seen)[3].fails <=> (r.slots = {} \/ KeysOf(slots) # r.slots)
           /\ Checks(r, seen)[5].fails <=> PreferenceUnreadable(slots, r)
           /\ Checks(r, seen)[7].fails <=> \E o \in r.overrides : ListUnusable(slots, o)
           /\ Checks(r, seen)[11].fails <=> CanvasesRefused(slots, r)
           /\ Checks(r, seen)[13].fails <=> ViewsUnreadable(slots)
           /\ Checks(r, seen)[14].fails <=> PhotographsMissing(slots, Assets(r.sources))
<1>1. DOMAIN Checks(r, seen) = 1..17
  BY DEF Checks
<1>2. \A i \in 1..17 : Checks(r, seen)[i].error # ""
  <2>1. Checks(r, seen)[1].error = "not_found"
    BY DEF Checks
  <2>2. Checks(r, seen)[2].error = "lifecycle_conflict"
    BY DEF Checks
  <2>3. \A i \in {3, 6, 8, 11} : Checks(r, seen)[i].error = "invalid_request"
    BY DEF Checks
  <2>4. Checks(r, seen)[4].error = "device_model_required"
    BY DEF Checks
  <2>5. \A i \in {5, 7, 13} : Checks(r, seen)[i].error = "configuration_invalid"
    BY DEF Checks
  <2>6. \A i \in {9, 10, 12, 14, 15, 16, 17} : Checks(r, seen)[i].error = "not_eligible"
    BY DEF Checks
  <2>7. \A i \in 1..17 : \/ i \in {1, 2, 4} \/ i \in {3, 6, 8, 11} \/ i \in {5, 7, 13}
                          \/ i \in {9, 10, 12, 14, 15, 16, 17}
    OBVIOUS
  <2>8. \A i \in {1, 2, 4} : Checks(r, seen)[i].error \in
            {"not_found", "lifecycle_conflict", "device_model_required"}
    BY <2>1, <2>2, <2>4
  <2>9. \A i \in 1..17 : Checks(r, seen)[i].error \in
            {"not_found", "lifecycle_conflict", "device_model_required", "invalid_request",
             "configuration_invalid", "not_eligible"}
    BY <2>3, <2>5, <2>6, <2>7, <2>8
  <2> QED
    BY <2>9
<1>3. \A i \in 1..17 : Checks(r, seen)[i].error = "configuration_invalid" => i \in {5, 7, 13}
  BY DEF Checks
<1>4. /\ Checks(r, seen)[2].fails <=> versions[r.version].status # "published"
      /\ Checks(r, seen)[3].fails <=> (r.slots = {} \/ KeysOf(slots) # r.slots)
  BY DEF Checks
<1>5. /\ Checks(r, seen)[5].fails <=> PreferenceUnreadable(slots, r)
      /\ Checks(r, seen)[7].fails <=> \E o \in r.overrides : ListUnusable(slots, o)
  BY DEF Checks
<1>6. /\ Checks(r, seen)[11].fails <=> CanvasesRefused(slots, r)
      /\ Checks(r, seen)[13].fails <=> ViewsUnreadable(slots)
      /\ Checks(r, seen)[14].fails <=> PhotographsMissing(slots, Assets(r.sources))
  BY DEF Checks
<1> QED
  BY <1>1, <1>2, <1>3, <1>4, <1>5, <1>6


(* The first of some checks is one of them, and no other comes before. *)
LEMMA Min17 ==
    ASSUME NEW S, S \subseteq 1..17, S # {}
    PROVE  Min(S) \in S /\ \A i \in S : Min(S) <= i
<1>1. \E m \in S : \A i \in S : m <= i
  BY Least
<1> QED
  BY <1>1 DEF Min

(* Some of the checks. *)
LEMMA Numbered == \A i \in {2, 3, 11, 14} : i \in 1..17
  OBVIOUS


(* A request that passes the checks asks for a published version, for slots  *)
(* that the view has, for canvases that fit and with photographs enough.     *)
LEMMA Passing ==
    ASSUME NEW r, NEW seen, NEW slots, slots = SelectJobSlots(seen.slots, r.slots),
           Refusal(r, seen) = ""
    PROVE  /\ versions[r.version].status = "published"
           /\ KeysOf(slots) = r.slots
           /\ ~CanvasesRefused(slots, r) /\ ~PhotographsMissing(slots, Assets(r.sources))
<1> DEFINE failing == {i \in DOMAIN Checks(r, seen) : Checks(r, seen)[i].fails}
<1>1. failing = {}
  <2> SUFFICES ASSUME failing # {} PROVE FALSE
    OBVIOUS
  <2>1. Refusal(r, seen) = Checks(r, seen)[Min(failing)].error
    BY DEF Refusal
  <2>2. failing \subseteq 1..17
    BY ChecksRead
  <2>3. Min(failing) \in failing
    <3> HIDE DEF failing
    <3> QED
      BY <2>2, Min17
  <2> QED
    BY <2>1, <2>2, <2>3, ChecksRead
<1>2. \A i \in 1..17 : ~Checks(r, seen)[i].fails
  BY <1>1, ChecksRead
<1>3. /\ ~Checks(r, seen)[2].fails /\ ~Checks(r, seen)[3].fails
      /\ ~Checks(r, seen)[11].fails /\ ~Checks(r, seen)[14].fails
  BY <1>2, Numbered, Zenon
<1> QED
  BY <1>3, ChecksRead

(* A configuration is blamed for a preference it cannot answer, a list or a  *)
(* list of views, and only that of a published version.                      *)
Blames(slots, r) ==
    \/ PreferenceUnreadable(slots, r)
    \/ \E o \in r.overrides : ListUnusable(slots, o)
    \/ ViewsUnreadable(slots)

LEMMA Blaming ==
    ASSUME NEW r, NEW seen, Refusal(r, seen) = "configuration_invalid"
    PROVE  /\ versions[r.version].status = "published"
           /\ Blames(SelectJobSlots(seen.slots, r.slots), r)
<1>0. PICK slots : slots = SelectJobSlots(seen.slots, r.slots)
  OBVIOUS
<1> DEFINE failing == {i \in DOMAIN Checks(r, seen) : Checks(r, seen)[i].fails}
<1>1. failing # {} /\ Refusal(r, seen) = Checks(r, seen)[Min(failing)].error
  BY DEF Refusal
<1>2. failing \subseteq 1..17
  BY ChecksRead
<1> HIDE DEF failing
<1>3. PICK m : m = Min(failing) /\ m \in failing /\ \A i \in failing : m <= i
  BY <1>1, <1>2, Min17
<1>4. m \in {5, 7, 13}
  <2>1. m \in 1..17 /\ Checks(r, seen)[m].error = "configuration_invalid"
    BY <1>1, <1>2, <1>3
  <2> QED
    BY <2>1, ChecksRead
<1>5. ~Checks(r, seen)[2].fails
  <2>1. 2 \notin failing
    BY <1>3, <1>4
  <2>2. DOMAIN Checks(r, seen) = 1..17
    BY ChecksRead
  <2> QED
    BY <2>1, <2>2, Numbered, Zenon DEF failing
<1>6. Checks(r, seen)[5].fails \/ Checks(r, seen)[7].fails \/ Checks(r, seen)[13].fails
  BY <1>3, <1>4 DEF failing
<1>7. Blames(slots, r)
  BY <1>0, <1>6, ChecksRead DEF Blames
<1> QED
  BY <1>0, <1>5, <1>7, ChecksRead

-----------------------------------------------------------------------------
(* The whole of a request is in the job *)

Covers(items, slots, wanted) ==
    /\ UNION {i.slots : i \in items} = wanted
    /\ \A i \in items : i.kind # "image" => Cardinality(i.slots) = 1
    /\ \A i \in items, s \in slots :
           s.key \in i.slots =>
               /\ (s.kind = "image") = (i.kind = "image")
               /\ s.kind = "image" => Photographed(s, i.inputs)

(* Of slots with one key only one is taken. *)
LEMMA KeysTakenOnce ==
    ASSUME NEW slots, IsSeq(slots), NEW keys,
           NEW s \in SelectJobSlots(slots, keys), NEW t \in SelectJobSlots(slots, keys),
           s.key = t.key
    PROVE  s = t
<1>1. DOMAIN slots = 1..Len(slots) /\ Len(slots) \in Nat
  BY SeqFacts
<1>2. PICK i \in DOMAIN slots : s = slots[i] /\ FirstOfKey(slots, i)
  BY DEF SelectJobSlots
<1>3. PICK j \in DOMAIN slots : t = slots[j] /\ FirstOfKey(slots, j)
  BY DEF SelectJobSlots
<1>4. j \notin 1..(i - 1) /\ i \notin 1..(j - 1)
  BY <1>2, <1>3 DEF FirstOfKey
<1>5. i = j
  BY <1>1, <1>4
<1> QED
  BY <1>2, <1>3, <1>5

LEMMA ItemsCover ==
    ASSUME NEW view, IsSeq(view), NEW r, NEW slots, slots = SelectJobSlots(view, r.slots),
           KeysOf(slots) = r.slots, ~CanvasesRefused(slots, r),
           ~PhotographsMissing(slots, Assets(r.sources))
    PROVE  Covers(Items(slots, r), slots, r.slots)
<1> DEFINE single(s) == [slots |-> {s.key}, canvas |-> 0, kind |-> s.kind,
                         inputs |-> Inputs(s.kind, r)]
           joint(c) == [slots |-> r.canvases[c].slots, canvas |-> c, kind |-> "image",
                        inputs |-> Inputs("image", r)]
<1>1. \A i : i \in Items(slots, r) <=> \/ \E s \in Alone(slots, r) : i = single(s)
                                       \/ \E c \in DOMAIN r.canvases : i = joint(c)
  BY DEF Items
<1>2. \A s, t \in slots : s.key = t.key => s = t
  BY KeysTakenOnce
<1>3. /\ \A s : single(s).slots = {s.key} /\ single(s).kind = s.kind
                /\ single(s).inputs = Inputs(s.kind, r)
      /\ \A c : joint(c).slots = r.canvases[c].slots /\ joint(c).kind = "image"
                /\ joint(c).inputs = Inputs("image", r)
  OBVIOUS
<1> HIDE DEF single, joint
<1>4. /\ r.canvases # <<>> => \A c \in DOMAIN r.canvases : r.canvases[c].slots \subseteq ImageKeys(slots)
      /\ r.canvases # <<>> =>
             \A k \in ImageKeys(slots) : \E c \in DOMAIN r.canvases : k \in r.canvases[c].slots
  BY DEF CanvasesRefused, ToSet
<1>5. \A k : k \in ImageKeys(slots) <=> \E s \in slots : s.kind = "image" /\ s.key = k
  BY DEF ImageKeys, KeysOf
<1>6. \A s \in slots : s.kind = "image" => Photographed(s, Inputs("image", r))
  <2> TAKE s \in slots
  <2> HAVE s.kind = "image"
  <2>1. OfKind(Inputs("image", r), {"visual"}) = OfKind(Assets(r.sources), {"visual"})
    BY DEF Inputs
  <2> QED
    BY <2>1 DEF PhotographsMissing, Photographed
<1>7. DOMAIN r.canvases # {} => r.canvases # <<>>
  OBVIOUS
<1>8. \A k : k \in r.slots <=> \E s \in slots : s.key = k
  BY DEF KeysOf
<1>9. \A k : k \in r.slots <=> \E i \in Items(slots, r) : k \in i.slots
  <2>1. ASSUME NEW s \in slots PROVE \E i \in Items(slots, r) : s.key \in i.slots
    <3>1. CASE s \in Alone(slots, r)
      BY <1>1, <1>3, <3>1
    <3>2. CASE s \notin Alone(slots, r)
      <4>1. s.kind = "image" /\ r.canvases # <<>>
        BY <3>2 DEF Alone
      <4>2. PICK c \in DOMAIN r.canvases : s.key \in r.canvases[c].slots
        BY <1>4, <1>5, <4>1
      <4> QED
        BY <1>1, <1>3, <4>2
    <3> QED
      BY <3>1, <3>2
  <2>2. ASSUME NEW i \in Items(slots, r), NEW k \in i.slots PROVE \E s \in slots : s.key = k
    <3>1. ASSUME NEW s \in Alone(slots, r), i = single(s) PROVE \E t \in slots : t.key = k
      BY <1>3, <3>1 DEF Alone
    <3>2. ASSUME NEW c \in DOMAIN r.canvases, i = joint(c) PROVE \E t \in slots : t.key = k
      BY <1>3, <1>4, <1>5, <1>7, <3>2
    <3> QED
      BY <1>1, <3>1, <3>2
  <2> QED
    BY <1>8, <2>1, <2>2
<1>10. UNION {i.slots : i \in Items(slots, r)} = r.slots
  BY <1>9
<1>11. \A i \in Items(slots, r) : i.kind # "image" => Cardinality(i.slots) = 1
  <2> TAKE i \in Items(slots, r)
  <2> HAVE i.kind # "image"
  <2>1. PICK s \in Alone(slots, r) : i = single(s)
    BY <1>1, <1>3
  <2>2. i.slots = {s.key}
    BY <1>3, <2>1
  <2> QED
    BY <2>2, FS_Singleton
<1>12. ASSUME NEW i \in Items(slots, r), NEW s \in slots, s.key \in i.slots
       PROVE  /\ (s.kind = "image") <=> (i.kind = "image")
              /\ s.kind = "image" => Photographed(s, i.inputs)
  <2>1. ASSUME NEW t \in Alone(slots, r), i = single(t)
        PROVE  i.kind = s.kind /\ i.inputs = Inputs(s.kind, r)
    BY <1>2, <1>3, <1>12, <2>1 DEF Alone
  <2>2. ASSUME NEW c \in DOMAIN r.canvases, i = joint(c)
        PROVE  s.kind = "image" /\ i.kind = "image" /\ i.inputs = Inputs("image", r)
    BY <1>2, <1>3, <1>4, <1>5, <1>7, <1>12, <2>2
  <2> QED
    BY <1>1, <1>6, <2>1, <2>2
<1> HIDE DEF Covers
<1> QED
  BY <1>10, <1>11, <1>12 DEF Covers


-----------------------------------------------------------------------------
(* What was published stands *)

(* A list of slots stays one when it is numbered or sorted. *)
LEMMA NormalSeq == ASSUME NEW form \in Forms PROVE IsSeq(NormalizeSlots(form.slots))
<1>1. PICK n \in Nat : n = Len(form.slots) /\ DOMAIN form.slots = 1..n
  BY FormsAssumption, LenProperties
<1>2. PICK s : s = NormalizeSlots(form.slots)
  OBVIOUS
<1>3. CASE \E i \in DOMAIN form.slots : form.slots[i].sequence > 0
  <2>1. s = [k \in DOMAIN form.slots |->
                 form.slots[CHOOSE i \in DOMAIN form.slots : PlaceOf(form.slots, i) = k]]
    BY <1>2, <1>3 DEF NormalizeSlots
  <2>2. s = [i \in 1..n |-> s[i]]
    BY <1>1, <2>1
  <2> QED
    BY <1>2, <2>2 DEF IsSeq
<1>4. CASE ~ \E i \in DOMAIN form.slots : form.slots[i].sequence > 0
  <2>1. s = [i \in DOMAIN form.slots |-> [form.slots[i] EXCEPT !.sequence = i]]
    BY <1>2, <1>4 DEF NormalizeSlots
  <2>2. s = [i \in 1..n |-> s[i]]
    BY <1>1, <2>1
  <2> QED
    BY <1>2, <2>2 DEF IsSeq
<1> QED
  BY <1>3, <1>4

(* A row of a version and its publication, as PublicationsStand has them. *)
Stands(row, pub) ==
    /\ (row.status \in {"published", "archived"}) <=> pub.published
    /\ pub.published => /\ row.number = pub.number /\ row.prompt = pub.prompt
                        /\ row.slots = pub.slots /\ ValidateTemplateVersion(row)

Standing ==
    /\ Showing /\ IsSeq(publication) /\ DOMAIN publication = DOMAIN versions
    /\ \A v \in DOMAIN versions : Stands(versions[v], publication[v]) /\ IsSeq(versions[v].slots)

(* What is published is kept. *)
Kept ==
    \A v \in DOMAIN versions :
        /\ v \in DOMAIN versions'
        /\ publication[v].published => publication'[v] = publication[v]

LEMMA StandChanged ==
    ASSUME Standing, Showing', NEW v \in DOMAIN versions, NEW row, NEW pub,
           versions' = [versions EXCEPT ![v] = row],
           publication' = [publication EXCEPT ![v] = pub],
           Stands(row, pub), IsSeq(row.slots), publication[v].published => pub = publication[v]
    PROVE  Standing' /\ Kept
<1>1. /\ IsSeq(publication') /\ DOMAIN publication' = DOMAIN publication
      /\ DOMAIN versions' = DOMAIN versions
  BY ExceptFacts DEF Standing
<1>2. \A w \in DOMAIN versions : /\ versions'[w] = IF w = v THEN row ELSE versions[w]
                                 /\ publication'[w] = IF w = v THEN pub ELSE publication[w]
  BY DEF Standing
<1>3. \A w \in DOMAIN versions :
          Stands(versions'[w], publication'[w]) /\ IsSeq(versions'[w].slots)
  BY <1>2 DEF Standing
<1> QED
  BY <1>1, <1>2, <1>3 DEF Standing, Kept

LEMMA StandAdded ==
    ASSUME Standing, Showing', NEW row, versions' = Append(versions, row),
           publication' = Append(publication, Unpublished), row.status = "draft", IsSeq(row.slots)
    PROVE  Standing' /\ Kept
<1>1. IsSeq(versions) /\ IsSeq(publication) /\ DOMAIN publication = DOMAIN versions
  BY DEF Standing, Showing, Typed, Rows
<1>2. PICK n \in Nat : n = Len(versions) /\ DOMAIN versions = 1..n
  BY <1>1, SeqFacts
<1>3. Len(publication) = n
  BY <1>1, <1>2, SeqFacts
<1>4. /\ DOMAIN versions' = 1..(n + 1) /\ DOMAIN publication' = 1..(n + 1) /\ IsSeq(publication')
      /\ \A w \in 1..(n + 1) : /\ versions'[w] = IF w = n + 1 THEN row ELSE versions[w]
                               /\ publication'[w] = IF w = n + 1 THEN Unpublished ELSE publication[w]
  BY <1>1, <1>2, <1>3, AppendFacts
<1>5. /\ \A w \in DOMAIN versions :
             w \in DOMAIN versions' /\ versions'[w] = versions[w] /\ publication'[w] = publication[w]
      /\ \A w \in DOMAIN versions' : w \in DOMAIN versions \/ w = n + 1
      /\ n + 1 \in DOMAIN versions'
      /\ versions'[n + 1] = row /\ publication'[n + 1] = Unpublished
  BY <1>2, <1>4
<1>6. Stands(row, Unpublished)
  <2>1. Unpublished.published = FALSE /\ row.status \notin {"published", "archived"}
    BY DEF Unpublished
  <2> QED
    BY <2>1 DEF Stands
<1>7. \A w \in DOMAIN versions' :
          Stands(versions'[w], publication'[w]) /\ IsSeq(versions'[w].slots)
  BY <1>5, <1>6 DEF Standing
<1> QED
  BY <1>4, <1>5, <1>7 DEF Standing, Kept

(* A version that changes in status alone, with its publication. *)
LEMMA StandTurned ==
    ASSUME Standing, Showing', NEW v \in DOMAIN versions, NEW to, NEW pub,
           versions' = [versions EXCEPT ![v].status = to],
           publication' = [publication EXCEPT ![v] = pub],
           (to \in {"published", "archived"}) <=> pub.published,
           pub.published => /\ versions[v].number = pub.number /\ versions[v].prompt = pub.prompt
                            /\ versions[v].slots = pub.slots /\ ValidateTemplateVersion(versions[v]),
           publication[v].published => pub = publication[v]
    PROVE  Standing' /\ Kept
<1> DEFINE row == Turning(versions[v], to)
<1>1. IsVersion(versions[v])
  BY DEF Standing, Showing, Typed, Rows
<1>2. versions' = [versions EXCEPT ![v] = row]
  BY DEF Turning
<1>3. /\ row.status = to /\ row.number = versions[v].number
      /\ row.prompt = versions[v].prompt /\ row.slots = versions[v].slots
  BY <1>1 DEF IsVersion, Turning
<1> HIDE DEF row
<1>4. ValidateTemplateVersion(row) <=> ValidateTemplateVersion(versions[v])
  BY <1>3 DEF ValidateTemplateVersion
<1>5. Stands(row, pub) /\ IsSeq(row.slots)
  BY <1>3, <1>4 DEF Stands, Standing
<1> QED
  BY <1>2, <1>5, StandChanged

(* Each operation on templates keeps it so. *)
LEMMA StandingStep ==
    ASSUME Standing, Showing', [TemplatesNext]_templateVars
    PROVE  Standing' /\ Kept
<1>0. \A v \in DOMAIN versions :
          /\ publication = [publication EXCEPT ![v] = publication[v]]
          /\ Stands(versions[v], publication[v]) /\ IsSeq(versions[v].slots) /\ IsVersion(versions[v])
  BY SeqFacts DEF Standing, Showing, Typed, Rows
<1>1. ASSUME NEW form \in Forms, CreateTemplate(form) PROVE Standing' /\ Kept
  <2>1. PICK row : row = NewVersion(Len(templates) + 1, 1, form)
    OBVIOUS
  <2>2. row.status = "draft" /\ IsSeq(row.slots)
    BY <2>1, NormalSeq DEF NewVersion
  <2> QED
    BY <1>1, <2>1, <2>2, StandAdded DEF CreateTemplate, AddVersion
<1>2. ASSUME NEW v \in DOMAIN versions, NEW form \in Forms, UpdateDraft(v, form)
      PROVE  Standing' /\ Kept
  <2>1. PICK slots : slots = NormalizeSlots(form.slots)
    OBVIOUS
  <2>2. PICK row : row = Editing(versions[v], form.prompt, slots)
    OBVIOUS
  <2>3. /\ versions' = [versions EXCEPT ![v] = row] /\ versions[v].status = "draft"
        /\ publication' = publication
    BY <1>2, <2>1, <2>2 DEF UpdateDraft, Editing
  <2>4. row.status = "draft" /\ row.slots = slots
    <3>1. PICK a : a = [versions[v] EXCEPT !.prompt = form.prompt]
      OBVIOUS
    <3>2. IsVersion(a) /\ a.status = "draft"
      BY <1>0, <2>3, <3>1 DEF IsVersion
    <3>3. row = [a EXCEPT !.slots = slots]
      BY <2>2, <3>1 DEF Editing
    <3> QED
      BY <3>2, <3>3 DEF IsVersion
  <2>5. ~publication[v].published /\ Stands(row, publication[v])
    BY <1>0, <2>3, <2>4 DEF Stands
  <2>6. IsSeq(row.slots)
    BY <2>1, <2>4, NormalSeq
  <2> QED
    BY <1>0, <2>3, <2>5, <2>6, StandChanged
<1>3. ASSUME NEW v \in DOMAIN versions, CopyVersion(v) PROVE Standing' /\ Kept
  <2>1. PICK number : AddVersion([versions[v] EXCEPT !.status = "draft", !.number = number])
    BY <1>3 DEF CopyVersion
  <2>2. PICK row : row = Copying(versions[v], number)
    OBVIOUS
  <2>3. versions' = Append(versions, row) /\ publication' = Append(publication, Unpublished)
    BY <2>1, <2>2 DEF AddVersion, Copying
  <2>4. row.status = "draft" /\ row.slots = versions[v].slots
    BY <1>0, <2>2 DEF Copying, IsVersion
  <2> QED
    BY <1>0, <2>3, <2>4, StandAdded
<1>4. ASSUME NEW v \in DOMAIN versions, Publish(v) PROVE Standing' /\ Kept
  <2>1. PICK t : t = versions[v].template
    OBVIOUS
  <2>2. PICK pub : pub = [published |-> TRUE, platform |-> templates[t].platform,
                          number |-> versions[v].number,
                          prompt |-> versions[v].prompt, slots |-> versions[v].slots]
    OBVIOUS
  <2>3. /\ versions[v].status = "draft" /\ ValidateTemplateVersion(versions[v])
        /\ versions' = [versions EXCEPT ![v].status = "published"]
        /\ publication' = [publication EXCEPT ![v] = pub]
    BY <1>4, <2>1, <2>2 DEF Publish
  <2>4. ~publication[v].published
    BY <1>0, <2>3 DEF Stands
  <2>5. /\ ("published" \in {"published", "archived"}) <=> pub.published
        /\ versions[v].number = pub.number /\ versions[v].prompt = pub.prompt
        /\ versions[v].slots = pub.slots
    BY <2>2
  <2> QED
    BY <2>3, <2>4, <2>5, StandTurned
<1>5. ASSUME NEW v \in DOMAIN versions, NEW to, Archive(v) \/ Restore(v) \/ DeleteDraft(v)
      PROVE  Standing' /\ Kept
  <2>1. PICK state : /\ versions' = [versions EXCEPT ![v].status = state]
                     /\ (state \in {"published", "archived"}) <=>
                            (versions[v].status \in {"published", "archived"})
                     /\ publication' = publication
    BY <1>5 DEF Archive, Restore, DeleteDraft
  <2>2. Stands(versions[v], publication[v])
    BY <1>0
  <2>3. (state \in {"published", "archived"}) <=> publication[v].published
    BY <2>1, <2>2 DEF Stands
  <2>4. publication' = [publication EXCEPT ![v] = publication[v]]
    BY <1>0, <2>1
  <2> QED
    BY <2>1, <2>2, <2>3, <2>4, StandTurned DEF Stands
<1>6. CASE UNCHANGED templateVars
  BY <1>6 DEF templateVars, Standing, Kept
<1> QED
  BY <1>1, <1>2, <1>3, <1>4, <1>5, <1>6 DEF TemplatesNext


-----------------------------------------------------------------------------
(* Jobs of what was published *)

LEMMA TemplatesWithin == Spec => TemplatesSpec
<1>1. Init => TemplatesInit
  BY DEF Init
<1>2. [Next]_vars => [TemplatesNext]_templateVars
  <2> SUFFICES ASSUME [Next]_vars PROVE [TemplatesNext]_templateVars
    OBVIOUS
  <2>1. CASE UNCHANGED vars
    BY <2>1 DEF vars
  <2>2. CASE Next
    BY <2>2 DEF Next
  <2> QED
    BY <2>1, <2>2
<1> QED
  BY <1>1, <1>2, PTL DEF Spec, TemplatesSpec

LEMMA StandingHolds == TemplatesSpec => []Standing
<1>1. TemplatesInit => Standing
  <2> SUFFICES ASSUME TemplatesInit, Showing PROVE Standing
    BY ShowsAtFirst
  <2>1. versions = <<>> /\ publication = <<>> /\ DOMAIN versions = {}
    BY DEF TemplatesInit
  <2>2. IsSeq(publication)
    <3>1. <<>> = [i \in 1..0 |-> <<>>[i]] /\ 0 \in Nat
      OBVIOUS
    <3> QED
      BY <2>1, <3>1 DEF IsSeq
  <2> QED
    BY <2>1, <2>2 DEF Standing
<1>2. Standing /\ Showing' /\ [TemplatesNext]_templateVars => Standing'
  BY StandingStep
<1> QED
  BY <1>1, <1>2, ShowingHolds, PTL DEF TemplatesSpec

(* What was published stays as it was, and would be published again          *)
(* (templates.go Publish, which checks a draft, and UpdateDraft, which edits *)
(* nothing else).                                                            *)
THEOREM WhatIsPublishedStands == TemplatesSpec => []PublicationsStand
<1>1. Standing => PublicationsStand
  BY DEF Standing, Stands, PublicationsStand
<1> QED
  BY <1>1, StandingHolds, PTL

(* What a caller is told and has seen. *)
Told(state) ==
    LET r == state.request
    IN  /\ state.phase = "looked" => r.version \in DOMAIN versions /\ IsSeq(state.seen.slots)
        /\ state.phase \in {"failed", "refused"} /\ state.outcome = "configuration_invalid" =>
              /\ r \in Requests /\ r.version \in DOMAIN versions
              /\ publication[r.version].published
              /\ Blames(SelectJobSlots(state.seen.slots, r.slots), r)

(* What a job is made of. *)
Made(job) ==
    LET v == job.request.version
    IN  /\ Covers(job.items, job.slots, job.request.slots)
        /\ v \in DOMAIN versions /\ publication[v].published
        /\ job.prompt = publication[v].prompt

Served == (\A c \in Clients : Told(creating[c])) /\ (\A j \in DOMAIN jobs : Made(jobs[j]))

(* Nothing of this is lost when templates change. *)
LEMMA ServedStands ==
    ASSUME Kept
    PROVE  /\ \A state : Told(state) => Told(state)'
           /\ \A job : Made(job) => Made(job)'
<1>1. \A v \in DOMAIN versions : /\ v \in DOMAIN versions'
                                 /\ publication[v].published =>
                                       publication'[v].published /\ publication'[v] = publication[v]
  BY DEF Kept
<1>2. ASSUME NEW state, Told(state) PROVE Told(state)'
  BY <1>1, <1>2 DEF Told
<1>3. ASSUME NEW job, Made(job) PROVE Made(job)'
  BY <1>1, <1>3 DEF Made
<1> QED
  BY <1>2, <1>3

LEMMA ServedNext ==
    ASSUME Kept,
           \A c \in Clients : \E state : creating'[c] = state /\ Told(state),
           \A j \in DOMAIN jobs' : \E job : jobs'[j] = job /\ Made(job)
    PROVE  Served'
<1>1. ASSUME NEW c \in Clients PROVE Told(creating[c])'
  <2>1. PICK state : creating'[c] = state /\ Told(state)
    OBVIOUS
  <2>2. Told(state)'
    BY <2>1, ServedStands
  <2> QED
    BY <2>1, <2>2 DEF Told
<1>2. ASSUME NEW j \in DOMAIN jobs' PROVE Made(jobs[j])'
  <2>1. PICK job : jobs'[j] = job /\ Made(job)
    OBVIOUS
  <2>2. Made(job)'
    BY <2>1, ServedStands
  <2> QED
    BY <2>1, <2>2 DEF Made
<1> QED
  BY <1>1, <1>2 DEF Served

(* A caller moves on, and no job is made. *)
LEMMA ToldNext ==
    ASSUME IInv, Served, Kept, NEW c \in Clients, NEW state,
           creating' = [creating EXCEPT ![c] = state], jobs' = jobs, Told(state)
    PROVE  Served'
<1>1. \A d \in Clients : creating'[d] = IF d = c THEN state ELSE creating[d]
  BY DEF IInv
<1>2. \A d \in Clients : \E s : creating'[d] = s /\ Told(s)
  BY <1>1 DEF Served
<1>3. \A j \in DOMAIN jobs' : \E job : jobs'[j] = job /\ Made(job)
  BY DEF Served
<1> QED
  BY <1>2, <1>3, ServedNext

LEMMA LookServes ==
    ASSUME IInv, Standing, Served, Kept, NEW c \in Clients, NEW r \in Requests, LookForJob(c, r)
    PROVE  Served'
<1>1. CASE WithKey(r.key) # {}
  <2>1. creating' = [creating EXCEPT ![c] = ReplayOf(r)] /\ jobs' = jobs
    BY <1>1 DEF LookForJob
  <2>2. ReplayOf(r).phase = "answered"
    BY DEF ReplayOf, Answered
  <2>3. Told(ReplayOf(r))
    BY <2>2 DEF Told
  <2> QED
    BY <2>1, <2>3, ToldNext
<1>2. CASE WithKey(r.key) = {}
  <2>1. PICK seen : seen = [slots |-> versions[r.version].slots, eligible |-> eligible,
                            platform |-> templates[versions[r.version].template].platform]
    OBVIOUS
  <2>2. PICK state : state = [phase |-> "looked", request |-> r, seen |-> seen]
    OBVIOUS
  <2>3. creating' = [creating EXCEPT ![c] = state] /\ jobs' = jobs /\ r.version \in DOMAIN versions
    BY <1>2, <2>1, <2>2 DEF LookForJob
  <2>4. seen.slots = versions[r.version].slots
    BY <2>1
  <2>5. state.phase = "looked" /\ state.request = r /\ state.seen = seen
    BY <2>2
  <2>6. Told(state)
    BY <2>3, <2>4, <2>5 DEF Told, Standing
  <2> QED
    BY <2>3, <2>6, ToldNext
<1> QED
  BY <1>1, <1>2

LEMMA RecoverServes ==
    ASSUME IInv, Served, Kept, NEW c \in Clients, RecoverIdempotentCreate(c)
    PROVE  Served'
<1>1. PICK r, seen, outcome :
          creating[c] = [phase |-> "failed", request |-> r, seen |-> seen, outcome |-> outcome]
  BY DEF RecoverIdempotentCreate, IInv, Sent, Idle
<1>2. creating[c].request = r /\ jobs' = jobs
  BY <1>1 DEF RecoverIdempotentCreate
<1>3. CASE WithKey(r.key) # {}
  <2>1. creating' = [creating EXCEPT ![c] = ReplayOf(r)]
    BY <1>2, <1>3 DEF RecoverIdempotentCreate
  <2>2. ReplayOf(r).phase = "answered"
    BY DEF ReplayOf, Answered
  <2>3. Told(ReplayOf(r))
    BY <2>2 DEF Told
  <2> QED
    BY <1>2, <2>1, <2>3, ToldNext
<1>4. CASE WithKey(r.key) = {}
  <2>1. PICK state : state = [creating[c] EXCEPT !.phase = "refused"]
    OBVIOUS
  <2>2. creating' = [creating EXCEPT ![c] = state]
    BY <1>2, <1>4, <2>1 DEF RecoverIdempotentCreate
  <2>3. /\ state.phase = "refused" /\ state.request = r /\ state.seen = seen
        /\ state.outcome = outcome
    BY <1>1, <2>1
  <2>4. /\ creating[c].phase = "failed" /\ creating[c].seen = seen
        /\ creating[c].outcome = outcome
    BY <1>1
  <2>5. Told(state)
    BY <1>2, <2>3, <2>4 DEF Served, Told
  <2> QED
    BY <1>2, <2>2, <2>5, ToldNext
<1> QED
  BY <1>3, <1>4


LEMMA FinishServes ==
    ASSUME IInv, Standing, Served, Kept, NEW c \in Clients, FinishCreate(c)
    PROVE  Served'
<1>1. PICK r, seen : creating[c].request = r /\ creating[c].seen = seen
  OBVIOUS
<1>2. PICK refusal : refusal = Refusal(r, seen)
  OBVIOUS
<1>3. creating[c].phase = "looked"
  BY DEF FinishCreate, Looked
<1>4. r \in Requests /\ r.version \in DOMAIN versions /\ IsSeq(seen.slots)
  <2>1. Told(creating[c]) /\ Sent(creating[c])
    BY DEF Served, IInv
  <2> QED
    BY <1>1, <1>3, <2>1 DEF Told, Sent, Idle
<1>5. Stands(versions[r.version], publication[r.version])
  BY <1>4 DEF Standing
<1>6. ASSUME NEW error, error = "configuration_invalid" => refusal = error, jobs' = jobs,
             creating' = [creating EXCEPT ![c] =
                 [phase |-> "failed", request |-> r, seen |-> seen, outcome |-> error]]
      PROVE  Served'
  <2>1. PICK state : state = [phase |-> "failed", request |-> r, seen |-> seen, outcome |-> error]
    OBVIOUS
  <2>2. /\ state.phase = "failed" /\ state.request = r /\ state.seen = seen
        /\ state.outcome = error
    BY <2>1
  <2>3. ASSUME error = "configuration_invalid"
        PROVE  /\ publication[r.version].published
               /\ Blames(SelectJobSlots(seen.slots, r.slots), r)
    <3>1. /\ versions[r.version].status = "published"
          /\ Blames(SelectJobSlots(seen.slots, r.slots), r)
      BY <1>2, <1>6, <2>3, Blaming
    <3> QED
      BY <1>5, <3>1 DEF Stands
  <2>4. Told(state)
    BY <1>4, <2>2, <2>3 DEF Told
  <2> QED
    BY <1>6, <2>1, <2>4, ToldNext
<1>7. ASSUME refusal = "", jobs' = Append(jobs, NewJob(r, seen)), NEW n,
             creating' = [creating EXCEPT ![c] = Answered(r, "created", n)]
      PROVE  Served'
  <2>1. PICK slots : slots = SelectJobSlots(seen.slots, r.slots)
    OBVIOUS
  <2>2. PICK job : job = NewJob(r, seen)
    OBVIOUS
  <2>3. /\ job.items = Items(slots, r) /\ job.slots = slots /\ job.request = r
        /\ job.prompt = versions[r.version].prompt
    BY <2>1, <2>2 DEF NewJob
  <2>4. /\ versions[r.version].status = "published" /\ KeysOf(slots) = r.slots
        /\ ~CanvasesRefused(slots, r) /\ ~PhotographsMissing(slots, Assets(r.sources))
    BY <1>2, <1>7, <2>1, Passing
  <2>5. Covers(job.items, job.slots, job.request.slots)
    BY <1>4, <2>1, <2>3, <2>4, ItemsCover
  <2>6. /\ publication[r.version].published
        /\ versions[r.version].prompt = publication[r.version].prompt
    BY <1>5, <2>4 DEF Stands
  <2>7. Made(job)
    BY <1>4, <2>3, <2>5, <2>6 DEF Made
  <2>8. PICK k \in Nat : k = Len(jobs)
    BY SeqFacts DEF IInv
  <2>9. /\ DOMAIN jobs = 1..k /\ DOMAIN jobs' = 1..(k + 1)
        /\ \A j \in 1..(k + 1) : jobs'[j] = IF j = k + 1 THEN job ELSE jobs[j]
    <3>1. IsSeq(jobs) /\ jobs' = Append(jobs, job)
      BY <1>7, <2>2 DEF IInv
    <3> QED
      BY <2>8, <3>1, SeqFacts, AppendFacts
  <2>10. \A j \in DOMAIN jobs' : \E made : jobs'[j] = made /\ Made(made)
    <3>1. \A j \in DOMAIN jobs' : jobs'[j] = job \/ (j \in DOMAIN jobs /\ jobs'[j] = jobs[j])
      BY <2>8, <2>9
    <3> QED
      BY <2>7, <3>1 DEF Served
  <2>11. Answered(r, "created", n).phase = "answered"
    BY DEF Answered
  <2>12. Told(Answered(r, "created", n))
    BY <2>11 DEF Told
  <2>13. \A d \in Clients : \E state : creating'[d] = state /\ Told(state)
    <3>1. \A d \in Clients :
              creating'[d] = IF d = c THEN Answered(r, "created", n) ELSE creating[d]
      BY <1>7 DEF IInv
    <3> QED
      BY <2>12, <3>1 DEF Served
  <2> QED
    BY <2>10, <2>13, ServedNext
<1> QED
  <2>1. "internal_error" # "configuration_invalid"
    OBVIOUS
  <2>2. \/ \E error : /\ error = "configuration_invalid" => refusal = error
                      /\ jobs' = jobs
                      /\ creating' = [creating EXCEPT ![c] =
                             [phase |-> "failed", request |-> r, seen |-> seen,
                              outcome |-> error]]
        \/ \E n : /\ refusal = "" /\ jobs' = Append(jobs, NewJob(r, seen))
                  /\ creating' = [creating EXCEPT ![c] = Answered(r, "created", n)]
    BY <1>1, <1>2, <2>1 DEF FinishCreate
  <2> QED
    BY <1>6, <1>7, <2>2

LEMMA ServedStep ==
    ASSUME IInv, Standing, Showing', Served, [Next]_vars
    PROVE  Served'
<1>1. [TemplatesNext]_templateVars
  BY DEF Next, vars
<1>2. Kept
  BY <1>1, StandingStep
<1>3. ASSUME jobs' = jobs, creating' = creating PROVE Served'
  <2>1. /\ \A c \in Clients : \E state : creating'[c] = state /\ Told(state)
        /\ \A j \in DOMAIN jobs' : \E job : jobs'[j] = job /\ Made(job)
    BY <1>3 DEF Served
  <2> QED
    BY <1>2, <2>1, ServedNext
<1>4. CASE UNCHANGED creationVars
  BY <1>3, <1>4 DEF creationVars
<1>5. ASSUME NEW c \in Clients, NEW r \in Requests, LookForJob(c, r) PROVE Served'
  BY <1>2, <1>5, LookServes
<1>6. ASSUME NEW c \in Clients, FinishCreate(c) PROVE Served'
  BY <1>2, <1>6, FinishServes
<1>7. ASSUME NEW c \in Clients, RecoverIdempotentCreate(c) PROVE Served'
  BY <1>2, <1>7, RecoverServes
<1>8. ASSUME NEW s \in Sources, ReviewSource(s) PROVE Served'
  BY <1>3, <1>8 DEF ReviewSource
<1> QED
  BY <1>4, <1>5, <1>6, <1>7, <1>8 DEF Next, vars

(* What was published passes the checks of creation, but for lists it has    *)
(* not.                                                                      *)
LEMMA PublishedPasses ==
    ASSUME NEW version, ValidateTemplateVersion(version), NEW r \in Requests,
           Blames(SelectJobSlots(version.slots, r.slots), r)
    PROVE  \E o \in r.overrides, s \in ToSet(version.slots) :
               s.key = o.slot /\ s.allowed[o.field] = <<>>
<1>1. \A s \in SelectJobSlots(version.slots, r.slots) :
          s \in ToSet(version.slots) /\ SlotValid(s, version.slots)
  BY DEF SelectJobSlots, ToSet, ValidateTemplateVersion
<1>2. ~PreferenceUnreadable(SelectJobSlots(version.slots, r.slots), r)
  BY <1>1 DEF PreferenceUnreadable, SlotValid
<1>3. ~ViewsUnreadable(SelectJobSlots(version.slots, r.slots))
  BY <1>1 DEF ViewsUnreadable, SlotValid
<1>4. PICK o \in r.overrides : ListUnusable(SelectJobSlots(version.slots, r.slots), o)
  BY <1>2, <1>3 DEF Blames
<1>5. PICK s \in SelectJobSlots(version.slots, r.slots) :
          s.key = o.slot /\ ~RuntimeListValid(s, o.field)
  BY <1>4 DEF ListUnusable
<1>6. o.field \in Fields
  BY OverridesAssumption
<1>7. AllowListValid(s, o.field)
  BY <1>1, <1>5, <1>6 DEF SlotValid
<1>8. s.allowed[o.field] = <<>>
  BY <1>5, <1>7 DEF AllowListValid, RuntimeListValid
<1> QED
  BY <1>1, <1>5, <1>8

(* A job that is made is the whole of its request, with photographs of every *)
(* view its pictures require, and no request is refused for the              *)
(* configuration of a published template but for a missing list, although    *)
(* slots and row of the version are read at two times (jobs.go Create,       *)
(* resolveImageCanvases, validateImageSlotAssets, and the checks of          *)
(* templates.go Publish).  The invariant, Served, says it of each  *)
(* caller and job; that no later step undoes it is Kept: what is published   *)
(* never changes.                                                            *)
THEOREM RequestsAreServed == Spec => []JobsServeRequests
<1>1. Init => Served
  <2> SUFFICES ASSUME Init PROVE Served
    OBVIOUS
  <2>1. DOMAIN jobs = {} /\ \A c \in Clients : creating[c] = Idle
    BY DEF Init
  <2>2. Idle.phase = "idle"
    BY DEF Idle
  <2> QED
    BY <2>1, <2>2 DEF Served, Told
<1>2. IInv /\ Standing /\ Showing' /\ Served /\ [Next]_vars => Served'
  BY ServedStep
<1>3. Standing /\ Served => JobsServeRequests
  <2> SUFFICES ASSUME Standing, Served PROVE JobsServeRequests
    OBVIOUS
  <2>1. JobsCoverRequests
    BY DEF Served, Made, Covers, JobsCoverRequests
  <2>2. ASSUME NEW c \in Clients, creating[c].phase = "refused",
               creating[c].outcome = "configuration_invalid",
               publication[creating[c].request.version].slots = creating[c].seen.slots
        PROVE  \E o \in creating[c].request.overrides, s \in ToSet(creating[c].seen.slots) :
                   s.key = o.slot /\ s.allowed[o.field] = <<>>
    <3>1. PICK r : r = creating[c].request
      OBVIOUS
    <3>2. PICK row : row = versions[r.version]
      OBVIOUS
    <3>3. /\ r \in Requests /\ r.version \in DOMAIN versions /\ publication[r.version].published
          /\ Blames(SelectJobSlots(creating[c].seen.slots, r.slots), r)
      BY <2>2, <3>1 DEF Served, Told
    <3>4. row.slots = publication[r.version].slots /\ ValidateTemplateVersion(row)
      BY <3>2, <3>3 DEF Standing, Stands
    <3>5. row.slots = creating[c].seen.slots
      BY <2>2, <3>1, <3>4
    <3> QED
      BY <3>1, <3>3, <3>4, <3>5, PublishedPasses
  <2>3. PublishedIsUsable
    BY <2>2 DEF PublishedIsUsable
  <2> QED
    BY <2>1, <2>3 DEF JobsServeRequests
<1> QED
  BY <1>1, <1>2, <1>3, Invariant, TemplatesWithin, StandingHolds, ShowingHolds, PTL DEF Spec


-----------------------------------------------------------------------------
(* Review of texts *)

IsResult(row) ==
    row = [state |-> row.state, applied |-> row.applied, agreed |-> row.agreed, text |-> row.text]
IsContent(c) == c = [revision |-> c.revision, title |-> c.title, seo |-> c.seo]

(* A revision is of a result that was applied, and what it left has parts.   *)
Revised(v) == v.source \in Results /\ IsContent(v.after)

Reviewing ==
    /\ ReviewTypeOK
    /\ result = [r \in Results |-> result[r]] /\ \A r \in Results : IsResult(result[r])
    /\ content = [l \in Locales |-> content[l]] /\ revisions = [l \in Locales |-> revisions[l]]
    /\ applying = [r \in Results |-> applying[r]]
    /\ \A l \in Locales : /\ IsSeq(revisions[l])
                          /\ \A n \in DOMAIN revisions[l] : Revised(revisions[l][n])

(* Who holds the SKU has read the content as it is, and alone; and what is   *)
(* being applied is not applied yet.                                         *)
Reading ==
    /\ \A r \in Results : At(r, "read") => applying[r].content = content
    /\ \A r, s \in Results : At(r, "read") /\ At(s, "read") => r = s
    /\ \A r \in Results : ~At(r, "idle") => ~result[r].applied
    /\ \A r, s \in Results : ~At(r, "idle") /\ ~At(s, "idle") /\ JobOf(r) = JobOf(s) => r = s

ReviewInv == Reviewing /\ Reading /\ EffectiveIsApproved /\ RevisionsChain

(* Operations on results leave the contents and their history alone.         *)
LEMMA HistoryStays ==
    ASSUME ReviewInv, Reviewing', UNCHANGED <<content, revisions>>,
           \A r \in Results : result[r].applied =>
               result'[r].applied /\ result'[r].agreed = result[r].agreed
    PROVE  RevisionsChain'
<1> SUFFICES ASSUME NEW l \in Locales PROVE Chained(l)'
  BY DEF RevisionsChain
<1>1. Chained(l) /\ \A n \in DOMAIN revisions[l] : Revised(revisions[l][n])
  BY DEF ReviewInv, Reviewing, RevisionsChain
<1>2. \A n \in DOMAIN revisions[l] : /\ revisions[l][n].source \in Results
                                     /\ result[revisions[l][n].source].applied
  BY <1>1 DEF Revised, Chained
<1>3. \A n, kind : LastOfKind(l, n, kind)' <=> LastOfKind(l, n, kind)
  BY DEF LastOfKind
<1> QED
  BY <1>1, <1>2, <1>3 DEF Chained


(* Edits, approvals and rejections: one result that is not being applied.    *)
LEMMA ResultChanged ==
    ASSUME ReviewInv, NEW r \in Results, NEW row, NEW eff, Free(r), ~result[r].applied,
           result' = [result EXCEPT ![r] = row], UNCHANGED <<content, revisions, applying>>,
           effective' = [effective EXCEPT ![ItemOf(r)] = eff],
           edits' \in 0..MaxEdits,
           IsResult(row), row.state \in {"candidate", "approved", "rejected"},
           row.text \in Texts, row.applied = FALSE,
           row.state = "approved" => row.text = row.agreed,
           \/ row.state = "approved" /\ eff = r
           \/ eff = Nothing
           \/ eff = effective[ItemOf(r)] /\ eff # r
           \/ eff = effective[ItemOf(r)] /\ row.state = result[r].state
    PROVE  ReviewInv'
<1>1. \A s \in Results : result'[s] = IF s = r THEN row ELSE result[s]
  BY DEF ReviewInv, Reviewing
<1>2. ItemOf(r) \in TextItems /\ result' = [s \in Results |-> result'[s]]
  BY DEF TextItems, ReviewInv, Reviewing
<1>3. /\ effective \in [TextItems -> Results \cup {Nothing}]
      /\ \A i \in TextItems : effective'[i] = IF i = ItemOf(r) THEN eff ELSE effective[i]
      /\ eff \in Results \cup {Nothing}
      /\ effective' \in [TextItems -> Results \cup {Nothing}]
  BY <1>2 DEF ReviewInv, Reviewing, ReviewTypeOK
<1>4. ReviewTypeOK'
  BY <1>1, <1>3 DEF ReviewInv, Reviewing, ReviewTypeOK
<1>5. Reviewing'
  BY <1>1, <1>2, <1>4 DEF ReviewInv, Reviewing
<1>6. \A s \in Results : ~At(s, "idle") => JobOf(s) # JobOf(r) /\ s # r
  BY DEF Free
<1>7. \A s \in Results : \A stage : At(s, stage)' <=> At(s, stage)
  BY DEF At
<1>8. Reading'
  BY <1>1, <1>6, <1>7 DEF ReviewInv, Reading
<1>9. RevisionsChain'
  BY <1>1, <1>5, HistoryStays
<1>10. \A s \in Results : ~At(s, "idle") => ItemOf(s) # ItemOf(r) /\ ItemOf(s) \in TextItems
  BY <1>6, ReviewAssumption DEF TextItems
<1>11. \A s \in Results : RequireEffectiveApproval(s) /\ ~At(s, "idle")
                              => RequireEffectiveApproval(s)'
  BY <1>1, <1>3, <1>6, <1>10 DEF RequireEffectiveApproval
<1>12. EffectiveIsApproved'
  <2>1. ASSUME NEW i \in TextItems, effective'[i] # Nothing
        PROVE  ItemOf(effective'[i]) = i /\ result'[effective'[i]].state = "approved"
    <3>1. CASE effective'[i] = effective[i]
      BY <1>1, <1>3, <2>1, <3>1 DEF ReviewInv, EffectiveIsApproved
    <3>2. CASE effective'[i] # effective[i]
      <4>1. i = ItemOf(r) /\ eff = r /\ row.state = "approved"
        BY <1>2, <1>3, <2>1, <3>2
      <4> QED
        BY <1>1, <1>3, <4>1
    <3> QED
      BY <3>1, <3>2
  <2>2. \A s \in Results : /\ result'[s].applied => result'[s].state = "approved"
                           /\ result'[s].state = "approved" => result'[s].text = result'[s].agreed
    BY <1>1 DEF ReviewInv, EffectiveIsApproved
  <2>3. \A s \in Results : ~At(s, "idle")' => RequireEffectiveApproval(s)'
    BY <1>7, <1>11 DEF ReviewInv, EffectiveIsApproved
  <2> QED
    BY <2>1, <2>2, <2>3 DEF EffectiveIsApproved
<1> QED
  BY <1>5, <1>8, <1>9, <1>12 DEF ReviewInv

(* The steps of an application that write nothing. *)
LEMMA ApplyingChanged ==
    ASSUME ReviewInv, NEW r \in Results, NEW state,
           applying' = [applying EXCEPT ![r] = state],
           UNCHANGED <<result, effective, content, revisions, edits>>,
           \/ state = NotApplying
           \/ state = Bound /\ Free(r) /\ ~result[r].applied /\ RequireEffectiveApproval(r)
           \/ /\ At(r, "bound") /\ SkuFree
              /\ state = [stage |-> "read", content |-> content]
    PROVE  ReviewInv'
<1>1. \A s \in Results : applying'[s] = IF s = r THEN state ELSE applying[s]
  BY DEF ReviewInv, Reviewing
<1>2. Reviewing'
  <2>1. applying' = [s \in Results |-> applying'[s]]
    BY DEF ReviewInv, Reviewing
  <2>2. ReviewTypeOK'
    BY DEF ReviewInv, Reviewing, ReviewTypeOK
  <2> QED
    BY <2>1, <2>2 DEF ReviewInv, Reviewing
<1>3. RevisionsChain'
  BY <1>2, HistoryStays
<1>4. \A s \in Results : \A stage : s # r => (At(s, stage)' <=> At(s, stage))
  BY <1>1 DEF At
<1>5. /\ state.stage \in {"idle", "bound", "read"}
      /\ state.stage # "idle" => /\ RequireEffectiveApproval(r) /\ ~result[r].applied
                                 /\ \A s \in Results : ~At(s, "idle") /\ JobOf(s) = JobOf(r) => s = r
      /\ state.stage = "read" => state.content = content /\ SkuFree
  <2>1. CASE state = NotApplying
    BY <2>1 DEF NotApplying
  <2>2. CASE state = Bound /\ Free(r) /\ ~result[r].applied /\ RequireEffectiveApproval(r)
    BY <2>2 DEF Bound, Free
  <2>3. CASE /\ At(r, "bound") /\ SkuFree
             /\ state = [stage |-> "read", content |-> content]
    <3>1. ~At(r, "idle")
      BY <2>3 DEF At
    <3> QED
      BY <2>3, <3>1 DEF ReviewInv, Reading, EffectiveIsApproved
  <2> QED
    BY <2>1, <2>2, <2>3
<1>6. \A stage : At(r, stage)' <=> state.stage = stage
  BY <1>1 DEF At
<1>7. Reading'
  BY <1>1, <1>4, <1>5, <1>6 DEF ReviewInv, Reading, SkuFree
<1>8. EffectiveIsApproved'
  <2>1. \A s \in Results : RequireEffectiveApproval(s)' <=> RequireEffectiveApproval(s)
    BY DEF RequireEffectiveApproval
  <2>2. \A s \in Results : ~At(s, "idle")' => RequireEffectiveApproval(s)'
    BY <1>4, <1>5, <1>6, <2>1 DEF ReviewInv, EffectiveIsApproved
  <2> QED
    BY <2>2 DEF ReviewInv, EffectiveIsApproved
<1> QED
  BY <1>2, <1>3, <1>7, <1>8 DEF ReviewInv


(* What an application makes of a content. *)
LEMMA AppliedFacts ==
    ASSUME NEW r \in Results, NEW old, old = NoContent \/ IsContent(old),
           NEW new, new = Applied(r, old)
    PROVE  /\ IsContent(new) /\ new.revision = old.revision + 1
           /\ KindOf(r) = "title" => /\ new.title = result[r].text
                                     /\ old # NoContent => new.seo = old.seo
           /\ KindOf(r) = "seo_description" => /\ new.seo = result[r].text
                                               /\ old # NoContent => new.title = old.title
<1>1. PICK base : base = IF old = NoContent THEN [revision |-> 0, title |-> "", seo |-> ""] ELSE old
  OBVIOUS
<1>2. IsContent(base) /\ base.revision = old.revision
  <2>1. CASE old = NoContent
    <3>1. base = [revision |-> 0, title |-> "", seo |-> ""] /\ old.revision = 0
      BY <1>1, <2>1 DEF NoContent
    <3>2. base.revision = 0 /\ base.title = "" /\ base.seo = ""
      BY <3>1
    <3>3. base = [revision |-> base.revision, title |-> base.title, seo |-> base.seo]
      BY <3>1, <3>2
    <3> QED
      BY <3>1, <3>2, <3>3 DEF IsContent
  <2>2. CASE old # NoContent
    BY <1>1, <2>2
  <2> QED
    BY <2>1, <2>2
<1>3. KindOf(r) \in {"title", "seo_description"}
  BY ReviewAssumption
<1>4. CASE KindOf(r) = "title"
  <2>1. new = [base EXCEPT !.revision = @ + 1, !.title = result[r].text]
    BY <1>1, <1>4 DEF Applied
  <2>2. PICK a : a = [base EXCEPT !.revision = @ + 1]
    OBVIOUS
  <2>3. IsContent(a) /\ a.revision = base.revision + 1 /\ a.seo = base.seo
    BY <1>2, <2>2 DEF IsContent
  <2>4. new = [a EXCEPT !.title = result[r].text]
    BY <2>1, <2>2
  <2>5. /\ IsContent(new) /\ new.revision = a.revision /\ new.title = result[r].text
        /\ new.seo = a.seo
    BY <2>3, <2>4 DEF IsContent
  <2> QED
    BY <1>1, <1>2, <1>4, <2>3, <2>5
<1>5. CASE KindOf(r) = "seo_description"
  <2>1. new = [base EXCEPT !.revision = @ + 1, !.seo = result[r].text]
    BY <1>1, <1>5 DEF Applied
  <2>2. PICK a : a = [base EXCEPT !.revision = @ + 1]
    OBVIOUS
  <2>3. IsContent(a) /\ a.revision = base.revision + 1 /\ a.title = base.title
    BY <1>2, <2>2 DEF IsContent
  <2>4. new = [a EXCEPT !.seo = result[r].text]
    BY <2>1, <2>2
  <2>5. /\ IsContent(new) /\ new.revision = a.revision /\ new.seo = result[r].text
        /\ new.title = a.title
    BY <2>3, <2>4 DEF IsContent
  <2> QED
    BY <1>1, <1>2, <1>5, <2>3, <2>5
<1> QED
  BY <1>3, <1>4, <1>5

(* The content is the last of its history, or there is none of either. *)
LEMMA ContentOf ==
    ASSUME ReviewInv, NEW l \in Locales
    PROVE  /\ revisions[l] = <<>> => content[l] = NoContent /\ content[l].revision = 0
           /\ revisions[l] # <<>> => /\ IsContent(content[l]) /\ content[l] # NoContent
                                     /\ content[l].revision = Len(revisions[l])
           /\ Len(revisions[l]) \in Nat /\ DOMAIN revisions[l] = 1..Len(revisions[l])
           /\ (revisions[l] = <<>>) <=> (Len(revisions[l]) = 0)
<1>1. Chained(l) /\ IsSeq(revisions[l]) /\ \A n \in DOMAIN revisions[l] : Revised(revisions[l][n])
  BY DEF ReviewInv, Reviewing, RevisionsChain
<1>2. PICK k \in Nat : /\ k = Len(revisions[l]) /\ DOMAIN revisions[l] = 1..k
                       /\ revisions[l] = [i \in 1..k |-> revisions[l][i]]
  BY <1>1, SeqFacts
<1>3. (revisions[l] = <<>>) <=> (k = 0)
  <2>1. <<>> = [i \in 1..0 |-> <<>>[i]]
    OBVIOUS
  <2>2. k = 0 => revisions[l] = <<>>
    BY <1>2
  <2>3. revisions[l] = <<>> => k = 0
    BY <1>2
  <2> QED
    BY <2>2, <2>3
<1>4. CASE k = 0
  BY <1>1, <1>2, <1>3, <1>4 DEF Chained, NoContent
<1>5. CASE k # 0
  <2>1. /\ k \in DOMAIN revisions[l] /\ revisions[l] # <<>>
        /\ content[l] = revisions[l][k].after /\ content[l].revision = k
    <3>1. k \in DOMAIN revisions[l] /\ revisions[l] # <<>>
      BY <1>2, <1>3, <1>5
    <3>2. content[l] = revisions[l][k].after
      BY <1>1, <1>2, <3>1 DEF Chained
    <3>3. revisions[l][k].after.revision = k
      BY <1>1, <3>1 DEF Chained
    <3> QED
      BY <3>1, <3>2, <3>3
  <2>2. IsContent(content[l])
    BY <1>1, <2>1 DEF Revised
  <2>3. content[l] # NoContent
    BY <2>2 DEF IsContent, NoContent
  <2> QED
    BY <1>2, <1>3, <2>1, <2>2, <2>3
<1> QED
  BY <1>4, <1>5

(* An application adds a revision to the history of a content. *)
LEMMA RevisionAdded ==
    ASSUME ReviewInv, NEW r \in Results, ~result[r].applied, NEW l \in Locales,
           NEW new, new = Applied(r, content[l]),
           revisions'[l] = Append(revisions[l], [before |-> content[l], after |-> new, source |-> r]),
           content'[l] = new, NEW row, row.applied, row.agreed = result[r].text,
           \A s \in Results : result'[s] = IF s = r THEN row ELSE result[s]
    PROVE  /\ Chained(l)' /\ IsSeq(revisions'[l])
           /\ \A n \in DOMAIN revisions'[l] : Revised(revisions'[l][n])
<1>1. PICK v : v = [before |-> content[l], after |-> new, source |-> r]
  OBVIOUS
<1>2. v.before = content[l] /\ v.after = new /\ v.source = r
  BY <1>1
<1>3. PICK h : h = revisions[l]
  OBVIOUS
<1>4. PICK g : g = revisions'[l]
  OBVIOUS
<1>5. /\ Chained(l) /\ IsSeq(h) /\ \A n \in DOMAIN h : Revised(h[n])
  BY <1>3 DEF ReviewInv, Reviewing, RevisionsChain
<1>6. PICK k \in Nat : k = Len(h) /\ DOMAIN h = 1..k
  BY <1>5, SeqFacts
<1>7. g = Append(h, v)
  BY <1>1, <1>3, <1>4
<1>8. /\ IsSeq(g) /\ DOMAIN g = 1..(k + 1) /\ Len(g) = k + 1
      /\ \A n \in 1..(k + 1) : g[n] = IF n = k + 1 THEN v ELSE h[n]
  BY <1>5, <1>6, <1>7, AppendFacts
<1>9. /\ g[k + 1] = v /\ k + 1 \in DOMAIN g /\ k + 1 \notin DOMAIN h /\ g # <<>>
      /\ \A n \in DOMAIN h : n \in DOMAIN g /\ g[n] = h[n] /\ n < k + 1
      /\ \A n \in DOMAIN g : n \in DOMAIN h \/ n = k + 1
  <2>1. DOMAIN <<>> = {}
    OBVIOUS
  <2> QED
    BY <1>6, <1>8, <2>1
<1>10. /\ content[l].revision = k /\ (k = 0 => content[l] = NoContent)
       /\ k # 0 => IsContent(content[l]) /\ content[l] # NoContent /\ content[l] = h[k].after
  <2>1. k # 0 => content[l] = h[k].after
    BY <1>3, <1>5, <1>6, ContentOf DEF Chained
  <2> QED
    BY <1>3, <1>6, <2>1, ContentOf
<1>11. /\ IsContent(new) /\ new.revision = k + 1
       /\ KindOf(r) = "title" => /\ new.title = result[r].text
                                 /\ k # 0 => new.seo = content[l].seo
       /\ KindOf(r) = "seo_description" => /\ new.seo = result[r].text
                                           /\ k # 0 => new.title = content[l].title
  BY <1>10, AppliedFacts
<1>12. \A n \in DOMAIN g : Revised(g[n])
  BY <1>2, <1>5, <1>9, <1>11 DEF Revised
<1>13. \A n \in DOMAIN h : /\ h[n].source \in Results /\ result[h[n].source].applied
                           /\ h[n].source # r
  BY <1>3, <1>5 DEF Chained, Revised
<1>14. /\ \A n \in DOMAIN h : result'[h[n].source] = result[h[n].source]
       /\ result'[r].applied /\ result'[r].agreed = result[r].text
  BY <1>13
<1>15. ASSUME NEW n \in DOMAIN g
       PROVE  /\ g[n].after.revision = n
              /\ g[n].before = IF n = 1 THEN NoContent ELSE g[n - 1].after
              /\ result'[g[n].source].applied
              /\ \A m \in DOMAIN g : g[m].source = g[n].source => m = n
  <2>1. CASE n \in DOMAIN h
    <3>1. /\ h[n].after.revision = n
          /\ h[n].before = IF n = 1 THEN NoContent ELSE h[n - 1].after
          /\ \A m \in DOMAIN h : h[m].source = h[n].source => m = n
      BY <1>3, <1>5, <2>1 DEF Chained
    <3>2. n # 1 => n - 1 \in DOMAIN h
      BY <1>6, <2>1
    <3> QED
      BY <1>2, <1>9, <1>13, <1>14, <2>1, <3>1, <3>2
  <2>2. CASE n = k + 1
    <3>1. k # 0 => k \in DOMAIN h /\ n - 1 = k
      BY <1>6, <2>2
    <3>2. g[n].before = IF n = 1 THEN NoContent ELSE g[n - 1].after
      <4>1. CASE k = 0
        BY <1>2, <1>9, <1>10, <2>2, <4>1
      <4>2. CASE k # 0
        BY <1>2, <1>9, <1>10, <2>2, <3>1, <4>2
      <4> QED
        BY <4>1, <4>2
    <3>3. \A m \in DOMAIN g : g[m].source = g[n].source => m = n
      BY <1>2, <1>9, <1>13, <2>2
    <3> QED
      BY <1>2, <1>9, <1>11, <1>14, <2>2, <3>2, <3>3
  <2> QED
    BY <1>9, <2>1, <2>2
<1>16. ASSUME NEW n \in DOMAIN g, NEW kind, kind \in {"title", "seo_description"},
              KindOf(g[n].source) = kind,
              \A m \in DOMAIN g : m > n => KindOf(g[m].source) # kind
       PROVE  \/ n = k + 1 /\ KindOf(r) = kind
              \/ n \in DOMAIN h /\ KindOf(r) # kind /\ LastOfKind(l, n, kind) /\ k # 0
  <2>1. CASE n = k + 1
    BY <1>2, <1>9, <1>16, <2>1
  <2>2. CASE n \in DOMAIN h
    <3>1. KindOf(r) # kind
      BY <1>2, <1>6, <1>9, <1>16, <2>2
    <3>2. LastOfKind(l, n, kind)
      BY <1>3, <1>9, <1>16, <2>2 DEF LastOfKind
    <3> QED
      BY <1>6, <2>2, <3>1, <3>2
  <2> QED
    BY <1>9, <2>1, <2>2
<1>17. KindOf(r) \in {"title", "seo_description"}
  BY ReviewAssumption
<1>18. ASSUME NEW n \in DOMAIN g, KindOf(g[n].source) = "title",
              \A m \in DOMAIN g : m > n => KindOf(g[m].source) # "title"
       PROVE  new.title = result'[g[n].source].agreed
  <2>1. CASE n = k + 1 /\ KindOf(r) = "title"
    BY <1>2, <1>9, <1>11, <1>14, <2>1
  <2>2. CASE n \in DOMAIN h /\ KindOf(r) # "title" /\ LastOfKind(l, n, "title") /\ k # 0
    <3>1. content[l].title = result[h[n].source].agreed
      BY <1>3, <1>5, <2>2 DEF Chained
    <3> QED
      BY <1>9, <1>11, <1>14, <1>17, <2>2, <3>1
  <2> QED
    BY <1>16, <1>18, <2>1, <2>2
<1>19. ASSUME NEW n \in DOMAIN g, KindOf(g[n].source) = "seo_description",
              \A m \in DOMAIN g : m > n => KindOf(g[m].source) # "seo_description"
       PROVE  new.seo = result'[g[n].source].agreed
  <2>1. CASE n = k + 1 /\ KindOf(r) = "seo_description"
    BY <1>2, <1>9, <1>11, <1>14, <2>1
  <2>2. CASE /\ n \in DOMAIN h /\ KindOf(r) # "seo_description" /\ k # 0
             /\ LastOfKind(l, n, "seo_description")
    <3>1. content[l].seo = result[h[n].source].agreed
      BY <1>3, <1>5, <2>2 DEF Chained
    <3> QED
      BY <1>9, <1>11, <1>14, <1>17, <2>2, <3>1
  <2> QED
    BY <1>16, <1>19, <2>1, <2>2
<1>20. content'[l] = g[Len(g)].after
  BY <1>2, <1>8, <1>9
<1>21. Chained(l)'
  <2>1. content'[l] = IF g = <<>> THEN NoContent ELSE g[Len(g)].after
    BY <1>9, <1>20
  <2>2. \A n \in DOMAIN g : LastOfKind(l, n, "title")' => content'[l].title = result'[g[n].source].agreed
    <3> SUFFICES ASSUME NEW n \in DOMAIN g, LastOfKind(l, n, "title")'
                 PROVE  content'[l].title = result'[g[n].source].agreed
      OBVIOUS
    <3>1. KindOf(g[n].source) = "title" /\ \A m \in DOMAIN g : m > n => KindOf(g[m].source) # "title"
      BY <1>4 DEF LastOfKind
    <3> QED
      BY <1>18, <3>1
  <2>3. \A n \in DOMAIN g : LastOfKind(l, n, "seo_description")' =>
                                content'[l].seo = result'[g[n].source].agreed
    <3> SUFFICES ASSUME NEW n \in DOMAIN g, LastOfKind(l, n, "seo_description")'
                 PROVE  content'[l].seo = result'[g[n].source].agreed
      OBVIOUS
    <3>1. /\ KindOf(g[n].source) = "seo_description"
          /\ \A m \in DOMAIN g : m > n => KindOf(g[m].source) # "seo_description"
      BY <1>4 DEF LastOfKind
    <3> QED
      BY <1>19, <3>1
  <2> QED
    BY <1>4, <1>15, <2>1, <2>2, <2>3 DEF Chained
<1> QED
  BY <1>4, <1>8, <1>12, <1>21

LEMMA WriteStep ==
    ASSUME ReviewInv, NEW r \in Results, WriteContent(r)
    PROVE  ReviewInv'
<1>1. PICK locales : locales = LocalesOf(JobOf(r))
  OBVIOUS
<1>2. PICK row : row = [result[r] EXCEPT !.applied = TRUE]
  OBVIOUS
<1>3. /\ At(r, "read") /\ result' = [result EXCEPT ![r] = row]
      /\ applying' = [applying EXCEPT ![r] = NotApplying]
      /\ UNCHANGED <<effective, edits>>
  BY <1>2 DEF WriteContent
<1>4. /\ applying[r].content = content /\ ~At(r, "idle") /\ ~result[r].applied
      /\ RequireEffectiveApproval(r)
  <2>1. ~At(r, "idle")
    BY <1>3 DEF At
  <2> QED
    BY <1>3, <2>1 DEF ReviewInv, Reading, EffectiveIsApproved
<1>5. /\ IsResult(row) /\ row.applied = TRUE /\ row.state = "approved"
      /\ row.text = result[r].text /\ row.agreed = result[r].agreed /\ row.agreed = row.text
  <2>1. IsResult(result[r]) /\ result[r].state = "approved" /\ result[r].agreed = result[r].text
    BY <1>4 DEF ReviewInv, Reviewing, EffectiveIsApproved, RequireEffectiveApproval
  <2> QED
    BY <1>2, <2>1 DEF IsResult
<1>6. /\ result' = [s \in Results |-> result'[s]] /\ applying' = [s \in Results |-> applying'[s]]
      /\ \A s \in Results : /\ result'[s] = IF s = r THEN row ELSE result[s]
                            /\ applying'[s] = IF s = r THEN NotApplying ELSE applying[s]
  BY <1>3 DEF ReviewInv, Reviewing
<1>7. /\ content' = [l \in Locales |->
             IF l \in locales THEN Applied(r, content[l]) ELSE content[l]]
      /\ revisions' = [l \in Locales |->
             IF l \in locales
             THEN Append(revisions[l],
                         [before |-> content[l], after |-> Applied(r, content[l]), source |-> r])
             ELSE revisions[l]]
  BY <1>1, <1>4 DEF WriteContent
<1>8. ASSUME NEW l \in Locales
      PROVE  /\ Chained(l)' /\ IsSeq(revisions'[l])
             /\ \A n \in DOMAIN revisions'[l] : Revised(revisions'[l][n])
  <2>1. CASE l \in locales
    <3>1. PICK new : new = Applied(r, content[l])
      OBVIOUS
    <3>2. /\ content'[l] = new
          /\ revisions'[l] = Append(revisions[l],
                                    [before |-> content[l], after |-> new, source |-> r])
      BY <1>7, <2>1, <3>1
    <3>3. row.applied /\ row.agreed = result[r].text
      BY <1>5
    <3>4. \A s \in Results : result'[s] = IF s = r THEN row ELSE result[s]
      BY <1>6
    <3> QED
      BY <1>4, <3>1, <3>2, <3>3, <3>4, RevisionAdded
  <2>2. CASE l \notin locales
    <3>1. content'[l] = content[l] /\ revisions'[l] = revisions[l]
      BY <1>7, <2>2
    <3>2. Chained(l) /\ IsSeq(revisions[l]) /\ \A n \in DOMAIN revisions[l] : Revised(revisions[l][n])
      BY DEF ReviewInv, Reviewing, RevisionsChain
    <3>3. \A n \in DOMAIN revisions[l] :
              /\ result'[revisions[l][n].source].applied
              /\ result'[revisions[l][n].source].agreed = result[revisions[l][n].source].agreed
      BY <1>5, <1>6, <3>2 DEF Chained, Revised
    <3>4. \A n, kind : LastOfKind(l, n, kind)' <=> LastOfKind(l, n, kind)
      BY <3>1 DEF LastOfKind
    <3> QED
      BY <3>1, <3>2, <3>3, <3>4 DEF Chained
  <2> QED
    BY <2>1, <2>2
<1>9. ReviewTypeOK'
  BY <1>3, <1>5, <1>6, <1>7 DEF ReviewInv, Reviewing, ReviewTypeOK
<1>10. Reviewing'
  BY <1>5, <1>6, <1>7, <1>8, <1>9 DEF ReviewInv, Reviewing
<1>11. /\ \A s \in Results : \A stage : s # r => (At(s, stage)' <=> At(s, stage))
       /\ At(r, "idle")' /\ ~At(r, "read")'
  BY <1>6 DEF At, NotApplying
<1>12. \A s \in Results : s # r => ~At(s, "read")
  BY <1>3 DEF ReviewInv, Reading
<1>13. Reading'
  BY <1>6, <1>11, <1>12 DEF ReviewInv, Reading
<1>14. \A s \in Results : s # r => (RequireEffectiveApproval(s)' <=> RequireEffectiveApproval(s))
  BY <1>3, <1>6 DEF RequireEffectiveApproval
<1>15. EffectiveIsApproved'
  <2>1. \A i \in TextItems : effective[i] # Nothing => effective[i] \in Results
    BY DEF ReviewInv, Reviewing, ReviewTypeOK
  <2>2. \A s \in Results : ~At(s, "idle")' => RequireEffectiveApproval(s)'
    BY <1>11, <1>14 DEF ReviewInv, EffectiveIsApproved
  <2> QED
    BY <1>3, <1>5, <1>6, <2>1, <2>2 DEF ReviewInv, EffectiveIsApproved
<1>16. RevisionsChain'
  BY <1>8 DEF RevisionsChain
<1> QED
  BY <1>10, <1>13, <1>15, <1>16 DEF ReviewInv


LEMMA ReviewStep == ReviewInv /\ [ReviewNext]_reviewVars => ReviewInv'
<1> SUFFICES ASSUME ReviewInv, [ReviewNext]_reviewVars PROVE ReviewInv'
  OBVIOUS
<1>1. \A r \in Results : /\ IsResult(result[r]) /\ ItemOf(r) \in TextItems
                         /\ result[r].state \in {"candidate", "approved", "rejected"}
                         /\ result[r].text \in Texts /\ result[r].applied \in BOOLEAN
                         /\ result[r].state = "approved" => result[r].text = result[r].agreed
  BY DEF ReviewInv, Reviewing, ReviewTypeOK, TextItems, EffectiveIsApproved
<1>2. /\ edits \in 0..MaxEdits /\ MaxEdits \in Nat
      /\ effective \in [TextItems -> Results \cup {Nothing}]
  BY ReviewAssumption DEF ReviewInv, Reviewing, ReviewTypeOK
<1>3. ASSUME NEW r \in Results, NEW t \in Texts, Edit(r, t) PROVE ReviewInv'
  <2>0. PICK old : old = result[r] /\ IsResult(old)
    BY <1>1
  <2>1. PICK to : to = IF result[r].state = "approved" THEN "candidate" ELSE result[r].state
    OBVIOUS
  <2>2. PICK a : a = [old EXCEPT !.text = t]
    OBVIOUS
  <2>3. PICK row : row = [a EXCEPT !.state = to]
    OBVIOUS
  <2>4. /\ IsResult(a) /\ a.text = t /\ a.state = result[r].state /\ a.applied = result[r].applied
        /\ a.agreed = result[r].agreed
    <3>1. /\ IsResult(a) /\ a.text = t /\ a.state = old.state /\ a.applied = old.applied
          /\ a.agreed = old.agreed
      BY <2>0, <2>2 DEF IsResult
    <3> QED
      BY <2>0, <3>1
  <2>5. /\ IsResult(row) /\ row.text = t /\ row.state = to /\ row.applied = result[r].applied
    BY <2>3, <2>4 DEF IsResult
  <2>6. PICK eff : eff = IF result[r].state = "approved" /\ effective[ItemOf(r)] = r THEN Nothing
                         ELSE effective[ItemOf(r)]
    OBVIOUS
  <2>7. /\ Free(r) /\ ~result[r].applied /\ edits' \in 0..MaxEdits
        /\ UNCHANGED <<content, revisions, applying>>
    BY <1>2, <1>3 DEF Edit
  <2>8. result' = [result EXCEPT ![r] = row]
    BY <1>3, <2>0, <2>1, <2>2, <2>3 DEF Edit
  <2>9. effective' = [effective EXCEPT ![ItemOf(r)] = eff]
    <3>1. CASE result[r].state = "approved"
      BY <1>3, <2>6, <3>1 DEF Edit, ClearEffective
    <3>2. CASE result[r].state # "approved"
      BY <1>1, <1>2, <1>3, <2>6, <3>2 DEF Edit
    <3> QED
      BY <3>1, <3>2
  <2>10. to \in {"candidate", "rejected"}
    BY <1>1, <2>1
  <2>11. \/ eff = Nothing
         \/ eff = effective[ItemOf(r)] /\ eff # r
         \/ eff = effective[ItemOf(r)] /\ row.state = result[r].state
    BY <2>1, <2>5, <2>6
  <2> QED
    BY <1>1, <2>5, <2>7, <2>8, <2>9, <2>10, <2>11, ResultChanged
<1>4. ASSUME NEW r \in Results, Approve(r) PROVE ReviewInv'
  <2>0. PICK old : old = result[r] /\ IsResult(old)
    BY <1>1
  <2>1. PICK a : a = [old EXCEPT !.state = "approved"]
    OBVIOUS
  <2>2. PICK row : row = [a EXCEPT !.agreed = result[r].text]
    OBVIOUS
  <2>3. IsResult(a) /\ a.text = result[r].text /\ a.state = "approved" /\ a.applied = result[r].applied
    <3>1. IsResult(a) /\ a.text = old.text /\ a.state = "approved" /\ a.applied = old.applied
      BY <2>0, <2>1 DEF IsResult
    <3> QED
      BY <2>0, <3>1
  <2>4. /\ IsResult(row) /\ row.text = result[r].text /\ row.state = "approved"
        /\ row.applied = result[r].applied /\ row.agreed = row.text
    BY <2>2, <2>3 DEF IsResult
  <2>5. /\ Free(r) /\ ~result[r].applied /\ edits' \in 0..MaxEdits
        /\ UNCHANGED <<content, revisions, applying>>
        /\ result' = [result EXCEPT ![r] = row]
        /\ effective' = [effective EXCEPT ![ItemOf(r)] = r]
    BY <1>2, <1>4, <2>0, <2>1, <2>2 DEF Approve
  <2> QED
    BY <1>1, <2>4, <2>5, ResultChanged
<1>5. ASSUME NEW r \in Results, Reject(r) PROVE ReviewInv'
  <2>0. PICK old : old = result[r] /\ IsResult(old)
    BY <1>1
  <2>1. PICK row : row = [old EXCEPT !.state = "rejected"]
    OBVIOUS
  <2>2. /\ IsResult(row) /\ row.text = result[r].text /\ row.state = "rejected"
        /\ row.applied = result[r].applied
    <3>1. IsResult(row) /\ row.text = old.text /\ row.state = "rejected" /\ row.applied = old.applied
      BY <2>0, <2>1 DEF IsResult
    <3> QED
      BY <2>0, <3>1
  <2>3. PICK eff : eff = IF effective[ItemOf(r)] = r THEN Nothing ELSE effective[ItemOf(r)]
    OBVIOUS
  <2>4. /\ Free(r) /\ ~result[r].applied /\ edits' \in 0..MaxEdits
        /\ UNCHANGED <<content, revisions, applying>>
        /\ result' = [result EXCEPT ![r] = row]
        /\ effective' = [effective EXCEPT ![ItemOf(r)] = eff]
    BY <1>2, <1>5, <2>0, <2>1, <2>3 DEF Reject, ClearEffective
  <2> QED
    BY <1>1, <2>2, <2>3, <2>4, ResultChanged
<1>6. ASSUME NEW r \in Results, LockBinding(r) \/ ReadContent(r) \/ AbortApply(r) PROVE ReviewInv'
  <2>1. UNCHANGED <<result, effective, content, revisions, edits>>
    BY <1>6 DEF LockBinding, ReadContent, AbortApply
  <2>2. \E state : /\ applying' = [applying EXCEPT ![r] = state]
                   /\ \/ state = NotApplying
                      \/ state = Bound /\ Free(r) /\ ~result[r].applied /\ RequireEffectiveApproval(r)
                      \/ /\ At(r, "bound") /\ SkuFree
                         /\ state = [stage |-> "read", content |-> content]
    BY <1>6 DEF LockBinding, ReadContent, AbortApply
  <2> QED
    BY <2>1, <2>2, ApplyingChanged
<1>7. ASSUME NEW r \in Results, WriteContent(r) PROVE ReviewInv'
  BY <1>7, WriteStep
<1>8. CASE UNCHANGED reviewVars
  <2>1. UNCHANGED <<result, effective, content, revisions, applying, edits>>
    BY <1>8 DEF reviewVars
  <2>2. Reviewing'
    BY <2>1 DEF ReviewInv, Reviewing, ReviewTypeOK
  <2>3. Reading'
    BY <2>1 DEF ReviewInv, Reading, At
  <2>4. EffectiveIsApproved'
    BY <2>1 DEF ReviewInv, EffectiveIsApproved, At, RequireEffectiveApproval
  <2>5. RevisionsChain'
    BY <2>1, <2>2, HistoryStays
  <2> QED
    BY <2>2, <2>3, <2>4, <2>5 DEF ReviewInv
<1> QED
  BY <1>3, <1>4, <1>5, <1>6, <1>7, <1>8 DEF ReviewNext

LEMMA ReviewInvariant == ReviewSpec => []ReviewInv
<1>1. ReviewInit => ReviewInv
  <2> SUFFICES ASSUME ReviewInit PROVE ReviewInv
    OBVIOUS
  <2>1. PICK t \in Texts : t = CHOOSE u \in Texts : Valid(u)
    BY ReviewAssumption
  <2>2. \A r \in Results : result[r] = [state |-> "candidate", applied |-> FALSE, agreed |-> "",
                                        text |-> t]
    BY <2>1 DEF ReviewInit
  <2>3. \A r \in Results : /\ IsResult(result[r]) /\ result[r].state = "candidate"
                           /\ result[r].applied = FALSE /\ result[r].text \in Texts
    <3> SUFFICES ASSUME NEW r \in Results
                 PROVE  /\ IsResult(result[r]) /\ result[r].state = "candidate"
                        /\ result[r].applied = FALSE /\ result[r].text \in Texts
      OBVIOUS
    <3>1. PICK row : row = result[r]
      OBVIOUS
    <3>2. row = [state |-> "candidate", applied |-> FALSE, agreed |-> "", text |-> t]
      BY <2>2, <3>1
    <3>3. row.state = "candidate" /\ row.applied = FALSE /\ row.agreed = "" /\ row.text = t
      BY <3>2
    <3>4. IsResult(row)
      BY <3>2, <3>3 DEF IsResult
    <3> QED
      BY <2>1, <3>1, <3>3, <3>4
  <2>4. ReviewTypeOK
    <3>1. edits = 0 /\ 0 \in 0..MaxEdits
      <4>1. MaxEdits \in Nat
        BY ReviewAssumption
      <4>2. edits = 0
        BY DEF ReviewInit
      <4> QED
        BY <4>1, <4>2
    <3>2. effective \in [TextItems -> Results \cup {Nothing}] /\ DOMAIN content = Locales
      BY DEF ReviewInit
    <3>3. \A r \in Results : /\ result[r].state \in {"candidate", "approved", "rejected"}
                             /\ result[r].text \in Texts /\ result[r].applied \in BOOLEAN
      BY <2>3
    <3> QED
      BY <3>1, <3>2, <3>3 DEF ReviewTypeOK
  <2>5. \A l \in Locales : /\ IsSeq(revisions[l]) /\ DOMAIN revisions[l] = {}
                           /\ revisions[l] = <<>> /\ content[l] = NoContent
    <3>1. PICK none : none = <<>>
      OBVIOUS
    <3>2. none = [i \in 1..0 |-> none[i]] /\ DOMAIN none = {}
      BY <3>1
    <3>3. IsSeq(none)
      BY <3>2 DEF IsSeq
    <3> QED
      BY <3>1, <3>2, <3>3 DEF ReviewInit
  <2>6. \A r \in Results : At(r, "idle") /\ ~At(r, "read")
    BY DEF ReviewInit, At, NotApplying
  <2>7. Reviewing
    BY <2>3, <2>4, <2>5 DEF ReviewInit, Reviewing
  <2>8. Reading
    BY <2>6 DEF Reading
  <2>9. EffectiveIsApproved
    BY <2>3, <2>6 DEF ReviewInit, EffectiveIsApproved
  <2>10. RevisionsChain
    BY <2>5 DEF RevisionsChain, Chained, LastOfKind
  <2> QED
    BY <2>7, <2>8, <2>9, <2>10 DEF ReviewInv
<1> QED
  BY <1>1, ReviewStep, PTL DEF ReviewSpec

(* What reviewers decide stands, for any results, jobs and languages: an     *)
(* item shows an approved text as it was approved, also while it is being    *)
(* applied, and each content has one history without gap or fork             *)
(* (text_results.go).  What it takes: who holds the SKU has read the content *)
(* as it is, and alone, and two results of a job are never applied at once   *)
(* (Reading).                                                                *)
THEOREM ReviewsStand == ReviewSpec => []ReviewedTextStands
<1>1. ReviewInv => ReviewedTextStands
  BY DEF ReviewInv, ReviewedTextStands
<1> QED
  BY <1>1, ReviewInvariant, PTL


-----------------------------------------------------------------------------
(* Settings of the provider *)

IsSettings(p) ==
    /\ p = [status |-> p.status, key |-> p.key, mode |-> p.mode, text |-> p.text,
            responses |-> p.responses, generation |-> p.generation, capable |-> p.capable,
            used |-> p.used, timeout |-> p.timeout]
    /\ p.status # "unconfigured"
IsCall(call) ==
    \/ call \in {Still, Done}
    \/ /\ call = [stage |-> call.stage, with |-> call.with]
       /\ call.stage \in {"prepared", "dispatched"}

(* A call is dispatched only with settings, and with those that it was       *)
(* prepared for as long as they were not replaced under it; and nobody has   *)
(* read settings that are not there.                                         *)
SettingsInv ==
    /\ provider = Unconfigured \/ IsSettings(provider)
    /\ calling = [c \in Calls |-> calling[c]] /\ \A c \in Calls : IsCall(calling[c])
    /\ \A c \in InFlight : /\ provider # Unconfigured
                           /\ ~outlived => calling[c].with = Used(provider)
    /\ changing = [a \in Administrators |-> changing[a]]
    /\ \A a \in Administrators : changing[a].stage = "read" => provider # Unconfigured
    /\ outlived \in BOOLEAN
    /\ CapabilityProven

LEMMA SettingsAreThere ==
    ASSUME SettingsInv
    PROVE  /\ Active => provider # Unconfigured
           /\ provider # Unconfigured => IsSettings(provider)
           /\ \A p : IsSettings(p) => p # Unconfigured
<1>1. Unconfigured.status = "unconfigured"
  BY DEF Unconfigured
<1> QED
  BY <1>1 DEF SettingsInv, Active, IsSettings

(* Settings of which no image call sees a change, or that are not stamped    *)
(* and that no call in flight works with.                                    *)
LEMMA SettingsChange ==
    ASSUME SettingsInv, IsSettings(provider'), UNCHANGED <<calling, proven>>,
           changing' = [a \in Administrators |-> changing'[a]],
           outlived' \in BOOLEAN, outlived => outlived',
           ~outlived' => InFlight = {} \/ Used(provider') = Used(provider),
           ~outlived' /\ provider'.capable => /\ provider # Unconfigured /\ provider.capable
                                             /\ Used(provider') = Used(provider)
    PROVE  SettingsInv'
<1>1. provider' # Unconfigured
  BY SettingsAreThere
<1>2. InFlight' = InFlight
  BY DEF InFlight
<1>3. CapabilityProven'
  BY DEF SettingsInv, CapabilityProven, Used, ImageModel
<1>4. \A c \in InFlight : ~outlived' => calling[c].with = Used(provider)'
  BY DEF SettingsInv, Used, ImageModel
<1> QED
  BY <1>1, <1>2, <1>3, <1>4 DEF SettingsInv

(* Administration of keys, models and limits. *)
LEMMA AdministrationStep ==
    ASSUME SettingsInv, \/ \E a \in Administrators : Configure(a) \/ UpdateModels(a)
                        \/ Disable \/ UpdateTimeouts
    PROVE  SettingsInv'
<1>1. ASSUME NEW a \in Administrators, Configure(a) PROVE SettingsInv'
  <2>1. PICK key : key = changing[a].key
    OBVIOUS
  <2>2. PICK row : row = IF provider = Unconfigured THEN Created(key) ELSE KeyReplaced(provider, key)
    OBVIOUS
  <2>3. /\ provider' = row /\ UNCHANGED <<calling, proven>>
        /\ outlived' = (outlived \/ (InFlight # {} /\ Used(row) # Used(provider)))
        /\ changing' = [changing EXCEPT ![a] = Done]
    BY <1>1, <2>1, <2>2 DEF Configure, Replace
  <2>4. IsSettings(row) /\ row.capable = FALSE
    <3>1. CASE provider = Unconfigured
      <4>1. row = Created(key)
        BY <2>2, <3>1
      <4> QED
        BY <4>1 DEF Created, IsSettings
    <3>2. CASE provider # Unconfigured
      <4>1. PICK p : p = provider /\ IsSettings(p)
        BY <3>2, SettingsAreThere
      <4>2. row = [p EXCEPT !.status = "active", !.key = key, !.capable = FALSE, !.used = FALSE]
        BY <2>2, <3>2, <4>1 DEF KeyReplaced
      <4> QED
        BY <4>1, <4>2 DEF IsSettings
    <3> QED
      BY <3>1, <3>2
  <2> QED
    BY <2>3, <2>4, SettingsChange DEF SettingsInv
<1>2. ASSUME NEW a \in Administrators, UpdateModels(a) PROVE SettingsInv'
  <2>1. PICK config : config = changing[a].config
    OBVIOUS
  <2>2. PICK read : read = changing[a].row
    OBVIOUS
  <2>3. PICK same \in BOOLEAN : same = SameImage(read, config)
    BY DEF SameImage
  <2>4. PICK old : old = provider
    OBVIOUS
  <2>5. PICK cap \in BOOLEAN : cap = (old.capable /\ same)
    OBVIOUS
  <2>6. PICK row : row = [old EXCEPT !.text = config.text, !.mode = config.mode,
                             !.responses = config.responses, !.generation = config.generation,
                             !.capable = cap]
    OBVIOUS
  <2>7. /\ provider' = row /\ UNCHANGED <<calling, proven>> /\ old # Unconfigured
        /\ outlived' = (outlived \/ Used(old) # Used(read)
                                 \/ (InFlight # {} /\ Used(row) # Used(old)))
        /\ changing' = [changing EXCEPT ![a] = Done]
    BY <1>2, <2>1, <2>2, <2>3, <2>4, <2>5, <2>6 DEF UpdateModels, SettingsInv
  <2>8. /\ IsSettings(row) /\ row.capable = cap /\ row.key = old.key /\ row.mode = config.mode
        /\ row.responses = config.responses /\ row.generation = config.generation
    <3>1. IsSettings(old)
      BY <2>4, <2>7, SettingsAreThere
    <3> QED
      BY <2>6, <3>1 DEF IsSettings
  <2>9. same => config.mode = read.mode /\ ImageModel(config) = ImageModel(read)
    BY <2>3 DEF SameImage
  <2>10. ImageModel(row) = ImageModel(config)
    BY <2>8 DEF ImageModel
  <2>11. Used(old) = Used(read) => /\ old.mode = read.mode
                                   /\ ImageModel(old) = ImageModel(read)
    BY DEF Used
  <2>12. Used(old) = Used(read) /\ same => Used(row) = Used(old)
    BY <2>8, <2>9, <2>10, <2>11 DEF Used
  <2>13. /\ outlived' \in BOOLEAN /\ outlived => outlived'
         /\ ~outlived' => InFlight = {} \/ Used(row) = Used(old)
         /\ ~outlived' => Used(old) = Used(read)
    BY <2>7
  <2>14. row.capable => old.capable /\ same
    BY <2>5, <2>8
  <2>15. changing' = [b \in Administrators |-> changing'[b]]
    BY <2>7 DEF SettingsInv
  <2> QED
    BY <2>4, <2>7, <2>8, <2>12, <2>13, <2>14, <2>15, SettingsChange
<1>3. CASE Disable
  <2>1. PICK p : p = provider /\ IsSettings(p)
    BY <1>3, SettingsAreThere DEF Disable
  <2>2. PICK row : row = [p EXCEPT !.status = "disabled"]
    OBVIOUS
  <2>3. /\ IsSettings(row) /\ row.capable = p.capable /\ row.key = p.key /\ row.mode = p.mode
        /\ row.responses = p.responses /\ row.generation = p.generation
    BY <2>1, <2>2 DEF IsSettings
  <2>4. provider' = row /\ UNCHANGED <<changing, calling, proven, outlived>>
    BY <1>3, <2>1, <2>2 DEF Disable
  <2>5. Used(row) = Used(p)
    BY <2>3 DEF Used, ImageModel
  <2> QED
    BY <2>1, <2>3, <2>4, <2>5, SettingsAreThere, SettingsChange DEF SettingsInv
<1>4. CASE UpdateTimeouts
  <2>1. PICK p : p = provider /\ IsSettings(p)
    BY <1>4, SettingsAreThere DEF UpdateTimeouts
  <2>2. PICK row : row = [p EXCEPT !.timeout = "changed"]
    OBVIOUS
  <2>3. /\ IsSettings(row) /\ row.capable = p.capable /\ row.key = p.key /\ row.mode = p.mode
        /\ row.responses = p.responses /\ row.generation = p.generation
    BY <2>1, <2>2 DEF IsSettings
  <2>4. provider' = row /\ UNCHANGED <<changing, calling, proven, outlived>>
    BY <1>4, <2>1, <2>2 DEF UpdateTimeouts
  <2>5. Used(row) = Used(p)
    BY <2>3 DEF Used, ImageModel
  <2> QED
    BY <2>1, <2>3, <2>4, <2>5, SettingsAreThere, SettingsChange DEF SettingsInv
<1> QED
  BY <1>1, <1>2, <1>3, <1>4


(* What requests learn before they change anything. *)
LEMMA AskingStep ==
    ASSUME SettingsInv, NEW a \in Administrators, NEW state,
           changing' = [changing EXCEPT ![a] = state],
           UNCHANGED <<provider, calling, proven, outlived>>,
           state.stage = "read" => provider # Unconfigured
    PROVE  SettingsInv'
<1>1. /\ changing' = [b \in Administrators |-> changing'[b]]
      /\ \A b \in Administrators : changing'[b] = IF b = a THEN state ELSE changing[b]
  BY DEF SettingsInv
<1>2. \A b \in Administrators : changing'[b].stage = "read" => provider # Unconfigured
  BY <1>1 DEF SettingsInv
<1>3. CapabilityProven' /\ InFlight' = InFlight
  BY DEF SettingsInv, CapabilityProven, Used, ImageModel, InFlight
<1>4. \A c \in InFlight : ~outlived => calling[c].with = Used(provider)'
  BY DEF SettingsInv, Used, ImageModel
<1> QED
  BY <1>1, <1>2, <1>3, <1>4 DEF SettingsInv

(* A call that is not in flight by then leaves the others as they were. *)
LEMMA CallQuiet ==
    ASSUME SettingsInv, NEW c \in Calls, NEW call, IsCall(call), call.stage # "dispatched",
           calling' = [calling EXCEPT ![c] = call], UNCHANGED <<changing, outlived>>,
           CapabilityProven',
           \/ UNCHANGED provider
           \/ provider # Unconfigured /\ IsSettings(provider') /\ Used(provider') = Used(provider)
    PROVE  SettingsInv'
<1>1. /\ calling' = [d \in Calls |-> calling'[d]]
      /\ \A d \in Calls : calling'[d] = IF d = c THEN call ELSE calling[d]
      /\ \A d \in Calls : IsCall(calling'[d])
  BY DEF SettingsInv
<1>2. InFlight' \subseteq InFlight /\ \A d \in InFlight' : calling'[d] = calling[d]
  BY <1>1 DEF InFlight
<1>3. /\ Used(provider)' = Used(provider)
      /\ provider # Unconfigured => provider' # Unconfigured
      /\ provider' = Unconfigured \/ IsSettings(provider')
  BY SettingsAreThere DEF Used, ImageModel, SettingsInv
<1>4. \A d \in InFlight' : provider' # Unconfigured /\ (~outlived' => calling'[d].with = Used(provider)')
  BY <1>2, <1>3 DEF SettingsInv
<1> QED
  BY <1>1, <1>3, <1>4 DEF SettingsInv

(* A call goes out: the settings are those it was prepared for, or it and    *)
(* they are known to differ.                                                 *)
LEMMA DispatchStep ==
    ASSUME SettingsInv, NEW c \in Calls, Dispatch(c)
    PROVE  SettingsInv'
<1>1. PICK old : old = calling[c] /\ IsCall(old) /\ old.stage = "prepared"
  BY DEF Dispatch, SettingsInv
<1>2. old = [stage |-> old.stage, with |-> old.with]
  BY <1>1 DEF IsCall, Still, Done
<1>3. CASE ~(Active /\ Fingerprint(provider.key) = Fingerprint(calling[c].with[1]))
  <2>1. calling' = [calling EXCEPT ![c] = Done] /\ UNCHANGED <<changing, proven, provider, outlived>>
    BY <1>3 DEF Dispatch
  <2>2. IsCall(Done) /\ Done.stage # "dispatched"
    BY DEF IsCall, Done
  <2>3. CapabilityProven'
    BY <2>1 DEF SettingsInv, CapabilityProven, Used, ImageModel
  <2> QED
    BY <2>1, <2>2, <2>3, CallQuiet
<1>4. CASE Active /\ Fingerprint(provider.key) = Fingerprint(calling[c].with[1])
  <2>1. PICK p : p = provider /\ IsSettings(p)
    BY <1>4, SettingsAreThere
  <2>2. PICK row : row = [p EXCEPT !.used = TRUE]
    OBVIOUS
  <2>3. /\ IsSettings(row) /\ row.capable = p.capable /\ row.key = p.key /\ row.mode = p.mode
        /\ row.responses = p.responses /\ row.generation = p.generation
    BY <2>1, <2>2 DEF IsSettings
  <2>4. Used(row) = Used(p)
    BY <2>3 DEF Used, ImageModel
  <2>5. PICK call : call = [old EXCEPT !.stage = "dispatched"]
    OBVIOUS
  <2>6. /\ calling' = [calling EXCEPT ![c] = call] /\ provider' = row
        /\ outlived' = (outlived \/ Used(p) # old.with) /\ UNCHANGED <<changing, proven>>
    BY <1>1, <1>4, <2>1, <2>2, <2>5 DEF Dispatch
  <2>7. IsCall(call) /\ call.with = old.with
    BY <1>2, <2>5 DEF IsCall
  <2>8. /\ calling' = [d \in Calls |-> calling'[d]]
        /\ \A d \in Calls : calling'[d] = IF d = c THEN call ELSE calling[d]
        /\ \A d \in Calls : IsCall(calling'[d])
    BY <2>6, <2>7 DEF SettingsInv
  <2>9. \A d \in InFlight' : d = c \/ (d \in InFlight /\ calling'[d] = calling[d])
    BY <2>8 DEF InFlight
  <2>10. provider' # Unconfigured /\ p # Unconfigured
    BY <2>1, <2>3, <2>6, SettingsAreThere
  <2>11. outlived' \in BOOLEAN /\ (~outlived' => ~outlived /\ Used(p) = old.with)
    BY <2>6
  <2>12. \A d \in InFlight' : ~outlived' => calling'[d].with = Used(row)
    <3> SUFFICES ASSUME NEW d \in InFlight', ~outlived' PROVE calling'[d].with = Used(row)
      OBVIOUS
    <3>1. CASE d = c
      BY <2>4, <2>7, <2>8, <2>11, <3>1
    <3>2. CASE d # c
      BY <2>1, <2>4, <2>9, <2>11, <3>2 DEF SettingsInv
    <3> QED
      BY <3>1, <3>2
  <2>13. CapabilityProven'
    BY <2>1, <2>3, <2>4, <2>6, <2>10, <2>11 DEF SettingsInv, CapabilityProven, Used, ImageModel
  <2>14. Used(provider)' = Used(row)
    BY <2>6 DEF Used, ImageModel
  <2> QED
    BY <2>3, <2>6, <2>8, <2>10, <2>11, <2>12, <2>13, <2>14 DEF SettingsInv
<1> QED
  BY <1>3, <1>4

LEMMA CallStep ==
    ASSUME SettingsInv, NEW c \in Calls,
           DecryptActiveCredential(c) \/ PersistResult(c) \/ CallFails(c)
    PROVE  SettingsInv'
<1>1. IsCall(Done) /\ Done.stage # "dispatched"
  BY DEF IsCall, Done
<1>2. CASE DecryptActiveCredential(c)
  <2>1. PICK new : new = [stage |-> "prepared", with |-> Used(provider)]
    OBVIOUS
  <2>2. /\ calling' = [calling EXCEPT ![c] = new]
        /\ UNCHANGED <<provider, changing, proven, outlived>>
    BY <1>2, <2>1 DEF DecryptActiveCredential
  <2>3. IsCall(new) /\ new.stage # "dispatched"
    BY <2>1 DEF IsCall
  <2>4. CapabilityProven'
    BY <2>2 DEF SettingsInv, CapabilityProven, Used, ImageModel
  <2> QED
    BY <2>2, <2>3, <2>4, CallQuiet
<1>3. CASE CallFails(c)
  <2>1. /\ calling' = [calling EXCEPT ![c] = Done]
        /\ UNCHANGED <<provider, changing, proven, outlived>>
    BY <1>3 DEF CallFails
  <2>2. CapabilityProven'
    BY <2>1 DEF SettingsInv, CapabilityProven, Used, ImageModel
  <2> QED
    BY <1>1, <2>1, <2>2, CallQuiet
<1>4. CASE PersistResult(c)
  <2>1. c \in InFlight /\ provider # Unconfigured
    BY <1>4 DEF PersistResult, InFlight, SettingsInv
  <2>2. PICK p : p = provider /\ IsSettings(p)
    BY <2>1, SettingsAreThere
  <2>3. PICK row : row = [p EXCEPT !.capable = TRUE]
    OBVIOUS
  <2>4. /\ IsSettings(row) /\ row.key = p.key /\ row.mode = p.mode
        /\ row.responses = p.responses /\ row.generation = p.generation
    BY <2>2, <2>3 DEF IsSettings
  <2>5. Used(row) = Used(p)
    BY <2>4 DEF Used, ImageModel
  <2>6. /\ provider' = row /\ proven' = proven \cup {calling[c].with}
        /\ calling' = [calling EXCEPT ![c] = Done] /\ UNCHANGED <<changing, outlived>>
    BY <1>4, <2>2, <2>3 DEF PersistResult
  <2>7. Used(provider)' = Used(row)
    BY <2>6 DEF Used, ImageModel
  <2>8. ~outlived => calling[c].with = Used(p)
    BY <2>1, <2>2 DEF SettingsInv
  <2>9. CapabilityProven'
    BY <2>5, <2>6, <2>7, <2>8 DEF CapabilityProven
  <2> QED
    BY <1>1, <2>1, <2>2, <2>4, <2>5, <2>6, <2>9, CallQuiet
<1> QED
  BY <1>2, <1>3, <1>4

LEMMA SettingsStep == SettingsInv /\ [ProviderNext]_providerVars => SettingsInv'
<1> SUFFICES ASSUME SettingsInv, [ProviderNext]_providerVars PROVE SettingsInv'
  OBVIOUS
<1>1. ASSUME NEW a \in Administrators,
             \/ \E key \in Keys : Verify(a, key)
             \/ \E config \in Configurations : ListModels(a, config)
             \/ ReadActive(a) \/ GiveUp(a)
      PROVE  SettingsInv'
  <2>1. UNCHANGED <<provider, calling, proven, outlived>>
    BY <1>1 DEF Verify, ListModels, ReadActive, GiveUp
  <2>2. \E state : /\ changing' = [changing EXCEPT ![a] = state]
                   /\ state.stage = "read" => provider # Unconfigured
    <3>1. CASE \E key \in Keys : Verify(a, key)
      <4>1. PICK key \in Keys : Verify(a, key)
        BY <3>1
      <4> WITNESS [stage |-> "verified", key |-> key]
      <4> QED
        BY <4>1 DEF Verify
    <3>2. CASE \E config \in Configurations : ListModels(a, config)
      <4>1. PICK config \in Configurations : ListModels(a, config)
        BY <3>2
      <4> WITNESS [stage |-> "listed", config |-> config]
      <4> QED
        BY <4>1 DEF ListModels
    <3>3. CASE ReadActive(a)
      BY <3>3, SettingsAreThere DEF ReadActive
    <3>4. CASE GiveUp(a)
      <4>1. Done.stage # "read"
        BY DEF Done
      <4> QED
        BY <3>4, <4>1 DEF GiveUp
    <3> QED
      BY <1>1, <3>1, <3>2, <3>3, <3>4
  <2> QED
    BY <2>1, <2>2, AskingStep
<1>2. CASE UNCHANGED providerVars
  <2>1. UNCHANGED <<provider, changing, calling, proven, outlived>>
    BY <1>2 DEF providerVars
  <2>2. CapabilityProven' /\ Used(provider)' = Used(provider) /\ InFlight' = InFlight
    BY <2>1 DEF SettingsInv, CapabilityProven, Used, ImageModel, InFlight
  <2> QED
    BY <2>1, <2>2 DEF SettingsInv
<1> QED
  BY <1>1, <1>2, AdministrationStep, DispatchStep, CallStep DEF ProviderNext

LEMMA SettingsInvariant == ProviderSpec => []SettingsInv
<1>1. ProviderInit => SettingsInv
  <2>1. Still.stage = "idle"
    BY DEF Still
  <2> QED
    BY <2>1 DEF ProviderInit, SettingsInv, InFlight, IsCall, CapabilityProven
<1> QED
  BY <1>1, SettingsStep, PTL DEF ProviderSpec

(* The settings say that images can be made only if the key, mode and model  *)
(* in them have made one, for any keys, models, calls and requests, as long  *)
(* as nothing was replaced under a call or a request that was working with   *)
(* it (provider_settings.go Configure and UpdateModels, image_executor.go).  *)
THEOREM CapabilityStands == ProviderSpec => []CapabilityProven
<1>1. SettingsInv => CapabilityProven
  BY DEF SettingsInv
<1> QED
  BY <1>1, SettingsInvariant, PTL

-----------------------------------------------------------------------------
(* Pricing *)

(* The charges of a ledger are for metrics it used, each at one rate that    *)
(* was in force.                                                             *)
IsCharge(l, c) ==
    /\ c.metric \in UsedMetrics(l) /\ c.amount \in Nat
    /\ c.card \in rates /\ c.card.at <= UsedAt(l) /\ c.card.tier \in {TierOf(l), "default"}
ChargesHold(l, cs) ==
    /\ IsFiniteSet(cs) /\ \A c \in cs : IsCharge(l, c)
    /\ \A c, e \in cs : c.metric = e.metric => c = e

(* A ledger says what some of its charges come to: it may lag behind them.   *)
LedgerHolds(l) ==
    IF ledger[l].status = "absent" THEN ledger[l] = Absent /\ charges[l] = {}
    ELSE \E cs \in SUBSET charges[l] : ledger[l] = Priced(l, cs)

(* Whoever prices a ledger has seen some of its charges and of the rates.    *)
IsPricing(q) ==
    /\ \A l \in q.todo : l \in Ledgers /\ ledger[l].status # "absent"
    /\ q.stage = "open" =>
           /\ q.ledger \in Ledgers /\ ledger[q.ledger].status # "absent"
           /\ q.frozen \subseteq charges[q.ledger] /\ q.rates \subseteq rates

(* What there is of rates, charges and ledgers, and who is at work on them.  *)
PricingInv ==
    /\ \A r \in rates : r.rate \in Nat
    /\ charges = [l \in Ledgers |-> charges[l]] /\ ledger = [l \in Ledgers |-> ledger[l]]
    /\ pricing = [p \in Pricers |-> pricing[p]]
    /\ \A l \in Ledgers : ChargesHold(l, charges[l]) /\ LedgerHolds(l)
    /\ \A p \in Pricers : IsPricing(pricing[p])

(* What a pricing adds: one charge for each metric that had none.            *)
LEMMA NewChargesFacts ==
    ASSUME NEW l \in Ledgers, NEW frozen, NEW cards \in SUBSET rates, \A r \in rates : r.rate \in Nat
    PROVE  /\ ChargesHold(l, NewCharges(l, frozen, cards))
           /\ \A c \in NewCharges(l, frozen, cards) : c.metric \notin Charged(frozen)
<1> DEFINE ms == {n \in UsedMetrics(l) \ Charged(frozen) : RateFor(l, n, cards) # {}}
           card(m) == CHOOSE r \in RateFor(l, m, cards) : TRUE
           new == {Charge(l, m, card(m)) : m \in ms}
<1>1. NewCharges(l, frozen, cards) = new
  BY DEF NewCharges
<1>2. IsFiniteSet(ms) /\ ms \in SUBSET Metrics
  BY PricingAssumption, FS_Subset DEF UsedMetrics
<1>3. ASSUME NEW m \in ms PROVE card(m) \in RateFor(l, m, cards)
  OBVIOUS
<1>4. ASSUME NEW m \in ms
      PROVE  card(m) \in cards /\ card(m).at <= UsedAt(l) /\ card(m).tier \in {TierOf(l), "default"}
  <2> HIDE DEF card
  <2> QED
    BY <1>3 DEF RateFor
<1> HIDE DEF card
<1>5. ASSUME NEW m \in ms
      PROVE  Charge(l, m, card(m)).metric = m /\ Charge(l, m, card(m)).card = card(m)
  BY DEF Charge
<1>6. ASSUME NEW m \in ms PROVE Charge(l, m, card(m)).amount \in Nat
  <2>1. Quantity(l, m) \in Nat /\ card(m).rate \in Nat /\ UnitSize \in Nat /\ UnitSize > 0
    BY <1>2, <1>4, PricingAssumption
  <2>2. Quantity(l, m) * card(m).rate \in Nat
    BY <2>1
  <2>3. Rounded(Quantity(l, m) * card(m).rate, UnitSize) \in Nat
    BY <2>1, <2>2, RoundedNat
  <2> QED
    BY <2>3 DEF Charge
<1>7. IsFiniteSet(new)
  <2> DEFINE h == [m \in ms |-> Charge(l, m, card(m))]
             none == [c \in Images(h, ms) |-> 0]
             zero == [m \in ms |-> 0]
  <2> HIDE DEF ms
  <2>1. \A m, n \in ms : h[m] = h[n] => m = n
    BY <1>5
  <2>2. \A m \in ms : zero[m] = none[h[m]] /\ zero[m] \in Int
    BY DEF Images
  <2>3. Images(h, ms) = new
    BY DEF Images
  <2> HIDE DEF h, none, zero, new
  <2>4. IsFiniteSet(Images(h, ms))
    BY <1>2, <2>1, <2>2, SumImage
  <2> QED
    BY <2>3, <2>4
<1>8. \A c \in new : IsCharge(l, c)
  BY <1>4, <1>5, <1>6 DEF IsCharge
<1>9. \A c, e \in new : c.metric = e.metric => c = e
  BY <1>5
<1>10. \A c \in new : c.metric \notin Charged(frozen)
  BY <1>5
<1> QED
  BY <1>1, <1>7, <1>8, <1>9, <1>10 DEF ChargesHold

(* One that prices goes on, or none.                                         *)
PricingChange ==
    \/ pricing' = pricing
    \/ \E p \in Pricers : \E q : IsPricing(q) /\ pricing' = [pricing EXCEPT ![p] = q]

(* A ledger is charged for what it had no charge for.                        *)
LEMMA PricedStep ==
    ASSUME PricingInv, NEW l \in Ledgers, NEW new, ChargesHold(l, new),
           \A c \in new : c.metric \notin Charged(charges[l]),
           NEW cs \in SUBSET (charges[l] \cup new), PricingChange,
           charges' = [charges EXCEPT ![l] = @ \cup new],
           ledger' = [ledger EXCEPT ![l] = Priced(l, cs)], UNCHANGED rates
    PROVE  PricingInv'
<1>1. charges' = [k \in Ledgers |-> charges'[k]] /\ ledger' = [k \in Ledgers |-> ledger'[k]]
      /\ charges'[l] = charges[l] \cup new /\ ledger'[l] = Priced(l, cs)
      /\ \A k \in Ledgers : k # l => charges'[k] = charges[k] /\ ledger'[k] = ledger[k]
  BY DEF PricingInv
<1>2. ChargesHold(l, charges[l] \cup new)
  <2>1. ChargesHold(l, charges[l])
    BY DEF PricingInv
  <2>2. \A c \in charges[l], e \in new : c.metric # e.metric
    BY DEF Charged
  <2>3. IsFiniteSet(charges[l] \cup new)
    BY <2>1, FS_Union DEF ChargesHold
  <2> QED
    BY <2>1, <2>2, <2>3 DEF ChargesHold
<1>3. Priced(l, cs).status \in {"priced", "partial", "unpriced"}
  BY DEF Priced, StatusOf
<1>4. \A k \in Ledgers : ChargesHold(k, charges[k]) => ChargesHold(k, charges[k])'
  <2> SUFFICES ASSUME NEW k \in Ledgers, ChargesHold(k, charges[k]) PROVE ChargesHold(k, charges[k])'
    OBVIOUS
  <2>1. CASE k = l
    BY <1>1, <1>2, <2>1 DEF ChargesHold, IsCharge, UsedMetrics
  <2>2. CASE k # l
    BY <1>1, <2>2 DEF ChargesHold, IsCharge, UsedMetrics
  <2> QED
    BY <2>1, <2>2
<1>5. \A k \in Ledgers : LedgerHolds(k)'
  <2> SUFFICES ASSUME NEW k \in Ledgers PROVE LedgerHolds(k)'
    OBVIOUS
  <2>1. CASE k = l
    <3>1. ledger'[k].status # "absent" /\ cs \in SUBSET charges'[k] /\ ledger'[k] = Priced(k, cs)
      BY <1>1, <1>3, <2>1
    <3> QED
      BY <3>1 DEF LedgerHolds, Priced, StatusOf, UsedMetrics
  <2>2. CASE k # l
    <3>1. LedgerHolds(k) /\ ledger'[k] = ledger[k] /\ charges'[k] = charges[k]
      BY <1>1, <2>2 DEF PricingInv
    <3> QED
      BY <3>1 DEF LedgerHolds, Priced, StatusOf, UsedMetrics
  <2> QED
    BY <2>1, <2>2
<1>6. \A k \in Ledgers : /\ charges[k] \subseteq charges'[k]
                         /\ ledger[k].status # "absent" => ledger'[k].status # "absent"
  BY <1>1, <1>3
<1>7. ASSUME NEW t, IsPricing(t) PROVE IsPricing(t)'
  BY <1>6, <1>7 DEF IsPricing
<1>8. pricing' = [p \in Pricers |-> pricing'[p]]
      /\ \A p \in Pricers : IsPricing(pricing'[p])
  BY DEF PricingInv, PricingChange
<1>9. \A p \in Pricers : IsPricing(pricing[p])'
  <2>1. \A p \in Pricers : IsPricing(pricing'[p]) =>
            /\ \A k \in pricing'[p].todo : k \in Ledgers /\ ledger'[k].status # "absent"
            /\ pricing'[p].stage = "open" =>
                   /\ pricing'[p].ledger \in Ledgers /\ ledger'[pricing'[p].ledger].status # "absent"
                   /\ pricing'[p].frozen \subseteq charges'[pricing'[p].ledger]
                   /\ pricing'[p].rates \subseteq rates'
    BY <1>6 DEF IsPricing
  <2> QED
    BY <1>8, <2>1 DEF IsPricing
<1>10. \A k \in Ledgers : ChargesHold(k, charges[k])'
  BY <1>4 DEF PricingInv
<1> QED
  BY <1>1, <1>5, <1>8, <1>9, <1>10 DEF PricingInv

(* Pricing itself changes, and rates are added.                              *)
LEMMA PricingGoes ==
    ASSUME PricingInv, UNCHANGED <<charges, ledger>>, rates \subseteq rates',
           \A r \in rates' : r.rate \in Nat, PricingChange
    PROVE  PricingInv'
<1>1. pricing' = [p \in Pricers |-> pricing'[p]] /\ \A p \in Pricers : IsPricing(pricing'[p])
  BY DEF PricingInv, PricingChange
<1>2. ASSUME NEW q, IsPricing(q)
      PROVE  /\ \A l \in q.todo : l \in Ledgers /\ ledger'[l].status # "absent"
             /\ q.stage = "open" =>
                    /\ q.ledger \in Ledgers /\ ledger'[q.ledger].status # "absent"
                    /\ q.frozen \subseteq charges'[q.ledger] /\ q.rates \subseteq rates'
  BY <1>2 DEF IsPricing
<1>3. \A p \in Pricers : IsPricing(pricing[p])'
  BY <1>1, <1>2 DEF IsPricing
<1>4. \A l \in Ledgers : ChargesHold(l, charges[l])' /\ LedgerHolds(l)'
  BY DEF PricingInv, ChargesHold, IsCharge, LedgerHolds, Priced, StatusOf, UsedMetrics
<1> QED
  BY <1>1, <1>3, <1>4 DEF PricingInv

(* Rates are only added, and what was charged stands.                        *)
LEMMA RatesStep ==
    ASSUME PricingInv,
           NEW a \in Authors, ReadVersion(a) \/ \E es \in RateVersions : CreateRateVersion(a, es)
    PROVE  PricingInv'
<1>1. CASE ReadVersion(a)
  BY <1>1, PricingGoes DEF ReadVersion, PricingInv, PricingChange
<1>2. ASSUME NEW es \in RateVersions, CreateRateVersion(a, es) PROVE PricingInv'
  <2>1. \A e \in es : e.rate \in Nat
    BY PricingAssumption
  <2>2. rates \subseteq rates' /\ \A r \in rates' : r.rate \in Nat
    BY <1>2, <2>1 DEF CreateRateVersion, PricingInv
  <2>3. UNCHANGED <<charges, ledger, pricing>>
    BY <1>2 DEF CreateRateVersion
  <2> QED
    BY <2>2, <2>3, PricingGoes DEF PricingChange
<1> QED
  BY <1>1, <1>2

(* The usage of a call is captured once, and charged at the rates of then.   *)
LEMMA CaptureUsageStep ==
    ASSUME PricingInv, NEW l \in Ledgers, CaptureUsage(l) PROVE PricingInv'
<1> DEFINE new == NewCharges(l, {}, rates)
<1>1. ledger[l] = Absent /\ charges' = [charges EXCEPT ![l] = new]
      /\ ledger' = [ledger EXCEPT ![l] = Priced(l, new)] /\ UNCHANGED <<rates, pricing>>
  BY DEF CaptureUsage
<1>2. ledger[l].status = "absent" /\ charges[l] = {}
  BY <1>1 DEF PricingInv, LedgerHolds, Absent
<1>3. ChargesHold(l, new)
  BY NewChargesFacts DEF PricingInv
<1>4. charges' = [charges EXCEPT ![l] = @ \cup new] /\ new \in SUBSET (charges[l] \cup new)
      /\ Charged(charges[l]) = {}
  BY <1>1, <1>2 DEF Charged
<1>5. \A c \in new : c.metric \notin Charged(charges[l])
  BY <1>4
<1> HIDE DEF new
<1> QED
  BY <1>1, <1>3, <1>4, <1>5, PricedStep DEF PricingChange

(* What is committed was charged for what was there when it was read.        *)
LEMMA CommitPricingStep ==
    ASSUME PricingInv, NEW p \in Pricers, CommitPricing(p) PROVE PricingInv'
<1> DEFINE l == pricing[p].ledger
           frozen == pricing[p].frozen
           new == NewCharges(l, frozen, pricing[p].rates)
           q == [stage |-> "listed", todo |-> pricing[p].todo]
<1>1. /\ pricing[p].stage = "open" /\ Charged(new) \cap Charged(charges[l]) = {}
      /\ charges' = [charges EXCEPT ![l] = @ \cup new]
      /\ ledger' = [ledger EXCEPT ![l] = Priced(l, frozen \cup new)]
      /\ pricing' = [pricing EXCEPT ![p] = q] /\ UNCHANGED rates
  BY DEF CommitPricing
<1>2. IsPricing(pricing[p]) /\ l \in Ledgers
  BY <1>1 DEF PricingInv, IsPricing
<1>3. frozen \subseteq charges[l] /\ pricing[p].rates \in SUBSET rates
  BY <1>1, <1>2 DEF IsPricing
<1>4. ChargesHold(l, new)
  BY <1>2, <1>3, NewChargesFacts DEF PricingInv
<1>5. \A c \in new : c.metric \notin Charged(charges[l])
  BY <1>1 DEF Charged
<1>6. IsPricing(q)
  BY <1>2 DEF IsPricing
<1>7. PricingChange
  BY <1>1, <1>6 DEF PricingChange
<1> HIDE DEF l, frozen, new, q
<1> QED
  BY <1>1, <1>2, <1>3, <1>4, <1>5, <1>7, PricedStep

(* The other steps of one that prices change nothing but what it has read.   *)
LEMMA PricerStep ==
    ASSUME PricingInv, NEW p \in Pricers, RepriceUsage(p) \/ BeginPricing(p) \/ AbortPricing(p)
    PROVE  PricingInv'
<1> SUFFICES ASSUME NEW q, pricing' = [pricing EXCEPT ![p] = q], UNCHANGED <<rates, charges, ledger>>,
                    \/ q = NoPricing
                    \/ q = [stage |-> "listed",
                            todo |-> {l \in Ledgers : ledger[l].status \in {"partial", "unpriced"}}]
                    \/ /\ pricing[p].todo # {}
                       /\ \E l \in pricing[p].todo :
                             q = [stage |-> "open", todo |-> pricing[p].todo \ {l}, ledger |-> l,
                                  frozen |-> charges[l], rates |-> rates]
             PROVE  IsPricing(q)
  <2>1. ASSUME NEW q, pricing' = [pricing EXCEPT ![p] = q], UNCHANGED <<rates, charges, ledger>>, IsPricing(q)
        PROVE  PricingInv'
    BY <2>1, PricingGoes DEF PricingChange, PricingInv
  <2>2. CASE RepriceUsage(p)
    BY <2>1, <2>2 DEF RepriceUsage
  <2>3. CASE AbortPricing(p)
    BY <2>1, <2>3 DEF AbortPricing
  <2>4. CASE BeginPricing(p) /\ pricing[p].todo = {}
    BY <2>1, <2>4 DEF BeginPricing
  <2>5. CASE BeginPricing(p) /\ pricing[p].todo # {}
    <3> DEFINE l == CHOOSE k \in pricing[p].todo : TRUE
    <3>1. l \in pricing[p].todo
      BY <2>5
    <3>2. /\ UNCHANGED <<rates, charges, ledger>>
          /\ pricing' = [pricing EXCEPT ![p] =
                [stage |-> "open", todo |-> pricing[p].todo \ {l}, ledger |-> l,
                 frozen |-> charges[l], rates |-> rates]]
      BY <2>5 DEF BeginPricing
    <3> HIDE DEF l
    <3> QED
      BY <2>1, <2>5, <3>1, <3>2
  <2> QED
    BY <2>2, <2>3, <2>4, <2>5
<1>1. IsPricing(pricing[p])
  BY DEF PricingInv
<1>2. CASE q = NoPricing
  BY <1>2 DEF IsPricing, NoPricing
<1>3. CASE q = [stage |-> "listed",
                todo |-> {l \in Ledgers : ledger[l].status \in {"partial", "unpriced"}}]
  BY <1>3 DEF IsPricing
<1>4. ASSUME NEW l \in pricing[p].todo,
             q = [stage |-> "open", todo |-> pricing[p].todo \ {l}, ledger |-> l,
                  frozen |-> charges[l], rates |-> rates]
      PROVE  IsPricing(q)
  BY <1>1, <1>4 DEF IsPricing
<1> QED
  BY <1>2, <1>3, <1>4

(* The invariant of the pricing, for any number of calls, metrics and rates. *)
THEOREM PricingInvariant == PricingSpec => []PricingInv
<1>1. PricingInit => PricingInv
  <2> SUFFICES ASSUME PricingInit PROVE PricingInv
    OBVIOUS
  <2>1. rates = {} /\ charges = [l \in Ledgers |-> {}] /\ ledger = [l \in Ledgers |-> Absent]
        /\ pricing = [p \in Pricers |-> NoPricing]
    BY DEF PricingInit
  <2>2. \A l \in Ledgers : ChargesHold(l, charges[l])
    BY <2>1, FS_EmptySet DEF ChargesHold
  <2>3. \A l \in Ledgers : LedgerHolds(l)
    BY <2>1 DEF LedgerHolds, Absent
  <2>4. \A p \in Pricers : IsPricing(pricing[p])
    BY <2>1 DEF IsPricing, NoPricing
  <2> QED
    BY <2>1, <2>2, <2>3, <2>4 DEF PricingInv
<1>2. PricingInv /\ [PricingNext]_pricingVars => PricingInv'
  <2> SUFFICES ASSUME PricingInv, [PricingNext]_pricingVars PROVE PricingInv'
    OBVIOUS
  <2>1. CASE UNCHANGED pricingVars
    BY <2>1, PricingGoes DEF pricingVars, PricingInv, PricingChange
  <2>2. CASE PricingNext
    BY <2>2, RatesStep, CaptureUsageStep, PricerStep, CommitPricingStep DEF PricingNext
  <2> QED
    BY <2>1, <2>2
<1> QED
  BY <1>1, <1>2, PTL DEF PricingSpec

(* A call that counts as priced is priced whole.                             *)
LEMMA WholeIsPriced == ASSUME PricingInv PROVE PricedIsWhole
<1> SUFFICES ASSUME NEW l \in Ledgers
             PROVE  /\ Cardinality(charges[l]) = Cardinality(Charged(charges[l]))
                    /\ \A c \in charges[l] : /\ c.card \in rates /\ c.card.at <= UsedAt(l)
                                             /\ c.card.tier \in {TierOf(l), "default"}
                    /\ ledger[l].status = "priced" =>
                           Charged(charges[l]) = UsedMetrics(l) /\ ledger[l].estimate = TotalOf(charges[l])
                    /\ ledger[l].estimate <= TotalOf(charges[l])
                    /\ ledger[l].status = "unpriced" => ledger[l].estimate = 0
  BY DEF PricedIsWhole
<1>1. ChargesHold(l, charges[l]) /\ LedgerHolds(l)
  BY DEF PricingInv
<1>2. Cardinality(charges[l]) = Cardinality(Charged(charges[l]))
  <2> DEFINE S == charges[l]
             h == [c \in S |-> c.metric]
             none == [m \in Images(h, S) |-> 0]
             zero == [c \in S |-> 0]
  <2>1. IsFiniteSet(S) /\ \A c, e \in S : h[c] = h[e] => c = e
    BY <1>1 DEF ChargesHold
  <2>2. \A c \in S : zero[c] = none[h[c]] /\ zero[c] \in Int
    BY DEF Images
  <2>3. Images(h, S) = Charged(S)
    BY DEF Images, Charged
  <2> HIDE DEF h, none, zero, S
  <2>4. Cardinality(Images(h, S)) = Cardinality(S)
    BY <2>1, <2>2, SumImage
  <2> QED
    BY <2>3, <2>4 DEF S
<1>3. \A c \in charges[l] : IsCharge(l, c)
  BY <1>1 DEF ChargesHold
<1>4. TotalOf({}) = 0 /\ TotalOf(charges[l]) \in Nat
  BY <1>1, <1>3, TotalFacts DEF ChargesHold, IsCharge
<1>5. CASE ledger[l].status = "absent"
  BY <1>1, <1>2, <1>3, <1>4, <1>5 DEF LedgerHolds, Absent, IsCharge
<1>6. CASE ledger[l].status # "absent"
  <2>1. PICK cs \in SUBSET charges[l] : ledger[l] = Priced(l, cs)
    BY <1>1, <1>6 DEF LedgerHolds
  <2>2. ledger[l].status = StatusOf(l, cs) /\ ledger[l].estimate = TotalOf(cs)
    BY <2>1 DEF Priced
  <2>3. TotalOf(cs) <= TotalOf(charges[l])
    BY <1>1, <1>3, TotalPart DEF ChargesHold, IsCharge
  <2>4. ASSUME ledger[l].status = "priced"
        PROVE  Charged(charges[l]) = UsedMetrics(l) /\ cs = charges[l]
    <3>1. UsedMetrics(l) \subseteq Charged(cs)
      BY <2>2, <2>4 DEF StatusOf
    <3>2. \A c \in charges[l] : c.metric \in UsedMetrics(l)
      BY <1>3 DEF IsCharge
    <3>3. \A c \in charges[l] : c \in cs
      BY <1>1, <3>1, <3>2 DEF ChargesHold, Charged
    <3> QED
      BY <3>1, <3>2, <3>3 DEF Charged
  <2>5. ledger[l].status = "unpriced" => cs = {}
    BY <2>2 DEF StatusOf, Charged
  <2> QED
    BY <1>2, <1>3, <1>4, <2>2, <2>3, <2>4, <2>5 DEF IsCharge
<1> QED
  BY <1>5, <1>6

-----------------------------------------------------------------------------
(* Reconciliation *)

(* The tables hold what their columns can.                                   *)
CostTables ==
    /\ billed = [b \in Buckets |-> billed[b]] /\ bucket = [b \in Buckets |-> bucket[b]]
    /\ usage = [d \in Days |-> usage[d]] /\ DOMAIN period = MonthsOf(Days)
    /\ \A b \in Buckets :
           /\ billed[b] \in Int
           /\ bucket[b] # NoRow =>
                  bucket[b] = [status |-> bucket[b].status, amount |-> bucket[b].amount]
                  /\ bucket[b].status # "none" /\ bucket[b].amount \in Int
    /\ \A d \in Days :
           /\ IsFiniteSet(usage[d])
           /\ \A u \in usage[d] : u = [job |-> u.job, amount |-> u.amount] /\ u.amount \in Nat
    /\ IsFiniteSet(allocations) /\ \A a \in allocations : a.version \in Nat

There == {b \in Buckets : bucket[b] # NoRow}

(* A sync was asked for a span whose months were open, and keeps to it.      *)
Within(range) == {b \in Buckets : DayOf(b) \in range}
HasMonths(q) == \A b \in Within(q.range) : MonthOf(DayOf(b)) \in q.open
(* What a sync holds in memory, at each of its stages.                       *)
IsFetching(q) ==
    /\ q.stage = "fetching"
    /\ q = [stage |-> "fetching", range |-> q.range, todo |-> q.todo, open |-> q.open, calm |-> q.calm]
    /\ q.todo \subseteq Within(q.range)
IsEntry(e, found) ==
    /\ e = [of |-> e.of, version |-> e.version, next |-> e.next, given |-> e.given]
    /\ e.of \in found /\ e.version \in Nat
IsWorking(q, there) ==
    /\ q = [stage |-> q.stage, range |-> q.range, open |-> q.open, calm |-> q.calm, found |-> q.found,
            days |-> q.days, rows |-> q.rows, buckets |-> q.buckets, entry |-> q.entry]
    /\ q.stage \in {"reconciling", "allocating"}
    /\ \A f \in q.found : /\ f = [id |-> f.id, amount |-> f.amount]
                          /\ f.id \in Within(q.range) /\ f.id \in there
    /\ q.buckets \subseteq q.found
    /\ q.stage = "allocating" => IsEntry(q.entry, q.found)
IsSync(q, there) ==
    \/ q = Waiting \/ q = [stage |-> "over"]
    \/ q.calm \in BOOLEAN /\ HasMonths(q) /\ (IsFetching(q) \/ IsWorking(q, there))

(* The sync is under way; the row of a bucket as a sync reads it; and what   *)
(* the run promises of a bucket (CalmSyncBalances).                          *)
AtWork(q) == q.stage \notin {"idle", "over"}
Row(b) == [id |-> b, amount |-> bucket[b].amount]
InOrder(b) ==
    LET rows == AllocationRows(b, NewestAllocation(b))
        estimates == usage[DayOf(b)]
    IN  IF TotalOf(estimates) = 0 THEN bucket[b].status = "needs_attention"
        ELSE /\ TotalOf(rows) = bucket[b].amount
             /\ {[job |-> a.job, amount |-> a.estimate] : a \in rows} = estimates

(* All the buckets of the span have a row, or are still to be fetched.       *)
Fetched(q) == \A b \in Within(q.range) : b \in q.todo \/ bucket[b] # NoRow
(* The rows at hand are the estimates of the day of f.                       *)
AtHand(q, f) ==
    /\ ToSet(q.rows) = usage[DayOf(f.id)] /\ TotalOf(ToSet(q.rows)) # 0
    /\ Len(q.rows) \in Nat \ {0} /\ DOMAIN q.rows = 1..Len(q.rows)
(* The version in hand is the newest, with the jobs it has come to.          *)
HalfAllocated(q) ==
    LET e == q.entry
        written == AllocationRows(e.of.id, e.version)
    IN  /\ \A a \in allocations : a.bucket = e.of.id => a.version <= e.version
        /\ \A a \in written : a.amount \in Int
        /\ {[job |-> a.job, amount |-> a.estimate] : a \in written} = {q.rows[i] : i \in 1..(e.next - 1)}
        /\ e.next \in 1..(Len(q.rows) + 1) /\ TotalOf(written) = e.given
        /\ e.next = Len(q.rows) + 1 => e.given = e.of.amount
(* What a sync that is left alone holds is what the tables say, and what it  *)
(* is through with is in order.                                              *)
Settled(q) ==
    /\ q.found = {Row(b) : b \in Within(q.range)} /\ \A b \in Within(q.range) : bucket[b] # NoRow
    /\ \A f \in q.buckets : AtHand(q, f)
    /\ q.stage = "allocating" => AtHand(q, q.entry.of) /\ HalfAllocated(q)
    /\ \A b \in Within(q.range) :
           \/ DayOf(b) \in q.days \/ Row(b) \in q.buckets
           \/ q.stage = "allocating" /\ q.entry.of.id = b
           \/ InOrder(b)
Undisturbed(q) ==
    IF q.stage = "fetching" THEN Fetched(q) ELSE AtWork(q) => Settled(q)
RunsAlone(s) == \A t \in Syncs : Running(t) => t = s

CostInv ==
    /\ CostTables /\ sync = [s \in Syncs |-> sync[s]]
    /\ \A s \in Syncs : IsSync(sync[s], There)
    /\ \A s \in Syncs : (Running(s) /\ sync[s].calm) => RunsAlone(s) /\ Undisturbed(sync[s])

(* The newest version is above every one there is.                           *)
LEMMA NewestIsAbove ==
    ASSUME CostTables, NEW b
    PROVE  /\ NewestAllocation(b) \in Nat
           /\ \A a \in allocations : a.bucket = b => a.version <= NewestAllocation(b)
           /\ AllocationRows(b, NewestAllocation(b)) = {} => NewestAllocation(b) = 0
<1> DEFINE S == {x \in allocations : x.bucket = b}
           f == [a \in S |-> a.version]
           T == {0} \cup {f[a] : a \in S}
<1>1. IsFiniteSet(S) /\ \A a \in S : f[a] \in Nat
  BY FS_Subset DEF CostTables
<1>2. \E m \in {0} \cup {f[a] : a \in S} : \A n \in {0} \cup {f[a] : a \in S} : n <= m
  <2>1. \A a \in S : f[a] \in Int
    BY <1>1
  <2> HIDE DEF f, S
  <2> QED
    BY <1>1, <2>1, LargestOf
<1>3. T = {0} \cup {a.version : a \in S}
  OBVIOUS
<1>4. /\ T \subseteq Nat /\ 0 \in T /\ \A a \in S : a.version \in T
      /\ \A n \in T : n = 0 \/ \E a \in S : a.version = n
  <2>1. \A a \in S : a.version \in Nat
    BY DEF CostTables
  <2>2. T = {0} \cup {a.version : a \in S}
    BY <1>3
  <2> HIDE DEF T, S
  <2> QED
    BY <2>1, <2>2
<1>5. NewestAllocation(b) = Max(T)
  BY <1>3 DEF NewestAllocation
<1>6. Max(T) \in T /\ \A n \in T : n <= Max(T)
  <2> HIDE DEF T, S, f
  <2>1. PICK m \in T : \A n \in T : n <= m
    BY <1>2 DEF T
  <2> QED
    BY <1>4, <2>1 DEF Max
<1> HIDE DEF T
<1> QED
  BY <1>4, <1>5, <1>6 DEF AllocationRows

(* The newest version is found again by what is known of it.                 *)
LEMMA NewestIs ==
    ASSUME CostTables, NEW b, NEW v \in Nat, AllocationRows(b, v) # {},
           \A a \in allocations : a.bucket = b => a.version <= v
    PROVE  NewestAllocation(b) = v
<1>1. \E a \in allocations : a.bucket = b /\ a.version = v
  BY DEF AllocationRows
<1>2. v <= NewestAllocation(b) /\ NewestAllocation(b) \in Nat
  BY <1>1, NewestIsAbove
<1>3. NewestAllocation(b) # 0 => \E a \in allocations : a.bucket = b /\ a.version = NewestAllocation(b)
  BY NewestIsAbove DEF AllocationRows
<1> QED
  BY <1>2, <1>3

(* A row that is there stays, and so does what a sync is.                    *)
LEMMA SyncStays ==
    ASSUME NEW q, NEW there, NEW more, IsSync(q, there), there \subseteq more
    PROVE  IsSync(q, more)
BY DEF IsSync, IsWorking

(* One sync goes on by itself.                                               *)
LEMMA OneGoesOn ==
    ASSUME CostInv, CostTables', NEW s \in Syncs, Running(s), NEW q,
           sync' = [sync EXCEPT ![s] = q], There \subseteq There', IsSync(q, There'),
           AtWork(q) => q.calm = sync[s].calm,
           (AtWork(q) /\ q.calm /\ Undisturbed(sync[s])) => Undisturbed(sync[s])'
    PROVE  CostInv'
<1>1. sync' = [t \in Syncs |-> sync'[t]] /\ sync'[s] = q /\ \A t \in Syncs : t # s => sync'[t] = sync[t]
  BY DEF CostInv
<1>2. \A t \in Syncs : IsSync(sync'[t], There')
  BY <1>1, SyncStays DEF CostInv
<1>3. ASSUME NEW t \in Syncs, Running(t)', sync'[t].calm PROVE RunsAlone(t)' /\ Undisturbed(sync[t])'
  <2>1. CASE t = s
    <3>1. AtWork(q) /\ q.calm /\ sync[s].calm
      BY <1>1, <1>3, <2>1 DEF Running, AtWork
    <3>2. RunsAlone(s) /\ Undisturbed(sync[s])
      BY <3>1 DEF CostInv
    <3>3. RunsAlone(s)'
      BY <1>1, <3>2 DEF RunsAlone, Running
    <3> QED
      BY <2>1, <3>1, <3>2, <3>3
  <2>2. CASE t # s
    <3>1. Running(t) /\ sync[t].calm
      BY <1>1, <1>3, <2>2 DEF Running
    <3>2. RunsAlone(t)
      BY <3>1 DEF CostInv
    <3> QED
      BY <2>2, <3>2 DEF RunsAlone
  <2> QED
    BY <2>1, <2>2
<1> QED
  BY <1>1, <1>2, <1>3 DEF CostInv

-----------------------------------------------------------------------------
(* The bill is fetched *)

(* A table changes at no more than what is said.                             *)
LEMMA OthersKeepTables ==
    ASSUME CostInv, UNCHANGED <<usage, bucket, allocations>>, DOMAIN period' = DOMAIN period,
           billed' = [b \in Buckets |-> billed'[b]], \A b \in Buckets : billed'[b] \in Int
    PROVE  CostTables' /\ There' = There
<1>1. CostTables /\ usage' = usage /\ bucket' = bucket /\ allocations' = allocations
  BY DEF CostInv
<1> QED
  BY <1>1 DEF CostTables, There

(* The bill and the periods are no part of what a sync has in hand.          *)
LEMMA BillStep ==
    ASSUME CostInv,
           \/ \E b \in Buckets, amount \in Amounts : Bill(b, amount)
           \/ \E m \in DOMAIN period, closed \in BOOLEAN : ClosePeriod(m, closed)
           \/ UNCHANGED costVars
    PROVE  CostInv'
<1>1. /\ UNCHANGED <<usage, bucket, allocations, sync>> /\ DOMAIN period' = DOMAIN period
      /\ billed' = [b \in Buckets |-> billed'[b]] /\ \A b \in Buckets : billed'[b] \in Int
  BY CostAssumption DEF Bill, ClosePeriod, costVars, CostInv, CostTables
<1>2. CostTables' /\ There' = There
  BY <1>1, OthersKeepTables
<1>3. \A s \in Syncs : Running(s)' = Running(s) /\ RunsAlone(s)' = RunsAlone(s)
  BY <1>1 DEF Running, RunsAlone
<1>4. \A s \in Syncs : Undisturbed(sync[s])' = Undisturbed(sync[s])
  BY <1>1 DEF Undisturbed, AtWork, Fetched, Settled, AtHand, HalfAllocated, InOrder, Row,
              AllocationRows, NewestAllocation
<1> QED
  BY <1>1, <1>2, <1>3, <1>4 DEF CostInv

(* A sync but for calm.                                                      *)
LEMMA CalmIsSet ==
    ASSUME NEW q, NEW there
    PROVE  /\ IsFetching(q) =>
                  [q EXCEPT !.calm = FALSE] =
                      [stage |-> q.stage, range |-> q.range, todo |-> q.todo, open |-> q.open,
                       calm |-> FALSE]
           /\ IsWorking(q, there) =>
                  [q EXCEPT !.calm = FALSE] =
                      [stage |-> q.stage, range |-> q.range, open |-> q.open, calm |-> FALSE,
                       found |-> q.found, days |-> q.days, rows |-> q.rows, buckets |-> q.buckets,
                       entry |-> q.entry]
<1> DEFINE r == [q EXCEPT !.calm = FALSE]
<1>1. r = [x \in DOMAIN r |-> r[x]]
  OBVIOUS
<1>2. ASSUME IsFetching(q)
      PROVE  r = [stage |-> q.stage, range |-> q.range, todo |-> q.todo, open |-> q.open, calm |-> FALSE]
  <2> DEFINE k == [stage |-> q.stage, range |-> q.range, todo |-> q.todo, open |-> q.open, calm |-> FALSE]
             D == {"stage", "range", "todo", "open", "calm"}
  <2>1. DOMAIN q = D
    BY <1>2 DEF IsFetching
  <2>2. /\ DOMAIN r = D /\ r.stage = q.stage /\ r.range = q.range /\ r.todo = q.todo
        /\ r.open = q.open /\ r.calm = FALSE
    BY <2>1
  <2>3. /\ DOMAIN k = D /\ k.stage = q.stage /\ k.range = q.range /\ k.todo = q.todo
        /\ k.open = q.open /\ k.calm = FALSE /\ k = [x \in DOMAIN k |-> k[x]]
    OBVIOUS
  <2> HIDE DEF r, k
  <2>4. DOMAIN r = DOMAIN k /\ \A x \in DOMAIN k : r[x] = k[x]
    BY <2>2, <2>3
  <2>5. k = [x \in DOMAIN k |-> k[x]]
    BY <2>3
  <2>6. r = k
    BY <1>1, <2>4, <2>5
  <2> QED
    BY <2>6 DEF k
<1>3. ASSUME IsWorking(q, there)
      PROVE  r = [stage |-> q.stage, range |-> q.range, open |-> q.open, calm |-> FALSE,
                  found |-> q.found, days |-> q.days, rows |-> q.rows, buckets |-> q.buckets,
                  entry |-> q.entry]
  <2> DEFINE k == [stage |-> q.stage, range |-> q.range, open |-> q.open, calm |-> FALSE,
                   found |-> q.found, days |-> q.days, rows |-> q.rows, buckets |-> q.buckets,
                   entry |-> q.entry]
             D == {"stage", "range", "open", "calm", "found", "days", "rows", "buckets", "entry"}
  <2>1. DOMAIN q = D
    BY <1>3 DEF IsWorking
  <2>2. /\ DOMAIN r = D /\ r.stage = q.stage /\ r.range = q.range /\ r.open = q.open
        /\ r.calm = FALSE /\ r.found = q.found /\ r.days = q.days /\ r.rows = q.rows
        /\ r.buckets = q.buckets /\ r.entry = q.entry
    BY <2>1
  <2>3. /\ DOMAIN k = D /\ k.stage = q.stage /\ k.range = q.range /\ k.open = q.open
        /\ k.calm = FALSE /\ k.found = q.found /\ k.days = q.days /\ k.rows = q.rows
        /\ k.buckets = q.buckets /\ k.entry = q.entry /\ k = [x \in DOMAIN k |-> k[x]]
    OBVIOUS
  <2> HIDE DEF r, k
  <2>4. DOMAIN r = DOMAIN k /\ \A x \in DOMAIN k : r[x] = k[x]
    BY <2>2, <2>3
  <2>5. k = [x \in DOMAIN k |-> k[x]]
    BY <2>3
  <2>6. r = k
    BY <1>1, <2>4, <2>5
  <2> QED
    BY <2>6 DEF k
<1> QED
  BY <1>2, <1>3

(* What is disturbed stays a sync, and none is calm then.                    *)
LEMMA DisturbFacts ==
    ASSUME CostInv, NEW t \in Syncs
    PROVE  /\ IsSync(Disturb(Syncs)[t], There)
           /\ AtWork(Disturb(Syncs)[t]) => ~ Disturb(Syncs)[t].calm
<1> DEFINE q == sync[t]
           r == [q EXCEPT !.calm = FALSE]
<1>1. IsSync(q, There)
  BY DEF CostInv
<1>2. Disturb(Syncs)[t] = IF AtWork(q) THEN r ELSE q
  BY DEF Disturb, Running, AtWork
<1>3. ASSUME AtWork(q) PROVE IsSync(r, There) /\ ~ r.calm
  <2>1. HasMonths(q) /\ (IsFetching(q) \/ IsWorking(q, There))
    BY <1>1, <1>3 DEF IsSync, AtWork, Waiting
  <2>2. CASE IsFetching(q)
    <3>1. r = [stage |-> q.stage, range |-> q.range, todo |-> q.todo, open |-> q.open, calm |-> FALSE]
      BY <2>2, CalmIsSet
    <3> HIDE DEF r
    <3>2. IsFetching(r) /\ HasMonths(r) /\ ~r.calm
      BY <2>1, <2>2, <3>1 DEF IsFetching, HasMonths
    <3> QED
      BY <3>1, <3>2 DEF IsSync
  <2>3. CASE IsWorking(q, There)
    <3>1. r = [stage |-> q.stage, range |-> q.range, open |-> q.open, calm |-> FALSE, found |-> q.found,
               days |-> q.days, rows |-> q.rows, buckets |-> q.buckets, entry |-> q.entry]
      BY <2>3, CalmIsSet
    <3> HIDE DEF r
    <3>2. IsWorking(r, There) /\ HasMonths(r) /\ ~r.calm
      BY <2>1, <2>3, <3>1 DEF IsWorking, HasMonths
    <3> QED
      BY <3>1, <3>2 DEF IsSync
  <2> QED
    BY <2>1, <2>2, <2>3
<1> HIDE DEF r
<1>4. CASE AtWork(q)
  BY <1>2, <1>3, <1>4
<1>5. CASE ~AtWork(q)
  BY <1>1, <1>2, <1>5
<1> QED
  BY <1>4, <1>5

(* Usage that is priced disturbs every sync that is under way.               *)
LEMMA PriceUsageStep ==
    ASSUME CostInv, NEW d \in Days, NEW j \in UsageJobs, NEW n \in 0..1, PriceUsage(d, j, n)
    PROVE  CostInv'
<1> DEFINE old == {u \in usage[d] : u.job = j}
           row == [job |-> j, amount |-> TotalOf(old) + n]
<1>1. /\ usage' = [usage EXCEPT ![d] = (@ \ old) \cup {row}] /\ sync' = Disturb(Syncs)
      /\ UNCHANGED <<billed, period, bucket, allocations>>
  BY DEF PriceUsage
<1>2. /\ CostTables /\ IsFiniteSet(usage[d])
      /\ \A u \in usage[d] : u = [job |-> u.job, amount |-> u.amount] /\ u.amount \in Nat
  BY DEF CostInv, CostTables
<1>3. TotalOf(old) \in Nat
  BY <1>2, TotalPart
<1>4. /\ IsFiniteSet((usage[d] \ old) \cup {row})
      /\ \A u \in (usage[d] \ old) \cup {row} :
             u = [job |-> u.job, amount |-> u.amount] /\ u.amount \in Nat
  <2>1. IsFiniteSet(usage[d] \ old) /\ IsFiniteSet({row})
    BY <1>2, FS_Subset, FS_Singleton
  <2>2. row = [job |-> row.job, amount |-> row.amount] /\ row.amount \in Nat
    <3> HIDE DEF old
    <3> QED
      BY <1>3
  <2> HIDE DEF row, old
  <2> QED
    BY <1>2, <2>1, <2>2, FS_Union
<1> HIDE DEF old, row
<1>5. CostTables' /\ There' = There
  <2>1. usage' = [k \in Days |-> usage'[k]] /\ usage'[d] = (usage[d] \ old) \cup {row}
        /\ \A k \in Days : k # d => usage'[k] = usage[k]
    BY <1>1, <1>2 DEF CostTables
  <2>2. \A k \in Days :
            /\ IsFiniteSet(usage'[k])
            /\ \A u \in usage'[k] : u = [job |-> u.job, amount |-> u.amount] /\ u.amount \in Nat
    BY <1>2, <1>4, <2>1 DEF CostTables
  <2> QED
    BY <1>1, <1>2, <2>1, <2>2 DEF CostTables, There
<1>6. sync' = [s \in Syncs |-> sync'[s]]
  BY <1>1 DEF Disturb
<1>7. \A s \in Syncs : IsSync(sync'[s], There) /\ (AtWork(sync'[s]) => ~sync'[s].calm)
  BY <1>1, DisturbFacts
<1> QED
  BY <1>5, <1>6, <1>7 DEF CostInv, Running, AtWork

(* The months of a span are among those that are checked.                    *)
LEMMA MonthsAreChecked ==
    ASSUME NEW range \in Ranges, NEW d \in range
    PROVE  MonthOf(d) \in Checked(range)
<1> DEFINE f == [x \in range |-> MonthOf(x)]
           M == MonthsOf(range)
<1>1. IsFiniteSet(range) /\ \A x \in range : f[x] \in Nat
  BY CostAssumption
<1>2. M = {f[x] : x \in range} /\ M \in SUBSET Nat /\ MonthOf(d) \in M
  BY <1>1 DEF MonthsOf
<1>3. PICK least \in M : \A m \in M : least <= m
  BY <1>2, Least
<1>4. \E m \in {0} \cup {f[x] : x \in range} : \A n \in {0} \cup {f[x] : x \in range} : n <= m
  <2>1. \A x \in range : f[x] \in Int
    BY <1>1
  <2> HIDE DEF f
  <2> QED
    BY <1>1, <2>1, LargestOf
<1> HIDE DEF f, M
<1>5. PICK m \in {0} \cup M : \A n \in {0} \cup M : n <= m
  BY <1>2, <1>4
<1>6. m \in M
  <2> SUFFICES ASSUME m = 0 PROVE m \in M
    BY <1>5
  <2>1. MonthOf(d) = 0
    BY <1>2, <1>5
  <2> QED
    BY <1>2, <2>1
<1>7. Min(M) \in M /\ Min(M) <= MonthOf(d)
  BY <1>2, <1>3 DEF Min
<1>8. Max(M) \in M /\ MonthOf(d) <= Max(M)
  BY <1>2, <1>5, <1>6 DEF Max
<1> QED
  BY <1>2, <1>7, <1>8 DEF Checked, M

(* A sync begins calm only where no other one runs, with its months checked. *)
LEMMA BeginSyncStep ==
    ASSUME CostInv, NEW s \in Syncs, NEW range \in Ranges, BeginSync(s, range)
    PROVE  CostInv'
<1> DEFINE q == [stage |-> "fetching", range |-> range,
                 todo |-> {b \in Buckets : DayOf(b) \in range},
                 open |-> {m \in DOMAIN period : period[m] # "closed"},
                 calm |-> \A t \in Syncs : ~Running(t)]
<1>1. /\ \A m \in Checked(range) \cap DOMAIN period : period[m] # "closed"
      /\ sync' = [Disturb(Syncs) EXCEPT ![s] = q] /\ UNCHANGED <<billed, usage, period, bucket, allocations>>
  BY DEF BeginSync
<1>2. CostTables' /\ There' = There
  BY <1>1, OthersKeepTables DEF CostInv, CostTables
<1>3. HasMonths(q)
  <2> SUFFICES ASSUME NEW b \in Buckets, DayOf(b) \in range
               PROVE  MonthOf(DayOf(b)) \in q.open
    BY DEF HasMonths, Within
  <2>1. MonthOf(DayOf(b)) \in DOMAIN period
    BY DEF CostInv, CostTables, MonthsOf, Days
  <2>2. MonthOf(DayOf(b)) \in Checked(range)
    BY MonthsAreChecked
  <2> QED
    BY <1>1, <2>1, <2>2
<1>4. IsSync(q, There)
  <2>1. IsFetching(q) /\ q.calm \in BOOLEAN
    BY DEF IsFetching, Within
  <2> QED
    BY <1>3, <2>1 DEF IsSync
<1>5. Fetched(q)'
  BY DEF Fetched, Within
<1>6. q.stage = "fetching" /\ (q.calm => \A t \in Syncs : ~Running(t))
  OBVIOUS
<1>7. q.range = range /\ q.todo = Within(range)
  BY DEF Within
<1> HIDE DEF q
<1>8. sync' = [t \in Syncs |-> sync'[t]] /\ sync'[s] = q
      /\ \A t \in Syncs : t # s => sync'[t] = Disturb(Syncs)[t]
  BY <1>1 DEF Disturb
<1>9. \A t \in Syncs : IsSync(sync'[t], There)
  BY <1>4, <1>8, DisturbFacts
<1>10. ASSUME NEW t \in Syncs, Running(t)', sync'[t].calm PROVE RunsAlone(t)' /\ Undisturbed(sync[t])'
  <2>1. t = s
    BY <1>8, <1>10, DisturbFacts DEF Running, AtWork
  <2>2. \A u \in Syncs : ~Running(u)
    BY <1>6, <1>8, <1>10, <2>1
  <2>3. \A u \in Syncs : u # s => sync'[u] = sync[u]
    BY <1>8, <2>2 DEF Disturb
  <2>4. RunsAlone(t)'
    BY <2>1, <2>2, <2>3 DEF RunsAlone, Running
  <2>5. sync'[t].stage = "fetching" /\ sync'[t].range = range /\ sync'[t].todo = Within(range)
    BY <1>6, <1>7, <1>8, <2>1
  <2> QED
    BY <2>4, <2>5 DEF Undisturbed, Fetched
<1> QED
  BY <1>2, <1>8, <1>9, <1>10 DEF CostInv

(* A bucket that is fetched has a row, and is fetched no more.               *)
LEMMA FetchBucketStep ==
    ASSUME CostInv, NEW s \in Syncs, NEW b \in Buckets, FetchBucket(s, b)
    PROVE  CostInv'
<1> DEFINE row == [status |-> IF bucket[b] = NoRow THEN "open" ELSE bucket[b].status,
                   amount |-> billed[b]]
           q == [sync[s] EXCEPT !.todo = @ \ {b}]
<1>1. /\ sync[s].stage = "fetching" /\ b \in sync[s].todo /\ bucket' = [bucket EXCEPT ![b] = row]
      /\ sync' = [sync EXCEPT ![s] = q] /\ UNCHANGED <<billed, usage, period, allocations>>
  BY DEF FetchBucket, SyncAt
<1>2. CostTables /\ sync = [t \in Syncs |-> sync[t]]
  BY DEF CostInv
<1>3. CostTables' /\ There \subseteq There' /\ b \in There'
  <2>1. row.status # "none" /\ row.amount \in Int /\ row # NoRow
    BY <1>2 DEF CostTables, NoRow
  <2>2. row = [status |-> row.status, amount |-> row.amount]
    OBVIOUS
  <2> HIDE DEF row
  <2>3. bucket' = [c \in Buckets |-> bucket'[c]] /\ bucket'[b] = row
        /\ \A c \in Buckets : c # b => bucket'[c] = bucket[c]
    BY <1>1, <1>2 DEF CostTables
  <2>4. There \subseteq There' /\ b \in There'
    BY <2>1, <2>3 DEF There
  <2> QED
    BY <1>1, <1>2, <2>1, <2>2, <2>3, <2>4 DEF CostTables
<1>4. IsFetching(sync[s]) /\ HasMonths(sync[s]) /\ sync[s].calm \in BOOLEAN
  <2>1. IsSync(sync[s], There)
    BY DEF CostInv
  <2> QED
    BY <1>1, <2>1 DEF IsSync, IsWorking, Waiting
<1>5. q = [stage |-> "fetching", range |-> sync[s].range, todo |-> sync[s].todo \ {b},
           open |-> sync[s].open, calm |-> sync[s].calm]
  <2>1. ASSUME NEW p, IsFetching(p), NEW z
        PROVE  [p EXCEPT !.todo = z] = [stage |-> "fetching", range |-> p.range, todo |-> z,
                                        open |-> p.open, calm |-> p.calm]
    <3>1. PICK c, d, e, f : p = [stage |-> "fetching", range |-> c, todo |-> d, open |-> e, calm |-> f]
      BY <2>1 DEF IsFetching
    <3> QED
      BY <3>1
  <2> QED
    BY <1>4, <2>1
<1> HIDE DEF q
<1>6. IsSync(q, There')
  <2>1. IsFetching(q) /\ HasMonths(q) /\ q.calm \in BOOLEAN
    BY <1>4, <1>5 DEF IsFetching, HasMonths
  <2> QED
    BY <2>1 DEF IsSync
<1>7. ASSUME Undisturbed(sync[s]) PROVE Undisturbed(sync[s])'
  <2>1. sync'[s] = q
    BY <1>1, <1>2
  <2>2. Fetched(sync[s])
    BY <1>1, <1>7 DEF Undisturbed
  <2>3. \A c \in Within(q.range) : c \in q.todo \/ bucket'[c] # NoRow
    <3>1. q.range = sync[s].range /\ q.todo = sync[s].todo \ {b}
      BY <1>5
    <3>2. \A c \in Within(q.range) : c \in sync[s].todo \/ c \in There
      BY <2>2, <3>1 DEF Fetched, There, Within
    <3> QED
      BY <1>3, <3>1, <3>2 DEF There
  <2>4. q.stage = "fetching"
    BY <1>5
  <2> QED
    BY <2>1, <2>3, <2>4 DEF Undisturbed, Fetched
<1>8. Running(s) /\ q.calm = sync[s].calm
  BY <1>1, <1>5 DEF Running
<1> QED
  BY <1>1, <1>3, <1>6, <1>7, <1>8, OneGoesOn

(* A sync may end or break anywhere: no other relies on it.                  *)
LEMMA EndSyncStep ==
    ASSUME CostInv, NEW s \in Syncs, EndSync(s)
    PROVE  CostInv'
<1> DEFINE q == [stage |-> "over"]
<1>1. Running(s) /\ sync' = [sync EXCEPT ![s] = q] /\ UNCHANGED <<billed, usage, period, bucket, allocations>>
  BY DEF EndSync
<1>2. CostTables' /\ There' = There
  BY <1>1, OthersKeepTables DEF CostInv, CostTables
<1>3. IsSync(q, There') /\ ~AtWork(q)
  BY DEF IsSync, AtWork
<1> HIDE DEF q
<1> QED
  BY <1>1, <1>2, <1>3, OneGoesOn

(* Once all is fetched the rows of the span are all there is to reconcile.   *)
LEMMA ReadBucketsStep ==
    ASSUME CostInv, NEW s \in Syncs, ReadBuckets(s)
    PROVE  CostInv'
<1> DEFINE range == sync[s].range
           there == {b \in Buckets : DayOf(b) \in range /\ bucket[b] # NoRow}
           found == {[id |-> b, amount |-> bucket[b].amount] : b \in there}
           days == {DayOf(b) : b \in there}
           q == [stage |-> "reconciling", range |-> range, open |-> sync[s].open,
                 calm |-> sync[s].calm, found |-> found, days |-> days, rows |-> <<>>,
                 buckets |-> {}, entry |-> {}]
<1>1. /\ sync[s].stage = "fetching" /\ sync[s].todo = {} /\ sync' = [sync EXCEPT ![s] = q]
      /\ UNCHANGED <<billed, usage, period, bucket, allocations>>
  BY DEF ReadBuckets, SyncAt
<1>2. CostTables' /\ There' = There
  BY <1>1, OthersKeepTables DEF CostInv, CostTables
<1>3. HasMonths(sync[s]) /\ sync[s].calm \in BOOLEAN
  <2>1. IsSync(sync[s], There)
    BY DEF CostInv
  <2> QED
    BY <1>1, <2>1 DEF IsSync, Waiting
<1>4. there = Within(range) \cap There
  BY DEF Within, There
<1>5. /\ q = [stage |-> q.stage, range |-> q.range, open |-> q.open, calm |-> q.calm,
              found |-> q.found, days |-> q.days, rows |-> q.rows, buckets |-> q.buckets,
              entry |-> q.entry]
      /\ q.stage = "reconciling" /\ q.range = range /\ q.open = sync[s].open
      /\ q.calm = sync[s].calm /\ q.found = {Row(b) : b \in there} /\ q.days = days /\ q.buckets = {}
  BY DEF Row
<1>6. sync'[s] = q
  BY <1>1 DEF CostInv
<1> HIDE DEF q, there
<1>7. IsSync(q, There')
  <2>1. \A f \in q.found : /\ f = [id |-> f.id, amount |-> f.amount]
                            /\ f.id \in Within(q.range) /\ f.id \in There'
    BY <1>2, <1>4, <1>5 DEF Row
  <2>2. IsWorking(q, There')
    BY <1>5, <2>1 DEF IsWorking
  <2>3. HasMonths(q) /\ q.calm \in BOOLEAN
    BY <1>3, <1>5 DEF HasMonths
  <2> QED
    BY <2>2, <2>3 DEF IsSync
<1>8. ASSUME Undisturbed(sync[s]) PROVE Undisturbed(sync[s])'
  <2>1. Fetched(sync[s])
    BY <1>1, <1>8 DEF Undisturbed
  <2>2. there = Within(range) /\ \A b \in Within(range) : bucket[b] # NoRow
    BY <1>1, <1>4, <2>1 DEF Fetched, There, Within
  <2>3. sync'[s].found = {Row(b)' : b \in Within(range)} /\ \A b \in Within(range) : bucket'[b] # NoRow
    BY <1>1, <1>5, <1>6, <2>2 DEF Row
  <2>4. \A b \in Within(range) : DayOf(b) \in sync'[s].days
    BY <1>5, <1>6, <2>2
  <2>5. Settled(sync[s])'
    BY <1>5, <1>6, <2>3, <2>4 DEF Settled
  <2> QED
    BY <1>5, <1>6, <2>5 DEF Undisturbed
<1>9. Running(s)
  BY <1>1 DEF Running
<1> QED
  BY <1>1, <1>2, <1>5, <1>7, <1>8, <1>9, OneGoesOn

-----------------------------------------------------------------------------
(* Each day is reconciled *)

(* What a sync at work becomes by a step.                                    *)
Work(stage, p, days, rows, buckets, entry) ==
    [stage |-> stage, range |-> p.range, open |-> p.open, calm |-> p.calm, found |-> p.found,
     days |-> days, rows |-> rows, buckets |-> buckets, entry |-> entry]

(* What is known of a sync at work.                                          *)
LEMMA AtWorkFacts ==
    ASSUME CostInv, NEW s \in Syncs, sync[s].stage \in {"reconciling", "allocating"}
    PROVE  /\ CostTables /\ Running(s) /\ IsWorking(sync[s], There) /\ HasMonths(sync[s])
           /\ sync[s].calm \in BOOLEAN
<1>1. IsSync(sync[s], There)
  BY DEF CostInv
<1> QED
  BY <1>1 DEF IsSync, IsFetching, Waiting, Running, CostInv

(* A sync at work, field by field.                                           *)
LEMMA WorkFields ==
    ASSUME NEW p, NEW there, IsWorking(p, there)
    PROVE  \E st, ra, op, ca, fo, da, ro, bu, en :
               p = [stage |-> st, range |-> ra, open |-> op, calm |-> ca, found |-> fo,
                    days |-> da, rows |-> ro, buckets |-> bu, entry |-> en]
BY DEF IsWorking

(* And it stays one.                                                         *)
LEMMA WorkIsSync ==
    ASSUME NEW p, NEW there, IsWorking(p, there), HasMonths(p), p.calm \in BOOLEAN,
           NEW stage \in {"reconciling", "allocating"}, NEW days, NEW rows, NEW entry,
           NEW buckets \in SUBSET p.found,
           stage = "allocating" => IsEntry(entry, p.found)
    PROVE  IsSync(Work(stage, p, days, rows, buckets, entry), there)
<1> DEFINE q == Work(stage, p, days, rows, buckets, entry)
<1>1. /\ q = [stage |-> q.stage, range |-> q.range, open |-> q.open, calm |-> q.calm, found |-> q.found,
              days |-> q.days, rows |-> q.rows, buckets |-> q.buckets, entry |-> q.entry]
      /\ q.stage = stage /\ q.range = p.range /\ q.open = p.open /\ q.calm = p.calm
      /\ q.found = p.found /\ q.buckets = buckets /\ q.entry = entry
  BY DEF Work
<1> HIDE DEF q
<1>2. IsWorking(q, there)
  BY <1>1 DEF IsWorking
<1>3. HasMonths(q) /\ q.calm \in BOOLEAN
  BY <1>1 DEF HasMonths
<1>4. IsSync(q, there)
  BY <1>2, <1>3 DEF IsSync
<1> QED
  BY <1>4 DEF q

(* A step of a sync at work.                                                 *)
LEMMA WorkGoesOn ==
    ASSUME CostInv, CostTables', NEW s \in Syncs, sync[s].stage \in {"reconciling", "allocating"},
           NEW stage \in {"reconciling", "allocating"}, NEW days, NEW rows, NEW entry,
           NEW buckets \in SUBSET sync[s].found,
           stage = "allocating" => IsEntry(entry, sync[s].found),
           sync' = [sync EXCEPT ![s] = Work(stage, sync[s], days, rows, buckets, entry)],
           There' = There, (sync[s].calm /\ Settled(sync[s])) => Settled(sync[s])'
    PROVE  CostInv'
<1> DEFINE p == sync[s]
           q == Work(stage, p, days, rows, buckets, entry)
<1>1. Running(s) /\ IsWorking(p, There) /\ HasMonths(p) /\ p.calm \in BOOLEAN
  BY AtWorkFacts
<1>2. q.stage = stage /\ q.calm = p.calm
  BY DEF Work
<1>3. sync'[s] = q /\ sync' = [sync EXCEPT ![s] = q]
  BY DEF CostInv
<1> HIDE DEF p
<1>4. IsSync(q, There')
  BY <1>1, WorkIsSync DEF p
<1> HIDE DEF q
<1>5. sync'[s].stage \in {"reconciling", "allocating"} /\ q.calm = sync[s].calm
  BY <1>2, <1>3 DEF p
<1>6. (AtWork(q) /\ q.calm /\ Undisturbed(sync[s])) => Undisturbed(sync[s])'
  BY <1>5 DEF Undisturbed, AtWork
<1> QED
  BY <1>1, <1>3, <1>4, <1>5, <1>6, OneGoesOn

(* The buckets of a day are taken up with its estimates, or all call for     *)
(* attention.                                                                *)
LEMMA ReadEstimatesStep ==
    ASSUME CostInv, NEW s \in Syncs, NEW d \in Days, NEW rows \in SetToSeqs(usage[d]),
           ReadEstimates(s, d, rows)
    PROVE  CostInv'
<1> DEFINE p == sync[s]
           found == {f \in p.found : DayOf(f.id) = d}
           none == TotalOf(ToSet(rows)) = 0
           buckets == IF none THEN {} ELSE found
           hits == {b \in Buckets : none /\ \E f \in found : f.id = b}
<1>1. /\ p.stage = "reconciling" /\ p.buckets = {} /\ d \in p.days /\ ToSet(rows) = usage[d]
      /\ bucket' = [b \in Buckets |->
             IF b \in hits THEN [bucket[b] EXCEPT !.status = "needs_attention"] ELSE bucket[b]]
      /\ sync' = [sync EXCEPT ![s].days = @ \ {d}, ![s].rows = rows, ![s].buckets = buckets]
      /\ UNCHANGED <<billed, usage, period, allocations>>
  BY DEF ReadEstimates, SyncAt
<1>2. CostTables /\ IsWorking(p, There) /\ p.calm \in BOOLEAN
  BY <1>1, AtWorkFacts
<1>3. Len(rows) \in Nat /\ DOMAIN rows = 1..Len(rows) /\ (~none => Len(rows) # 0)
  <2>1. IsFiniteSet(usage[d])
    BY <1>2 DEF CostTables
  <2>2. Cardinality(usage[d]) \in Nat
    BY <2>1, FS_CardinalityType
  <2>3. rows \in [1..Cardinality(usage[d]) -> usage[d]]
    BY DEF SetToSeqs
  <2>4. rows \in Seq(usage[d])
    BY <2>2, <2>3, SeqDef
  <2>5. Len(rows) \in Nat /\ DOMAIN rows = 1..Len(rows)
    BY <2>4, LenProperties
  <2>6. Len(rows) = 0 => ToSet(rows) = {}
    BY <2>5 DEF ToSet
  <2> QED
    BY <2>5, <2>6, TotalFacts
<1>4. sync' = [sync EXCEPT ![s] = Work("reconciling", p, p.days \ {d}, rows, buckets, p.entry)]
  <2> HIDE DEF buckets, p
  <2>1. PICK x : x = [p EXCEPT !.days = p.days \ {d}]
    OBVIOUS
  <2>2. PICK y : y = [x EXCEPT !.rows = rows]
    OBVIOUS
  <2>3. PICK st, ra, op, ca, fo, da, ro, bu, en :
            p = [stage |-> st, range |-> ra, open |-> op, calm |-> ca, found |-> fo,
                 days |-> da, rows |-> ro, buckets |-> bu, entry |-> en]
    BY <1>2, WorkFields
  <2>4. x = [stage |-> st, range |-> ra, open |-> op, calm |-> ca, found |-> fo,
             days |-> p.days \ {d}, rows |-> ro, buckets |-> bu, entry |-> en]
    BY <2>1, <2>3
  <2>5. y = [stage |-> st, range |-> ra, open |-> op, calm |-> ca, found |-> fo,
             days |-> p.days \ {d}, rows |-> rows, buckets |-> bu, entry |-> en]
    BY <2>2, <2>4
  <2>6. [y EXCEPT !.buckets = buckets] = Work(p.stage, p, p.days \ {d}, rows, buckets, p.entry)
    BY <2>3, <2>5 DEF Work
  <2> QED
    BY <1>1, <2>1, <2>2, <2>6 DEF p
<1>5. \A b \in Buckets :
         /\ b \in hits =>
                /\ bucket[b] # NoRow /\ bucket'[b] # NoRow
                /\ bucket'[b] = [status |-> bucket'[b].status, amount |-> bucket'[b].amount]
                /\ bucket'[b].status = "needs_attention" /\ bucket'[b].amount = bucket[b].amount
         /\ b \notin hits => bucket'[b] = bucket[b]
  <2> SUFFICES ASSUME NEW b \in Buckets, b \in hits
               PROVE  /\ bucket[b] # NoRow /\ bucket'[b] # NoRow
                      /\ bucket'[b] = [status |-> bucket'[b].status, amount |-> bucket'[b].amount]
                      /\ bucket'[b].status = "needs_attention" /\ bucket'[b].amount = bucket[b].amount
    BY <1>1
  <2>1. b \in There
    BY <1>2 DEF IsWorking
  <2>2. PICK x, y : bucket[b] # NoRow /\ bucket[b] = [status |-> x, amount |-> y]
    BY <1>2, <2>1 DEF There, CostTables
  <2>3. bucket'[b] = [bucket[b] EXCEPT !.status = "needs_attention"]
    BY <1>1
  <2>4. bucket'[b] = [status |-> "needs_attention", amount |-> y]
    BY <2>2, <2>3
  <2> QED
    BY <2>2, <2>4 DEF NoRow
<1> HIDE DEF hits
<1>6. CostTables' /\ There' = There
  <2>1. bucket' = [b \in Buckets |-> bucket'[b]]
    BY <1>1
  <2>2. \A b \in Buckets : bucket'[b] # NoRow <=> bucket[b] # NoRow
    BY <1>5
  <2>3. \A b \in Buckets : bucket'[b] # NoRow =>
            bucket'[b] = [status |-> bucket'[b].status, amount |-> bucket'[b].amount]
            /\ bucket'[b].status # "none" /\ bucket'[b].amount \in Int
    BY <1>2, <1>5, <2>2 DEF CostTables
  <2>4. There' = There
    BY <2>2 DEF There
  <2> QED
    BY <1>1, <1>2, <2>1, <2>3, <2>4 DEF CostTables
<1>7. \A b \in There : bucket'[b].amount = bucket[b].amount
  BY <1>5 DEF There
<1> HIDE DEF found, none
<1>8. /\ sync'[s].stage = "reconciling" /\ sync'[s].range = p.range /\ sync'[s].found = p.found
      /\ sync'[s].days = p.days \ {d} /\ sync'[s].rows = rows /\ sync'[s].buckets = buckets
  <2> HIDE DEF buckets
  <2>1. sync'[s] = Work("reconciling", p, p.days \ {d}, rows, buckets, p.entry)
    BY <1>4 DEF CostInv
  <2> QED
    BY <2>1 DEF Work
<1>9. ASSUME Settled(p) PROVE Settled(sync[s])'
  <2>1. Within(p.range) \subseteq There /\ p.found = {Row(b) : b \in Within(p.range)}
    BY <1>9 DEF Settled, There, Within
  <2>2. p.found = {Row(b)' : b \in Within(p.range)}
    <3>1. \A b \in Within(p.range) : Row(b)' = Row(b)
      BY <1>7, <2>1 DEF Row
    <3> QED
      BY <2>1, <3>1
  <2>3. \A b \in Within(p.range) : bucket'[b] # NoRow
    BY <1>6, <2>1 DEF There
  <2>4. \A f \in buckets : AtHand(sync[s], f)'
    BY <1>1, <1>3, <1>8 DEF AtHand, found, none
  <2>5. ASSUME NEW b \in Within(p.range)
        PROVE  DayOf(b) \in p.days \ {d} \/ Row(b)' \in buckets \/ InOrder(b)'
    <3>1. DayOf(b) \in p.days \/ InOrder(b)
      BY <1>1, <1>9 DEF Settled
    <3>2. CASE DayOf(b) = d
      <4>1. Row(b) \in found /\ Row(b)' = Row(b) /\ Row(b).id = b
        BY <1>7, <2>1, <3>2 DEF found, Row
      <4>2. CASE none
        <5>1. bucket'[b].status = "needs_attention"
          <6>1. b \in hits /\ b \in Buckets
            BY <4>1, <4>2 DEF hits, Within
          <6> QED
            BY <1>5, <6>1
        <5>2. TotalOf(usage'[DayOf(b)]) = 0
          BY <1>1, <3>2, <4>2 DEF none
        <5> QED
          BY <5>1, <5>2 DEF InOrder
      <4>3. CASE ~none
        BY <4>1, <4>3
      <4> QED
        BY <4>2, <4>3
    <3>3. CASE DayOf(b) # d
      <4>1. bucket'[b] = bucket[b]
        <5>1. b \notin hits /\ b \in Buckets
          BY <3>3 DEF found, hits, Within
        <5> QED
          BY <1>5, <5>1
      <4>2. InOrder(b) => InOrder(b)'
        BY <1>1, <4>1 DEF InOrder, AllocationRows, NewestAllocation
      <4> QED
        BY <3>1, <3>3, <4>2
    <3> QED
      BY <3>2, <3>3
  <2> QED
    BY <1>8, <2>2, <2>3, <2>4, <2>5 DEF Settled
<1>10. buckets \in SUBSET p.found
  BY DEF found
<1>11. p.stage = "reconciling"
  BY <1>1
<1> HIDE DEF buckets
<1> QED
  BY <1>11, <1>4, <1>6, <1>9, <1>10, WorkGoesOn

(* A bucket whose newest version says the same is in order as it is; another *)
(* gets a version above every one there is.                                  *)
LEMMA CompareBucketStep ==
    ASSUME CostInv, NEW s \in Syncs, sync[s].stage = "reconciling", NEW f \in sync[s].buckets,
           CompareBucket(s, f)
    PROVE  CostInv'
<1> DEFINE p == sync[s]
           v == NewestAllocation(f.id)
           prior == AllocationRows(f.id, v)
           same == v > 0 /\ SameAllocation(f, p.rows, prior)
           stage == IF same THEN "reconciling" ELSE "allocating"
           entry == [of |-> f, version |-> v + 1, next |-> 1, given |-> 0]
<1>1. /\ sync' = [sync EXCEPT ![s].buckets = @ \ {f}, ![s].stage = stage, ![s].entry = entry]
      /\ UNCHANGED <<billed, usage, period, bucket, allocations>>
  BY DEF CompareBucket, SyncAt
<1>10. UNCHANGED <<billed, usage, period, bucket, allocations>>
  BY <1>1
<1>2. CostTables /\ IsWorking(p, There) /\ p.calm \in BOOLEAN
  BY AtWorkFacts
<1>3. CostTables' /\ There' = There
  BY <1>10, <1>2, OthersKeepTables DEF CostTables
<1>4. v \in Nat /\ f \in p.found /\ \A a \in allocations : a.bucket = f.id => a.version <= v
  BY <1>2, NewestIsAbove DEF IsWorking
<1>5. sync' = [sync EXCEPT ![s] = Work(stage, p, p.days, p.rows, p.buckets \ {f}, entry)]
  <2> HIDE DEF stage, entry, p
  <2>1. PICK x : x = [p EXCEPT !.buckets = p.buckets \ {f}]
    OBVIOUS
  <2>2. PICK y : y = [x EXCEPT !.stage = stage]
    OBVIOUS
  <2>3. PICK st, ra, op, ca, fo, da, ro, bu, en :
            p = [stage |-> st, range |-> ra, open |-> op, calm |-> ca, found |-> fo,
                 days |-> da, rows |-> ro, buckets |-> bu, entry |-> en]
    BY <1>2, WorkFields
  <2>4. x = [stage |-> st, range |-> ra, open |-> op, calm |-> ca, found |-> fo,
             days |-> da, rows |-> ro, buckets |-> p.buckets \ {f}, entry |-> en]
    BY <2>1, <2>3
  <2>5. y = [stage |-> stage, range |-> ra, open |-> op, calm |-> ca, found |-> fo,
             days |-> da, rows |-> ro, buckets |-> p.buckets \ {f}, entry |-> en]
    BY <2>2, <2>4
  <2>6. [y EXCEPT !.entry = entry] = Work(stage, p, p.days, p.rows, p.buckets \ {f}, entry)
    BY <2>3, <2>5 DEF Work
  <2> QED
    BY <1>1, <2>1, <2>2, <2>6 DEF p
<1> HIDE DEF same
<1>6. /\ sync'[s].stage = stage /\ sync'[s].range = p.range /\ sync'[s].found = p.found
      /\ sync'[s].days = p.days /\ sync'[s].rows = p.rows /\ sync'[s].buckets = p.buckets \ {f}
      /\ sync'[s].entry = entry
  <2> HIDE DEF stage, entry
  <2>1. sync'[s] = Work(stage, p, p.days, p.rows, p.buckets \ {f}, entry)
    BY <1>5 DEF CostInv
  <2> QED
    BY <2>1 DEF Work
<1>7. ASSUME Settled(p) PROVE Settled(sync[s])'
  <2>1. PICK b \in Within(p.range) : f = Row(b)
    BY <1>4, <1>7 DEF Settled
  <2>2. f.id = b /\ f.amount = bucket[b].amount /\ b \in Buckets
    BY <2>1 DEF Row, Within
  <2>3. AtHand(p, f)
    BY <1>7 DEF Settled
  <2>4. \A g : AtHand(p, g) => AtHand(sync[s], g)'
    BY <1>10, <1>6 DEF AtHand
  <2>5. \A c : InOrder(c) => InOrder(c)'
    BY <1>10 DEF InOrder, AllocationRows, NewestAllocation
  <2>6. ASSUME same PROVE InOrder(b)
    <3>1. TotalOf(usage[DayOf(b)]) # 0
      BY <2>2, <2>3 DEF AtHand
    <3>2. TotalOf(prior) = f.amount
          /\ {[job |-> a.job, amount |-> a.estimate] : a \in prior} = ToSet(p.rows)
      BY <2>6 DEF same, SameAllocation
    <3>3. ToSet(p.rows) = usage[DayOf(b)]
      BY <2>2, <2>3 DEF AtHand
    <3> QED
      BY <2>2, <3>1, <3>2, <3>3 DEF InOrder
  <2>7. ASSUME ~same PROVE AtHand(sync[s], f)' /\ HalfAllocated(sync[s])'
    <3>1. AllocationRows(f.id, v + 1) = {}
      BY <1>2, <1>4 DEF AllocationRows, CostTables
    <3>2. /\ sync'[s].entry.of = f /\ sync'[s].entry.version = v + 1
          /\ sync'[s].entry.next = 1 /\ sync'[s].entry.given = 0
      BY <1>6
    <3>3. {a \in allocations' : a.bucket = f.id /\ a.version = v + 1} = {}
      BY <1>10, <3>1 DEF AllocationRows
    <3>4. Len(p.rows) \in Nat \ {0}
      BY <2>3 DEF AtHand
    <3>5. \A a \in allocations : a.bucket = f.id => a.version <= v + 1
      BY <1>2, <1>4 DEF CostTables
    <3>6. {sync'[s].rows[i] : i \in 1..(sync'[s].entry.next - 1)} = {}
      BY <3>2
    <3>7. HalfAllocated(sync[s])'
      <4> HIDE DEF v
      <4>2. AllocationRows(sync[s].entry.of.id, sync[s].entry.version)' = {}
        BY <3>2, <3>3 DEF AllocationRows
      <4>3. allocations' = allocations /\ sync'[s].rows = p.rows
        BY <1>6, <1>10
      <4>4. \A a \in allocations' : a.bucket = sync'[s].entry.of.id => a.version <= sync'[s].entry.version
        BY <3>2, <3>5, <4>3
      <4>5. sync'[s].entry.next \in 1..(Len(sync'[s].rows) + 1) /\ sync'[s].entry.next # Len(sync'[s].rows) + 1
        BY <3>2, <3>4, <4>3
      <4> QED
        BY <3>2, <3>6, <4>2, <4>4, <4>5, TotalFacts DEF HalfAllocated
    <3> QED
      BY <2>3, <2>4, <3>7
  <2>8. \A g \in p.buckets : AtHand(sync[s], g)'
    BY <1>7, <2>4 DEF Settled
  <2>9. sync'[s].found = {Row(c)' : c \in Within(p.range)}
        /\ \A c \in Within(p.range) : bucket'[c] # NoRow
    BY <1>10, <1>6, <1>7 DEF Settled, Row
  <2>10. ASSUME NEW c \in Within(p.range)
         PROVE  \/ DayOf(c) \in p.days \/ Row(c)' \in p.buckets \ {f} \/ InOrder(c)'
                \/ stage = "allocating" /\ entry.of.id = c
    <3>1. DayOf(c) \in p.days \/ Row(c) \in p.buckets \/ InOrder(c)
      BY <1>7 DEF Settled
    <3>2. Row(c)' = Row(c)
      BY <1>10 DEF Row
    <3>3. Row(c) = f => c = b
      BY <2>1 DEF Row
    <3> QED
      BY <2>2, <2>5, <2>6, <3>1, <3>2, <3>3
  <2>11. stage = "allocating" => ~same
    OBVIOUS
  <2> HIDE DEF stage, entry
  <2>12. sync'[s].stage = "allocating" =>
            AtHand(sync[s], sync[s].entry.of)' /\ HalfAllocated(sync[s])'
    <3>1. sync'[s].entry.of = f
      BY <1>6 DEF entry
    <3> QED
      BY <1>6, <2>7, <2>11, <3>1
  <2> QED
    BY <1>6, <2>8, <2>9, <2>10, <2>12 DEF Settled
<1>8. IsEntry(entry, p.found)
  BY <1>4 DEF IsEntry
<1>9. stage \in {"reconciling", "allocating"} /\ p.buckets \ {f} \in SUBSET p.found
  BY <1>2 DEF IsWorking
<1> HIDE DEF stage, entry, p
<1>11. PICK buckets \in SUBSET p.found : buckets = p.buckets \ {f}
  BY <1>9
<1>12. sync' = [sync EXCEPT ![s] = Work(stage, p, p.days, p.rows, buckets, entry)]
  BY <1>5, <1>11
<1>13. p.calm /\ Settled(p) => Settled(sync[s])'
  BY <1>7
<1> QED
  BY <1>3, <1>8, <1>9, <1>12, <1>13, WorkGoesOn DEF p

(* Another row of one bucket leaves the others as they are.                  *)
LEMMA OthersStayInOrder ==
    ASSUME NEW b, NEW new, new.bucket = b, allocations' = allocations \cup {new},
           UNCHANGED <<usage, bucket>>, NEW c, c # b, InOrder(c)
    PROVE  InOrder(c)'
<1>1. \A v : AllocationRows(c, v)' = AllocationRows(c, v)
  BY DEF AllocationRows
<1>2. {x \in allocations' : x.bucket = c} = {x \in allocations : x.bucket = c}
  OBVIOUS
<1>3. NewestAllocation(c)' = NewestAllocation(c)
  BY <1>2 DEF NewestAllocation
<1>4. AllocationRows(c, NewestAllocation(c))' = AllocationRows(c, NewestAllocation(c))
  BY <1>3 DEF AllocationRows
<1> QED
  BY <1>4 DEF InOrder

(* A row adds its share to the version, and the last the rest of the bill.   *)
LEMMA AllocationAdds ==
    ASSUME CostTables, NEW p, IsWorking(p, There), Settled(p), p.stage = "allocating",
           p.entry.next <= Len(p.rows),
           NEW new, new.bucket = p.entry.of.id, new.version = p.entry.version,
           new.job = p.rows[p.entry.next].job, new.estimate = p.rows[p.entry.next].amount,
           new.amount = Share(p.entry.of, p.rows, p.entry.next, p.entry.given),
           \A a \in AllocationRows(p.entry.of.id, p.entry.version) : a.job # new.job
    PROVE  LET written == AllocationRows(p.entry.of.id, p.entry.version) \cup {new}
           IN  /\ p.entry.next + 1 \in 1..(Len(p.rows) + 1)
               /\ \A a \in written : a.amount \in Int
               /\ {[job |-> a.job, amount |-> a.estimate] : a \in written}
                      = {p.rows[i] : i \in 1..((p.entry.next + 1) - 1)}
               /\ TotalOf(written) = p.entry.given + new.amount
               /\ p.entry.next + 1 = Len(p.rows) + 1 => p.entry.given + new.amount = p.entry.of.amount
<1> DEFINE e == p.entry
           f == e.of
           n == e.next
           row == p.rows[n]
           old == AllocationRows(f.id, e.version)
<1>1. HalfAllocated(p) /\ AtHand(p, f)
  BY DEF Settled
<1>2. n \in 1..Len(p.rows) /\ Len(p.rows) \in Nat
  BY <1>1 DEF HalfAllocated, AtHand
<1>3. f \in p.found /\ f.id \in Buckets /\ f.amount \in Int
  <2>1. f \in p.found
    BY DEF IsWorking, IsEntry
  <2>2. PICK b \in Within(p.range) : f = Row(b)
    BY <2>1 DEF Settled
  <2>3. b \in Buckets /\ bucket[b] # NoRow /\ f.id = b /\ f.amount = bucket[b].amount
    BY <2>2 DEF Settled, Row, Within
  <2> QED
    BY <2>1, <2>3 DEF CostTables
<1>4. row = [job |-> row.job, amount |-> row.amount] /\ row.amount \in Nat
  <2>1. row \in ToSet(p.rows)
    BY <1>1, <1>2 DEF AtHand, ToSet
  <2>2. row \in usage[DayOf(f.id)] /\ DayOf(f.id) \in Days
    BY <1>1, <1>3, <2>1 DEF AtHand, Days
  <2> QED
    BY <2>2 DEF CostTables
<1>5. IsFiniteSet(old) /\ (\A a \in old : a.amount \in Int) /\ TotalOf(old) = e.given /\ e.given \in Int
  <2>1. IsFiniteSet(old)
    BY FS_Subset DEF AllocationRows, CostTables
  <2>2. (\A a \in old : a.amount \in Int) /\ TotalOf(old) = e.given
    BY <1>1 DEF HalfAllocated
  <2> QED
    BY <2>1, <2>2, TotalFacts
<1>6. new.amount \in Int /\ (n = Len(p.rows) => new.amount = f.amount - e.given)
  <2>1. CASE n = Len(p.rows)
    BY <1>3, <1>5, <2>1 DEF Share
  <2>2. CASE n # Len(p.rows)
    <3> DEFINE d == TotalOf(ToSet(p.rows))
    <3>1. d \in Nat /\ d > 0
      <4>1. ToSet(p.rows) = usage[DayOf(f.id)] /\ DayOf(f.id) \in Days /\ d # 0
        BY <1>1, <1>3 DEF AtHand, Days
      <4>2. IsFiniteSet(ToSet(p.rows)) /\ \A u \in ToSet(p.rows) : u.amount \in Nat
        BY <4>1 DEF CostTables
      <4>3. d \in Nat
        BY <4>2, TotalFacts
      <4> HIDE DEF d
      <4> QED
        BY <4>1, <4>3
    <3>2. f.amount * row.amount \in Int
      BY <1>3, <1>4
    <3>3. new.amount = Rounded(f.amount * row.amount, d)
      BY <2>2 DEF Share
    <3> HIDE DEF d
    <3>4. Rounded(f.amount * row.amount, d) \in Int
      BY <3>1, <3>2, RoundedFacts
    <3> QED
      BY <2>2, <3>3, <3>4
  <2> QED
    BY <2>1, <2>2
<1>7. TotalOf(old \cup {new}) = e.given + new.amount
  <2>1. new \notin old
    OBVIOUS
  <2> HIDE DEF old
  <2> QED
    BY <1>5, <1>6, <2>1, TotalAdds
<1>8. {[job |-> a.job, amount |-> a.estimate] : a \in old \cup {new}} = {p.rows[i] : i \in 1..n}
  <2>1. {[job |-> a.job, amount |-> a.estimate] : a \in old} = {p.rows[i] : i \in 1..(n - 1)}
    BY <1>1 DEF HalfAllocated
  <2>2. [job |-> new.job, amount |-> new.estimate] = row
    BY <1>4
  <2>3. 1..n = 1..(n - 1) \cup {n}
    BY <1>2
  <2>4. {p.rows[i] : i \in 1..n} = {p.rows[i] : i \in 1..(n - 1)} \cup {row}
    BY <2>3
  <2> HIDE DEF old, row
  <2>5. {[job |-> a.job, amount |-> a.estimate] : a \in old \cup {new}}
            = {[job |-> a.job, amount |-> a.estimate] : a \in old} \cup {row}
    BY <2>2
  <2> QED
    BY <2>1, <2>4, <2>5
<1>9. (n + 1) - 1 = n /\ n + 1 \in 1..(Len(p.rows) + 1) /\ (n + 1 = Len(p.rows) + 1 => n = Len(p.rows))
  BY <1>2
<1>10. n + 1 = Len(p.rows) + 1 => e.given + new.amount = f.amount
  <2> HIDE DEF n, e, f
  <2>1. f.amount \in Int
    BY <1>3
  <2> QED
    BY <1>5, <1>6, <1>9, <2>1
<1> QED
  BY <1>5, <1>6, <1>7, <1>8, <1>9, <1>10

(* A row is added to the version in hand: the newest, whoever has left what  *)
(* before it.                                                                *)
LEMMA InsertAllocationStep ==
    ASSUME CostInv, NEW s \in Syncs, InsertAllocation(s)
    PROVE  CostInv'
<1> DEFINE p == sync[s]
           e == p.entry
           row == p.rows[e.next]
           share == Share(e.of, p.rows, e.next, e.given)
           new == [bucket |-> e.of.id, version |-> e.version, job |-> row.job,
                   estimate |-> row.amount, amount |-> share]
           entry == [of |-> e.of, version |-> e.version, next |-> e.next + 1, given |-> e.given + share]
<1>1. /\ p.stage = "allocating" /\ e.next <= Len(p.rows)
      /\ \A a \in AllocationRows(e.of.id, e.version) : a.job # row.job
      /\ allocations' = allocations \cup {new}
      /\ UNCHANGED <<billed, usage, period, bucket>>
  BY DEF InsertAllocation, SyncAt
<1>2. sync' = [sync EXCEPT ![s].entry.next = @ + 1, ![s].entry.given = @ + share]
  BY DEF InsertAllocation
<1>3. CostTables /\ IsWorking(p, There) /\ p.calm \in BOOLEAN
  BY <1>1, AtWorkFacts
<1>4. IsEntry(e, p.found) /\ e.version \in Nat
  BY <1>1, <1>3 DEF IsWorking, IsEntry
<1>5. CostTables' /\ There' = There
  <2>1. IsFiniteSet(allocations \cup {new})
    BY <1>3, FS_AddElement DEF CostTables
  <2>2. new.version \in Nat
    BY <1>4
  <2> HIDE DEF new
  <2> QED
    BY <1>1, <1>3, <2>1, <2>2 DEF CostTables, There
<1>6. sync' = [sync EXCEPT ![s] = Work("allocating", p, p.days, p.rows, p.buckets, entry)]
  <2> HIDE DEF share, p
  <2>1. PICK x : x = [p EXCEPT !.entry = [p.entry EXCEPT !.next = p.entry.next + 1]]
    OBVIOUS
  <2>2. PICK st, ra, op, ca, fo, da, ro, bu, en :
            p = [stage |-> st, range |-> ra, open |-> op, calm |-> ca, found |-> fo,
                 days |-> da, rows |-> ro, buckets |-> bu, entry |-> en]
    BY <1>3, WorkFields
  <2>3. PICK of, version, next, given :
            p.entry = [of |-> of, version |-> version, next |-> next, given |-> given]
    BY <1>4 DEF IsEntry
  <2>4. [p.entry EXCEPT !.next = p.entry.next + 1]
            = [of |-> of, version |-> version, next |-> e.next + 1, given |-> given]
    BY <2>3
  <2>5. x = [stage |-> st, range |-> ra, open |-> op, calm |-> ca, found |-> fo,
             days |-> da, rows |-> ro, buckets |-> bu,
             entry |-> [of |-> of, version |-> version, next |-> e.next + 1, given |-> given]]
    BY <2>1, <2>2, <2>4
  <2>6. [x.entry EXCEPT !.given = p.entry.given + share] = entry
    BY <2>3, <2>5
  <2>7. [x EXCEPT !.entry = [x.entry EXCEPT !.given = p.entry.given + share]]
            = Work("allocating", p, p.days, p.rows, p.buckets, entry)
    <3> HIDE DEF entry
    <3> QED
      BY <1>1, <2>2, <2>5, <2>6 DEF Work
  <2> QED
    BY <1>2, <2>1, <2>7 DEF p
<1>7. /\ sync'[s].stage = "allocating" /\ sync'[s].range = p.range /\ sync'[s].found = p.found
      /\ sync'[s].days = p.days /\ sync'[s].rows = p.rows /\ sync'[s].buckets = p.buckets
      /\ sync'[s].entry = entry
  <2> HIDE DEF entry
  <2>1. sync'[s] = Work("allocating", p, p.days, p.rows, p.buckets, entry)
    BY <1>6 DEF CostInv
  <2> QED
    BY <2>1 DEF Work
<1>8. ASSUME Settled(p) PROVE Settled(sync[s])'
  <2> DEFINE old == AllocationRows(e.of.id, e.version)
             written == AllocationRows(sync[s].entry.of.id, sync[s].entry.version)'
  <2>1. /\ new.bucket = e.of.id /\ new.version = e.version /\ new.job = row.job
        /\ new.estimate = row.amount /\ new.amount = share
    OBVIOUS
  <2>2. /\ e.next + 1 \in 1..(Len(p.rows) + 1)
        /\ \A a \in old \cup {new} : a.amount \in Int
        /\ {[job |-> a.job, amount |-> a.estimate] : a \in old \cup {new}}
               = {p.rows[i] : i \in 1..((e.next + 1) - 1)}
        /\ TotalOf(old \cup {new}) = e.given + share
        /\ e.next + 1 = Len(p.rows) + 1 => e.given + share = e.of.amount
    <3>1. \A a \in AllocationRows(p.entry.of.id, p.entry.version) : a.job # new.job
      BY <1>1, <2>1
    <3>2. p.stage = "allocating" /\ p.entry.next <= Len(p.rows) /\ CostTables /\ IsWorking(p, There)
      BY <1>1, <1>3
    <3> HIDE DEF new, p, share
    <3>3. /\ new.bucket = p.entry.of.id /\ new.version = p.entry.version
          /\ new.job = p.rows[p.entry.next].job /\ new.estimate = p.rows[p.entry.next].amount
          /\ new.amount = Share(p.entry.of, p.rows, p.entry.next, p.entry.given)
      BY <2>1 DEF share
    <3>4. PICK r : r = new
      OBVIOUS
    <3>5. LET all == AllocationRows(p.entry.of.id, p.entry.version) \cup {r}
          IN  /\ p.entry.next + 1 \in 1..(Len(p.rows) + 1)
              /\ \A a \in all : a.amount \in Int
              /\ {[job |-> a.job, amount |-> a.estimate] : a \in all}
                     = {p.rows[i] : i \in 1..((p.entry.next + 1) - 1)}
              /\ TotalOf(all) = p.entry.given + r.amount
              /\ p.entry.next + 1 = Len(p.rows) + 1 => p.entry.given + r.amount = p.entry.of.amount
      BY <1>8, <3>1, <3>2, <3>3, <3>4, AllocationAdds
    <3> QED
      BY <2>1, <3>4, <3>5
  <2>3. /\ sync'[s].entry.of = e.of /\ sync'[s].entry.version = e.version
        /\ sync'[s].entry.next = e.next + 1 /\ sync'[s].entry.given = e.given + share
    BY <1>7
  <2> HIDE DEF new
  <2>4. written = old \cup {new}
    BY <1>1, <2>1, <2>3 DEF AllocationRows
  <2>5. \A a \in allocations' : a.bucket = e.of.id => a.version <= e.version
    <3>1. \A a \in allocations : a.bucket = e.of.id => a.version <= e.version
      BY <1>1, <1>8 DEF Settled, HalfAllocated
    <3> QED
      BY <1>1, <1>4, <2>1, <3>1
  <2> HIDE DEF share, entry
  <2>6. HalfAllocated(sync[s])'
    <3>1. sync'[s].rows = p.rows
      BY <1>7
    <3>2. PICK w : w = written
      OBVIOUS
    <3>3. \A a \in w : a.amount \in Int
      BY <2>2, <2>4, <3>2
    <3>4. {[job |-> a.job, amount |-> a.estimate] : a \in w}
              = {sync'[s].rows[i] : i \in 1..(sync'[s].entry.next - 1)}
      <4> DEFINE named(rows) == {[job |-> a.job, amount |-> a.estimate] : a \in rows}
                 upTo(n) == {p.rows[i] : i \in 1..n}
      <4>1. named(old \cup {new}) = upTo((e.next + 1) - 1)
        BY <2>2
      <4>2. w = old \cup {new} /\ sync'[s].entry.next - 1 = (e.next + 1) - 1
        <5>1. PICK n : n = e.next + 1
          OBVIOUS
        <5>2. sync'[s].entry.next = n
          BY <2>3, <5>1
        <5>3. sync'[s].entry.next - 1 = n - 1 /\ (e.next + 1) - 1 = n - 1
          <6> HIDE DEF e
          <6> QED
            BY <5>1, <5>2
        <5> HIDE DEF written, old
        <5> QED
          BY <2>4, <3>2, <5>3
      <4> HIDE DEF old, e, named, upTo
      <4>3. named(w) = upTo(sync'[s].entry.next - 1)
        BY <4>1, <4>2
      <4> QED
        BY <3>1, <4>3 DEF named, upTo
    <3>5. /\ sync'[s].entry.next \in 1..(Len(sync'[s].rows) + 1) /\ TotalOf(w) = sync'[s].entry.given
          /\ sync'[s].entry.next = Len(sync'[s].rows) + 1 => sync'[s].entry.given = sync'[s].entry.of.amount
      BY <2>2, <2>3, <2>4, <3>1, <3>2
    <3>6. \A a \in allocations' : a.bucket = sync'[s].entry.of.id => a.version <= sync'[s].entry.version
      BY <2>3, <2>5
    <3> QED
      BY <3>2, <3>3, <3>4, <3>5, <3>6 DEF HalfAllocated
  <2>7. \A g : AtHand(p, g) => AtHand(sync[s], g)'
    BY <1>1, <1>7 DEF AtHand
  <2>8. /\ AtHand(sync[s], sync[s].entry.of)' /\ \A g \in p.buckets : AtHand(sync[s], g)'
    BY <1>1, <1>8, <2>3, <2>7 DEF Settled
  <2>9. p.found = {Row(c)' : c \in Within(p.range)} /\ \A c \in Within(p.range) : bucket'[c] # NoRow
    BY <1>1, <1>8 DEF Settled, Row
  <2>10. ASSUME NEW c \in Within(p.range)
         PROVE  \/ DayOf(c) \in p.days \/ Row(c)' \in p.buckets
                \/ e.of.id = c \/ InOrder(c)'
    <3>1. DayOf(c) \in p.days \/ Row(c) \in p.buckets \/ e.of.id = c \/ InOrder(c)
      BY <1>1, <1>8 DEF Settled
    <3>2. Row(c)' = Row(c)
      BY <1>1 DEF Row
    <3>3. ASSUME e.of.id # c, InOrder(c) PROVE InOrder(c)'
      BY <1>1, <2>1, <3>3, OthersStayInOrder
    <3> QED
      BY <3>1, <3>2, <3>3
  <2> QED
    BY <1>7, <2>3, <2>6, <2>8, <2>9, <2>10 DEF Settled
<1>9. IsEntry(entry, p.found)
  BY <1>4 DEF IsEntry
<1>10. PICK buckets \in SUBSET p.found : buckets = p.buckets
  BY <1>3 DEF IsWorking
<1> HIDE DEF entry, p
<1>11. sync' = [sync EXCEPT ![s] = Work("allocating", p, p.days, p.rows, buckets, entry)]
  BY <1>6, <1>10
<1>12. p.stage = "allocating" /\ (p.calm /\ Settled(p) => Settled(sync[s])')
  BY <1>1, <1>8
<1> QED
  BY <1>5, <1>9, <1>11, <1>12, WorkGoesOn DEF p

(* A version that has a row for every estimate adds up to the bill.          *)
LEMMA MarkReconciledStep ==
    ASSUME CostInv, NEW s \in Syncs, MarkReconciled(s)
    PROVE  CostInv'
<1> DEFINE p == sync[s]
           e == p.entry
           f == e.of
           b == f.id
<1>1. /\ p.stage = "allocating" /\ e.next > Len(p.rows)
      /\ bucket' = [bucket EXCEPT ![b].status = "reconciled"]
      /\ sync' = [sync EXCEPT ![s].stage = "reconciling"]
      /\ UNCHANGED <<billed, usage, period, allocations>>
  BY DEF MarkReconciled, SyncAt
<1>2. CostTables /\ IsWorking(p, There) /\ p.calm \in BOOLEAN
  BY <1>1, AtWorkFacts
<1>3. e.version \in Nat /\ f \in p.found /\ b \in Buckets /\ b \in There /\ b \in Within(p.range)
  BY <1>1, <1>2 DEF IsWorking, IsEntry, There
<1>4. /\ bucket[b] # NoRow /\ bucket'[b] # NoRow
      /\ bucket'[b] = [status |-> bucket'[b].status, amount |-> bucket'[b].amount]
      /\ bucket'[b].status = "reconciled" /\ bucket'[b].amount = bucket[b].amount
      /\ \A c \in Buckets : c # b => bucket'[c] = bucket[c]
      /\ bucket' = [c \in Buckets |-> bucket'[c]]
  <2>1. PICK x, y : bucket[b] # NoRow /\ bucket[b] = [status |-> x, amount |-> y]
    BY <1>2, <1>3 DEF There, CostTables
  <2>2. bucket'[b] = [bucket[b] EXCEPT !.status = "reconciled"]
        /\ \A c \in Buckets : c # b => bucket'[c] = bucket[c]
    BY <1>1, <1>2, <1>3 DEF CostTables
  <2>3. bucket'[b] = [status |-> "reconciled", amount |-> y]
    BY <2>1, <2>2
  <2>4. bucket' = [c \in Buckets |-> bucket'[c]]
    BY <1>1, <1>2 DEF CostTables
  <2> QED
    BY <2>1, <2>2, <2>3, <2>4 DEF NoRow
<1>5. CostTables' /\ There' = There
  <2>1. \A c \in Buckets : bucket'[c] # NoRow =>
            bucket'[c] = [status |-> bucket'[c].status, amount |-> bucket'[c].amount]
            /\ bucket'[c].status # "none" /\ bucket'[c].amount \in Int
    <3> SUFFICES ASSUME NEW c \in Buckets, bucket'[c] # NoRow
                 PROVE  bucket'[c] = [status |-> bucket'[c].status, amount |-> bucket'[c].amount]
                        /\ bucket'[c].status # "none" /\ bucket'[c].amount \in Int
      OBVIOUS
    <3>1. CASE c = b
      BY <1>2, <1>3, <1>4, <3>1 DEF CostTables
    <3>2. CASE c # b
      BY <1>2, <1>4, <3>2 DEF CostTables
    <3> QED
      BY <3>1, <3>2
  <2>2. There' = There
    BY <1>3, <1>4 DEF There
  <2> QED
    BY <1>1, <1>2, <1>4, <2>1, <2>2 DEF CostTables
<1>6. sync' = [sync EXCEPT ![s] = Work("reconciling", p, p.days, p.rows, p.buckets, e)]
  <2>1. [p EXCEPT !.stage = "reconciling"] = Work("reconciling", p, p.days, p.rows, p.buckets, e)
    <3> HIDE DEF p
    <3>1. PICK st, ra, op, ca, fo, da, ro, bu, en :
            p = [stage |-> st, range |-> ra, open |-> op, calm |-> ca, found |-> fo,
                 days |-> da, rows |-> ro, buckets |-> bu, entry |-> en]
      BY <1>2, WorkFields
    <3> QED
      BY <3>1 DEF Work
  <2> QED
    BY <1>1, <2>1
<1>7. /\ sync'[s].stage = "reconciling" /\ sync'[s].range = p.range /\ sync'[s].found = p.found
      /\ sync'[s].days = p.days /\ sync'[s].rows = p.rows /\ sync'[s].buckets = p.buckets
  <2>1. sync'[s] = Work("reconciling", p, p.days, p.rows, p.buckets, e)
    BY <1>6 DEF CostInv
  <2> QED
    BY <2>1 DEF Work
<1>8. ASSUME Settled(p) PROVE Settled(sync[s])'
  <2>0. PICK k, v : k = b /\ v = e.version
    OBVIOUS
  <2> DEFINE written == AllocationRows(k, v)
  <2>1. AtHand(p, f) /\ HalfAllocated(p)
    BY <1>1, <1>8 DEF Settled
  <2>2. e.next = Len(p.rows) + 1 /\ Len(p.rows) \in Nat \ {0} /\ e.next - 1 = Len(p.rows)
    BY <1>1, <2>1 DEF HalfAllocated, AtHand
  <2>3. f.amount = bucket[b].amount
    <3>1. PICK c \in Within(p.range) : f = Row(c)
      BY <1>3, <1>8 DEF Settled
    <3> QED
      BY <3>1 DEF Row
  <2>4. TotalOf(written) = bucket[k].amount
    BY <2>0, <2>1, <2>2, <2>3 DEF HalfAllocated
  <2>5. {[job |-> a.job, amount |-> a.estimate] : a \in written} = usage[DayOf(k)]
    <3>1. {p.rows[i] : i \in 1..(e.next - 1)} = ToSet(p.rows)
      BY <2>1, <2>2 DEF AtHand, ToSet
    <3> QED
      BY <2>0, <2>1, <3>1 DEF HalfAllocated, AtHand
  <2>6. NewestAllocation(k) = v
    <3>1. usage[DayOf(k)] # {}
      <4>1. TotalOf(usage[DayOf(k)]) # 0
        BY <2>0, <2>1 DEF AtHand
      <4> QED
        BY <4>1, TotalFacts
    <3>2. written # {}
      BY <2>5, <3>1
    <3>3. \A a \in allocations : a.bucket = k => a.version <= v
      BY <2>0, <2>1 DEF HalfAllocated
    <3> QED
      BY <1>2, <1>3, <2>0, <3>2, <3>3, NewestIs
  <2>7. InOrder(k)'
    <3>1. NewestAllocation(k)' = v /\ AllocationRows(k, v)' = written
      BY <1>1, <2>6 DEF NewestAllocation, AllocationRows
    <3>2. TotalOf(usage'[DayOf(k)]) # 0
      BY <1>1, <2>0, <2>1 DEF AtHand
    <3>3. bucket'[k].amount = bucket[k].amount /\ usage' = usage
      BY <1>1, <1>4, <2>0
    <3> QED
      BY <2>4, <2>5, <3>1, <3>2, <3>3 DEF InOrder
  <2>8. \A c \in Within(p.range) : Row(c)' = Row(c) /\ bucket'[c] # NoRow
    BY <1>4, <1>8 DEF Settled, Row, Within
  <2>9. p.found = {Row(c)' : c \in Within(p.range)}
    BY <1>8, <2>8 DEF Settled
  <2>10. \A g \in p.buckets : AtHand(sync[s], g)'
    BY <1>1, <1>7, <1>8 DEF Settled, AtHand
  <2>11. ASSUME NEW c \in Within(p.range)
         PROVE  DayOf(c) \in p.days \/ Row(c)' \in p.buckets \/ InOrder(c)'
    <3>1. DayOf(c) \in p.days \/ Row(c) \in p.buckets \/ k = c \/ InOrder(c)
      BY <1>8, <2>0 DEF Settled
    <3>2. ASSUME c # k, InOrder(c) PROVE InOrder(c)'
      <4>1. bucket'[c] = bucket[c]
        BY <1>4, <2>0, <3>2 DEF Within
      <4> QED
        BY <1>1, <3>2, <4>1 DEF InOrder, AllocationRows, NewestAllocation
    <3> QED
      BY <2>7, <2>8, <3>1, <3>2
  <2> QED
    BY <1>7, <2>8, <2>9, <2>10, <2>11 DEF Settled
<1>9. PICK buckets \in SUBSET p.found : buckets = p.buckets
  BY <1>2 DEF IsWorking
<1>10. p.stage = "allocating" /\ (p.calm /\ Settled(p) => Settled(sync[s])')
  BY <1>1, <1>8
<1> HIDE DEF p
<1>11. sync' = [sync EXCEPT ![s] = Work("reconciling", p, p.days, p.rows, buckets, e)]
  BY <1>6, <1>9
<1> QED
  BY <1>5, <1>10, <1>11, WorkGoesOn DEF p

(* The invariant of the reconciliation.                                      *)
THEOREM CostInvariant == CostSpec => []CostInv
<1>1. CostInit => CostInv
  <2> SUFFICES ASSUME CostInit PROVE CostInv
    OBVIOUS
  <2>1. \A b \in Buckets : bucket[b] = NoRow /\ billed[b] \in Int
    BY CostAssumption DEF CostInit
  <2>2. \A d \in Days : usage[d] = {}
    BY DEF CostInit
  <2>3. CostTables
    BY <2>1, <2>2, FS_EmptySet DEF CostInit, CostTables
  <2>4. \A s \in Syncs : sync[s] = Waiting /\ ~Running(s)
    BY DEF CostInit, Running, Waiting
  <2>5. sync = [s \in Syncs |-> sync[s]]
    BY DEF CostInit
  <2> QED
    BY <2>3, <2>4, <2>5 DEF CostInv, IsSync
<1>2. CostInv /\ [CostNext]_costVars => CostInv'
  <2> SUFFICES ASSUME CostInv, [CostNext]_costVars PROVE CostInv'
    OBVIOUS
  <2>1. CASE UNCHANGED costVars
    BY <2>1, BillStep
  <2>2. ASSUME NEW s \in Syncs, NEW range \in Ranges, BeginSync(s, range) PROVE CostInv'
    BY <2>2, BeginSyncStep
  <2>3. ASSUME NEW s \in Syncs, NEW b \in Buckets, FetchBucket(s, b) PROVE CostInv'
    BY <2>3, FetchBucketStep
  <2>4. ASSUME NEW s \in Syncs, NEW d \in Days, NEW rows \in SetToSeqs(usage[d]), ReadEstimates(s, d, rows)
        PROVE  CostInv'
    BY <2>4, ReadEstimatesStep
  <2>5. ASSUME NEW s \in Syncs, SyncAt(s, "reconciling"), NEW f \in sync[s].buckets, CompareBucket(s, f)
        PROVE  CostInv'
    BY <2>5, CompareBucketStep DEF SyncAt
  <2>6. ASSUME NEW s \in Syncs, ReadBuckets(s) \/ InsertAllocation(s) \/ MarkReconciled(s) \/ EndSync(s)
        PROVE  CostInv'
    BY <2>6, ReadBucketsStep, InsertAllocationStep, MarkReconciledStep, EndSyncStep
  <2>7. ASSUME NEW m \in DOMAIN period, NEW closed \in BOOLEAN, ClosePeriod(m, closed) PROVE CostInv'
    BY <2>7, BillStep
  <2>8. ASSUME NEW d \in Days, NEW j \in UsageJobs, NEW n \in 0..1, PriceUsage(d, j, n) PROVE CostInv'
    BY <2>8, PriceUsageStep
  <2>9. ASSUME NEW b \in Buckets, NEW amount \in Amounts, Bill(b, amount) PROVE CostInv'
    BY <2>9, BillStep
  <2> QED
    BY <2>1, <2>2, <2>3, <2>4, <2>5, <2>6, <2>7, <2>8, <2>9 DEF CostNext
<1> QED
  BY <1>1, <1>2, PTL DEF CostSpec

(* A sync that is through has left nothing out of order.                     *)
LEMMA CalmIsBalanced == ASSUME CostInv PROVE CalmSyncBalances
<1> SUFFICES ASSUME NEW s \in Syncs, Reconciled(s), sync[s].calm,
                    NEW b \in Buckets, DayOf(b) \in sync[s].range
             PROVE  InOrder(b)
  <2>1. DOMAIN bucket = Buckets
    BY DEF CostInv, CostTables
  <2> QED
    BY <2>1 DEF CalmSyncBalances, InOrder
<1>1. sync[s].stage = "reconciling" /\ sync[s].days = {} /\ sync[s].buckets = {}
  BY DEF Reconciled, SyncAt
<1>2. Undisturbed(sync[s])
  BY <1>1 DEF CostInv, Running
<1>3. Settled(sync[s])
  BY <1>1, <1>2 DEF Undisturbed, AtWork
<1> QED
  BY <1>1, <1>3 DEF Settled, Within

(* The books of a bucket are touched by a sync that covers it.               *)
LEMMA TouchedBySync ==
    ASSUME CostInv, CostNext, NEW b \in Buckets, Books(b)' # Books(b)
    PROVE  \E s \in Syncs : Running(s) /\ MonthOf(DayOf(b)) \in sync[s].open
<1>1. ASSUME NEW s \in Syncs, Running(s), b \in Within(sync[s].range)
      PROVE  MonthOf(DayOf(b)) \in sync[s].open
  <2>1. IsSync(sync[s], There)
    BY DEF CostInv
  <2>2. HasMonths(sync[s])
    BY <1>1, <2>1 DEF IsSync, Running, Waiting
  <2> QED
    BY <1>1, <2>2 DEF HasMonths
<1>2. ASSUME NEW s \in Syncs, sync[s].stage \in {"reconciling", "allocating"}
      PROVE  /\ Running(s) /\ \A f \in sync[s].found : f.id \in Within(sync[s].range)
             /\ sync[s].stage = "allocating" => sync[s].entry.of \in sync[s].found
  BY <1>2, AtWorkFacts DEF IsWorking, IsEntry
<1>3. CostTables
  BY DEF CostInv
<1>4. ASSUME NEW s \in Syncs, NEW c \in Buckets, FetchBucket(s, c)
      PROVE  Running(s) /\ b \in Within(sync[s].range)
  <2>1. /\ sync[s].stage = "fetching" /\ c \in sync[s].todo /\ allocations' = allocations
        /\ \A k \in Buckets : k # c => bucket'[k] = bucket[k]
    BY <1>3, <1>4 DEF FetchBucket, SyncAt, CostTables
  <2>2. b = c
    BY <2>1 DEF Books
  <2>3. IsSync(sync[s], There)
    BY DEF CostInv
  <2> QED
    BY <2>1, <2>2, <2>3 DEF IsSync, IsFetching, IsWorking, Running, Waiting
<1>5. ASSUME NEW s \in Syncs, NEW d, NEW rows, ReadEstimates(s, d, rows)
      PROVE  Running(s) /\ b \in Within(sync[s].range)
  <2>1. /\ sync[s].stage = "reconciling" /\ allocations' = allocations
        /\ bucket'[b] # bucket[b] => \E f \in sync[s].found : f.id = b
    BY <1>5 DEF ReadEstimates, SyncAt
  <2> QED
    BY <1>2, <2>1 DEF Books
<1>6. ASSUME NEW s \in Syncs, InsertAllocation(s)
      PROVE  Running(s) /\ b \in Within(sync[s].range)
  <2>1. sync[s].stage = "allocating" /\ bucket' = bucket
    BY <1>6 DEF InsertAllocation, SyncAt
  <2>2. PICK new : allocations' = allocations \cup {new} /\ new.bucket = sync[s].entry.of.id
    <3> DEFINE entry == sync[s].entry
               row == sync[s].rows[entry.next]
               new == [bucket |-> entry.of.id, version |-> entry.version, job |-> row.job,
                       estimate |-> row.amount,
                       amount |-> Share(entry.of, sync[s].rows, entry.next, entry.given)]
    <3>1. allocations' = allocations \cup {new}
      BY <1>6 DEF InsertAllocation
    <3>2. new.bucket = sync[s].entry.of.id
      OBVIOUS
    <3> HIDE DEF new
    <3> QED
      BY <3>1, <3>2
  <2>3. new.bucket = b
    BY <2>1, <2>2 DEF Books
  <2> QED
    BY <1>2, <2>1, <2>2, <2>3
<1>7. ASSUME NEW s \in Syncs, MarkReconciled(s)
      PROVE  Running(s) /\ b \in Within(sync[s].range)
  <2>1. /\ sync[s].stage = "allocating" /\ allocations' = allocations
        /\ bucket'[b] # bucket[b] => b = sync[s].entry.of.id
    BY <1>3, <1>7 DEF MarkReconciled, SyncAt, CostTables
  <2> QED
    BY <1>2, <2>1 DEF Books
<1>8. \/ \E s \in Syncs : (\E c \in Buckets : FetchBucket(s, c)) \/ (\E d, rows : ReadEstimates(s, d, rows))
                          \/ InsertAllocation(s) \/ MarkReconciled(s)
      \/ UNCHANGED <<bucket, allocations>>
  BY DEF CostNext, BeginSync, CompareBucket, ReadBuckets, EndSync, ClosePeriod, PriceUsage, Bill
<1>9. ~ UNCHANGED <<bucket, allocations>>
  BY DEF Books
<1> QED
  BY <1>1, <1>4, <1>5, <1>6, <1>7, <1>8, <1>9

(* The costs say what there is, whatever is asked for at the same time.      *)
THEOREM CostsStand == PricingSpec /\ CostSpec => []CostsAddUp
<1>1. PricingInv /\ CostInv => CostsAddUp
  BY WholeIsPriced, CalmIsBalanced DEF CostsAddUp
<1> QED
  BY <1>1, PricingInvariant, CostInvariant, PTL

(* Only a sync that was under way when a month was closed changes its books. *)
THEOREM BooksStand == CostSpec => ClosedBooksStand
<1> DEFINE BooksKept == \A b \in DOMAIN bucket :
                       (period[MonthOf(DayOf(b))] = "closed" /\ Books(b)' # Books(b))
                           => \E s \in Syncs : Running(s) /\ MonthOf(DayOf(b)) \in sync[s].open
<1>1. CostInv /\ [CostNext]_costVars => [BooksKept]_costVars
  <2> SUFFICES ASSUME CostInv, CostNext PROVE BooksKept
    OBVIOUS
  <2>1. DOMAIN bucket = Buckets
    BY DEF CostInv, CostTables
  <2> QED
    BY <2>1, TouchedBySync
<1> HIDE DEF BooksKept
<1>2. CostSpec => [][BooksKept]_costVars
  BY <1>1, CostInvariant, PTL DEF CostSpec
<1> QED
  BY <1>2 DEF ClosedBooksStand, BooksKept

-----------------------------------------------------------------------------
(* The types of the offices *)

(* A template and a version are what somebody entered. *)
Named(row) ==
    /\ row.named \in BOOLEAN /\ row.platform \in {form.platform : form \in Forms}
    /\ row.status \in {"active", "archived", "deleted"}

Entered ==
    /\ \A t \in DOMAIN templates : Named(templates[t])
    /\ \A v \in DOMAIN versions : versions[v].prompt \in Prompts

(* The status of a template changes, and of none of its versions the prompt. *)
LEMMA EnteredTurned ==
    ASSUME Showing, Entered, NEW v \in DOMAIN versions, NEW to,
           versions' = [versions EXCEPT ![v].status = to],
           NEW t \in DOMAIN templates, NEW s \in {"active", "archived", "deleted"},
           templates' = templates \/ templates' = [templates EXCEPT ![t].status = s]
    PROVE  Entered'
<1>1. \A w \in DOMAIN versions' : w \in DOMAIN versions /\ versions'[w].prompt = versions[w].prompt
  <2>1. DOMAIN versions' = DOMAIN versions /\ IsVersion(versions[v])
    BY DEF Showing, Typed, Rows
  <2>2. PICK row : row = Turning(versions[v], to)
    OBVIOUS
  <2>3. row.prompt = versions[v].prompt
    BY <2>1, <2>2 DEF Turning, IsVersion
  <2>4. \A w \in DOMAIN versions : versions'[w] = IF w = v THEN row ELSE versions[w]
    BY <2>2 DEF Turning
  <2> QED
    BY <2>1, <2>3, <2>4
<1>2. \A u \in DOMAIN templates' : u \in DOMAIN templates /\ Named(templates'[u])
  <2>1. CASE templates' = templates
    BY <2>1 DEF Entered
  <2>2. CASE templates' = [templates EXCEPT ![t].status = s]
    <3>1. DOMAIN templates' = DOMAIN templates /\ IsTemplate(templates[t])
      BY <2>2 DEF Showing, Typed
    <3>2. PICK row : row = [templates[t] EXCEPT !.status = s]
      OBVIOUS
    <3>3. row.named = templates[t].named /\ row.platform = templates[t].platform /\ row.status = s
      BY <3>1, <3>2 DEF IsTemplate
    <3>4. Named(row)
      BY <3>3 DEF Entered, Named
    <3>5. \A u \in DOMAIN templates : templates'[u] = IF u = t THEN row ELSE templates[u]
      BY <2>2, <3>2
    <3> QED
      BY <3>1, <3>4, <3>5 DEF Entered
  <2> QED
    BY <2>1, <2>2
<1> QED
  BY <1>1, <1>2 DEF Entered

LEMMA EnteredAdded ==
    ASSUME Showing, Entered, NEW row, row.prompt \in Prompts, versions' = Append(versions, row),
           \A u \in DOMAIN templates' : Named(templates'[u])
    PROVE  Entered'
<1>1. /\ DOMAIN versions = 1..Len(versions) /\ Len(versions) \in Nat
      /\ DOMAIN versions' = 1..(Len(versions) + 1)
      /\ \A w \in 1..(Len(versions) + 1) :
             versions'[w] = IF w = Len(versions) + 1 THEN row ELSE versions[w]
  BY SeqFacts, AppendFacts DEF Showing, Typed, Rows
<1>2. \A w \in DOMAIN versions' : w = Len(versions) + 1 \/ w \in DOMAIN versions
  BY <1>1
<1>3. \A w \in DOMAIN versions' : versions'[w].prompt \in Prompts
  BY <1>1, <1>2 DEF Entered
<1> QED
  BY <1>3 DEF Entered

LEMMA EnteredStep ==
    ASSUME Showing, Entered, [TemplatesNext]_templateVars
    PROVE  Entered'
<1>1. ASSUME NEW form \in Forms, CreateTemplate(form) PROVE Entered'
  <2>1. PICK row : row = NewVersion(Len(templates) + 1, 1, form)
    OBVIOUS
  <2>2. row.prompt \in Prompts
    BY <2>1, EntriesAssumption DEF NewVersion
  <2>3. PICK parent : parent = [named |-> form.named, platform |-> form.platform, status |-> "active"]
    OBVIOUS
  <2>4. versions' = Append(versions, row) /\ templates' = Append(templates, parent)
    BY <1>1, <2>1, <2>3 DEF CreateTemplate, AddVersion
  <2>5. Named(parent)
    BY <2>3, EntriesAssumption DEF Named
  <2>6. /\ DOMAIN templates = 1..Len(templates) /\ Len(templates) \in Nat
        /\ DOMAIN templates' = 1..(Len(templates) + 1)
        /\ \A u \in 1..(Len(templates) + 1) :
               templates'[u] = IF u = Len(templates) + 1 THEN parent ELSE templates[u]
    BY <2>4, SeqFacts, AppendFacts DEF Showing, Typed, Rows
  <2>7. \A u \in DOMAIN templates' : u = Len(templates) + 1 \/ u \in DOMAIN templates
    BY <2>6
  <2>8. \A u \in DOMAIN templates' : Named(templates'[u])
    BY <2>5, <2>6, <2>7 DEF Entered
  <2> QED
    BY <2>2, <2>4, <2>8, EnteredAdded
<1>2. ASSUME NEW v \in DOMAIN versions, NEW form \in Forms, UpdateDraft(v, form) PROVE Entered'
  <2>0. PICK t : t = versions[v].template
    OBVIOUS
  <2>1. PICK q : q = IF form.platform = "" THEN templates[t].platform ELSE form.platform
    OBVIOUS
  <2>2. t \in DOMAIN templates /\ IsTemplate(templates[t]) /\ IsVersion(versions[v])
    BY <2>0 DEF Showing, Typed, Rows
  <2>3. PICK y : y = NormalizeSlots(form.slots)
    OBVIOUS
  <2>4. PICK row : row = Editing(versions[v], form.prompt, y)
    OBVIOUS
  <2>5. PICK a : a = [templates[t] EXCEPT !.named = form.named]
    OBVIOUS
  <2>6. PICK parent : parent = [a EXCEPT !.platform = q]
    OBVIOUS
  <2>7. versions' = [versions EXCEPT ![v] = row]
    BY <1>2, <2>3, <2>4 DEF UpdateDraft, Editing
  <2>8. IsTemplate(a) /\ a.named = form.named /\ a.platform = templates[t].platform
        /\ a.status = templates[t].status
    BY <2>2, <2>5 DEF IsTemplate
  <2>9. templates' = [templates EXCEPT ![t] = parent]
    <3>1. templates' = [templates EXCEPT ![t].named = form.named,
                            ![t].platform = IF form.platform = "" THEN @ ELSE form.platform]
      BY <1>2, <2>0 DEF UpdateDraft
    <3> QED
      BY <2>1, <2>2, <2>5, <2>6, <2>8, <3>1
  <2>10. parent.named = form.named /\ parent.platform = q /\ parent.status = templates[t].status
    BY <2>6, <2>8 DEF IsTemplate
  <2>11. Named(parent)
    BY <2>1, <2>2, <2>10, EntriesAssumption DEF Named, Entered
  <2>12. row.prompt = form.prompt
    <3>1. PICK b : b = [versions[v] EXCEPT !.prompt = form.prompt]
      OBVIOUS
    <3>2. IsVersion(b) /\ b.prompt = form.prompt
      BY <2>2, <3>1 DEF IsVersion
    <3>3. row = [b EXCEPT !.slots = y]
      BY <2>4, <3>1 DEF Editing
    <3> QED
      BY <3>2, <3>3 DEF IsVersion
  <2> QED
    BY <2>7, <2>9, <2>11, <2>12, EntriesAssumption DEF Entered
<1>3. ASSUME NEW v \in DOMAIN versions, CopyVersion(v) PROVE Entered'
  <2>1. PICK n : versions' = Append(versions, Copying(versions[v], n)) /\ templates' = templates
    BY <1>3 DEF CopyVersion, AddVersion, Copying
  <2>2. PICK row : row = Copying(versions[v], n)
    OBVIOUS
  <2>3. IsVersion(versions[v])
    BY DEF Showing, Typed, Rows
  <2>4. row.prompt = versions[v].prompt
    BY <2>2, <2>3 DEF IsVersion, Copying
  <2> QED
    BY <2>1, <2>2, <2>4, EnteredAdded DEF Entered
<1>4. ASSUME NEW v \in DOMAIN versions, Publish(v) \/ Archive(v) \/ Restore(v) \/ DeleteDraft(v)
      PROVE  Entered'
  <2>1. PICK t : t = versions[v].template
    OBVIOUS
  <2>2. t \in DOMAIN templates
    BY <2>1 DEF Showing, Typed, Rows
  <2>3. PICK to, s : /\ versions' = [versions EXCEPT ![v].status = to]
                     /\ s \in {"active", "archived", "deleted"}
                     /\ templates' = templates \/ templates' = [templates EXCEPT ![t].status = s]
    <3>1. CASE Publish(v)
      BY <2>1, <3>1 DEF Publish
    <3>2. CASE Archive(v)
      BY <2>1, <3>2 DEF Archive
    <3>3. CASE Restore(v)
      BY <2>1, <3>3 DEF Restore
    <3>4. CASE DeleteDraft(v)
      BY <2>1, <3>4 DEF DeleteDraft
    <3> QED
      BY <1>4, <3>1, <3>2, <3>3, <3>4
  <2> QED
    BY <2>2, <2>3, EnteredTurned
<1>5. CASE UNCHANGED templateVars
  BY <1>5 DEF templateVars, Entered
<1> QED
  BY <1>1, <1>2, <1>3, <1>4, <1>5 DEF TemplatesNext

LEMMA EnteredHolds == TemplatesSpec => []Entered
<1>1. TemplatesInit => Entered
  BY DEF TemplatesInit, Entered
<1>2. Showing /\ Entered /\ [TemplatesNext]_templateVars => Entered'
  BY EnteredStep
<1> QED
  BY <1>1, <1>2, ShowingHolds, PTL DEF TemplatesSpec

LEMMA TemplateTypes == TemplatesSpec => []TemplatesTypeOK
<1>1. Standing /\ Entered => TemplatesTypeOK
  <2> SUFFICES ASSUME Standing, Entered PROVE TemplatesTypeOK
    OBVIOUS
  <2>1. Len(publication) = Len(versions)
    <3>1. IsSeq(publication) /\ IsSeq(versions) /\ DOMAIN publication = DOMAIN versions
      BY DEF Standing, Showing, Typed, Rows
    <3>2. /\ Len(publication) \in Nat /\ Len(versions) \in Nat
          /\ 1..Len(publication) = 1..Len(versions)
      BY <3>1, SeqFacts
    <3> QED
      BY <3>2
  <2> QED
    BY <2>1 DEF TemplatesTypeOK, Standing, Showing, Typed, Rows, Statuses, Entered, Named
<1> QED
  BY <1>1, StandingHolds, EnteredHolds, PTL

(* Rates are numbered from 1, and nobody has read a number that is not there. *)
RatesKnown(cards) == \A r \in cards : r.version \in 0..MaxRates
RatesInv ==
    /\ RatesKnown(rates) /\ entering = [a \in Authors |-> entering[a]]
    /\ \A a \in Authors : entering[a] \in Int /\ entering[a] <= LatestVersion(rates)
    /\ \A p \in Pricers : pricing[p].stage \in {"idle", "listed", "open"}

LEMMA LatestFacts ==
    ASSUME NEW cards, RatesKnown(cards)
    PROVE  /\ LatestVersion(cards) \in 0..MaxRates
           /\ \A r \in cards : r.version <= LatestVersion(cards)
           /\ LatestVersion(cards) = 0 \/ \E r \in cards : r.version = LatestVersion(cards)
<1> DEFINE S == {0} \cup {r.version : r \in cards}
           T == {MaxRates - n : n \in S}
<1>1. S \in SUBSET (0..MaxRates) /\ 0 \in S /\ MaxRates \in Nat /\ (\A r \in cards : r.version \in S)
      /\ \A n \in S : n = 0 \/ \E r \in cards : r.version = n
  BY PricingAssumption DEF RatesKnown
<1> HIDE DEF S
<1>2. T \in SUBSET Nat /\ T # {}
  <2>1. \A n \in S : MaxRates - n \in Nat
    BY <1>1
  <2> QED
    BY <1>1, <2>1
<1>3. PICK k \in T : \A n \in T : k <= n
  BY <1>2, Least
<1>4. PICK m \in S : k = MaxRates - m
  OBVIOUS
<1>5. \A n \in S : MaxRates - n \in T
  OBVIOUS
<1> HIDE DEF T
<1>6. \A n \in S : n <= m
  BY <1>1, <1>3, <1>4, <1>5
<1>7. S \in SUBSET Int
  BY <1>1
<1>8. Max(S) \in S /\ \A n \in S : n <= Max(S)
  BY <1>6, <1>7, MaxFacts
<1> QED
  BY <1>1, <1>8 DEF LatestVersion, S

(* More rates have no lower number. *)
LEMMA LatestGrows ==
    ASSUME NEW cards, NEW more, cards \subseteq more, RatesKnown(more)
    PROVE  LatestVersion(cards) <= LatestVersion(more)
<1>1. RatesKnown(cards)
  BY DEF RatesKnown
<1>2. LatestVersion(cards) \in Int /\ LatestVersion(more) \in Int /\ 0 <= LatestVersion(more)
  BY <1>1, LatestFacts, PricingAssumption
<1>3. CASE LatestVersion(cards) = 0
  BY <1>2, <1>3
<1>4. ASSUME NEW r \in cards, r.version = LatestVersion(cards)
      PROVE  LatestVersion(cards) <= LatestVersion(more)
  BY <1>4, LatestFacts
<1> QED
  BY <1>1, <1>3, <1>4, LatestFacts

LEMMA RatesInvStep ==
    ASSUME PricingInv, RatesInv, [PricingNext]_pricingVars
    PROVE  RatesInv'
<1>0. LatestVersion(rates) \in 0..MaxRates /\ MaxRates \in Nat
  BY LatestFacts, PricingAssumption DEF RatesInv
<1>1. ASSUME UNCHANGED <<rates, entering>>,
             \A p \in Pricers : pricing'[p].stage \in {pricing[p].stage, "idle", "listed", "open"}
      PROVE  RatesInv'
  <2>1. LatestVersion(rates)' = LatestVersion(rates)
    BY <1>1 DEF LatestVersion
  <2>2. \A p \in Pricers : pricing'[p].stage \in {"idle", "listed", "open"}
    BY <1>1 DEF RatesInv
  <2>3. RatesKnown(rates)'
    BY <1>1 DEF RatesInv, RatesKnown
  <2> QED
    BY <1>1, <2>1, <2>2, <2>3 DEF RatesInv
<1>2. ASSUME NEW a \in Authors, NEW n \in Int, n <= LatestVersion(rates), rates \subseteq rates',
             RatesKnown(rates'), entering' = [entering EXCEPT ![a] = n], pricing' = pricing
      PROVE  RatesInv'
  <2>1. LatestVersion(rates) <= LatestVersion(rates') /\ LatestVersion(rates') \in Int
    BY <1>2, LatestGrows, LatestFacts
  <2>2. \A b \in Authors : entering'[b] \in Int /\ entering'[b] <= LatestVersion(rates)
    BY <1>2 DEF RatesInv
  <2>3. LatestVersion(rates)' = LatestVersion(rates') /\ RatesKnown(rates)'
    BY <1>2 DEF LatestVersion, RatesKnown
  <2>4. entering' = [b \in Authors |-> entering'[b]]
    BY <1>2 DEF RatesInv
  <2>5. \A b \in Authors : entering'[b] \in Int /\ entering'[b] <= LatestVersion(rates)'
    BY <1>0, <2>1, <2>2, <2>3
  <2> QED
    BY <1>2, <2>3, <2>4, <2>5 DEF RatesInv
<1>3. ASSUME NEW a \in Authors, ReadVersion(a) PROVE RatesInv'
  <2>1. /\ entering' = [entering EXCEPT ![a] = LatestVersion(rates)]
        /\ rates' = rates /\ pricing' = pricing
    BY <1>3 DEF ReadVersion
  <2>2. RatesKnown(rates')
    BY <2>1 DEF RatesInv, RatesKnown
  <2>3. PICK n : n = LatestVersion(rates)
    OBVIOUS
  <2>4. /\ n \in Int /\ n <= LatestVersion(rates) /\ rates \subseteq rates'
        /\ entering' = [entering EXCEPT ![a] = n] /\ pricing' = pricing
    BY <1>0, <2>1, <2>3
  <2> QED
    BY <1>2, <2>2, <2>4
<1>4. ASSUME NEW a \in Authors, NEW es \in RateVersions, CreateRateVersion(a, es) PROVE RatesInv'
  <2>1. PICK version : version = entering[a] + 1
    OBVIOUS
  <2>2. PICK cards : cards = {[version |-> version, tier |-> e.tier, metric |-> e.metric,
                               rate |-> e.rate, at |-> e.at] : e \in es}
    OBVIOUS
  <2>3. /\ entering[a] >= 0 /\ LatestVersion(rates) < MaxRates /\ pricing' = pricing
        /\ rates' = rates \/ rates' = rates \cup cards
        /\ entering' = [entering EXCEPT ![a] = -1]
    BY <1>4, <2>1, <2>2 DEF CreateRateVersion
  <2>4. entering[a] \in Int /\ entering[a] <= LatestVersion(rates)
    BY DEF RatesInv
  <2>5. version \in 0..MaxRates
    BY <1>0, <2>1, <2>3, <2>4
  <2>6. \A r \in cards : r.version = version
    BY <2>2
  <2>7. RatesKnown(rates') /\ rates \subseteq rates'
    BY <2>3, <2>5, <2>6 DEF RatesInv, RatesKnown
  <2>8. -1 \in Int /\ -1 <= LatestVersion(rates)
    BY <1>0
  <2> QED
    BY <1>2, <2>3, <2>7, <2>8
<1>5. ASSUME NEW l \in Ledgers, CaptureUsage(l) PROVE RatesInv'
  BY <1>1, <1>5 DEF CaptureUsage
<1>6. ASSUME NEW p \in Pricers,
             RepriceUsage(p) \/ BeginPricing(p) \/ CommitPricing(p) \/ AbortPricing(p)
      PROVE  RatesInv'
  <2>1. NoPricing.stage = "idle"
    BY DEF NoPricing
  <2>2. UNCHANGED <<rates, entering>>
    BY <1>6 DEF RepriceUsage, BeginPricing, CommitPricing, AbortPricing
  <2>3. pricing'[p].stage \in {"idle", "listed", "open"}
        /\ \A o \in Pricers : o # p => pricing'[o] = pricing[o]
    <3>0. pricing = [o \in Pricers |-> pricing[o]]
      BY DEF PricingInv
    <3>1. CASE RepriceUsage(p)
      BY <3>0, <3>1 DEF RepriceUsage
    <3>2. CASE BeginPricing(p)
      BY <2>1, <3>0, <3>2 DEF BeginPricing
    <3>3. CASE CommitPricing(p)
      BY <3>0, <3>3 DEF CommitPricing
    <3>4. CASE AbortPricing(p)
      BY <2>1, <3>0, <3>4 DEF AbortPricing
    <3> QED
      BY <1>6, <3>1, <3>2, <3>3, <3>4
  <2> QED
    BY <1>1, <2>2, <2>3
<1>7. CASE UNCHANGED pricingVars
  BY <1>1, <1>7 DEF pricingVars
<1> QED
  BY <1>3, <1>4, <1>5, <1>6, <1>7 DEF PricingNext

LEMMA PricingTypes == PricingSpec => []PricingTypeOK
<1>1. PricingInit => RatesInv
  <2> SUFFICES ASSUME PricingInit PROVE RatesInv
    OBVIOUS
  <2>1. rates = {} /\ entering = [a \in Authors |-> -1] /\ pricing = [p \in Pricers |-> NoPricing]
    BY DEF PricingInit
  <2>2. RatesKnown(rates)
    BY <2>1 DEF RatesKnown
  <2>3. -1 <= LatestVersion(rates)
    BY <2>2, LatestFacts, PricingAssumption
  <2> QED
    BY <2>1, <2>2, <2>3 DEF RatesInv, NoPricing
<1>2. PricingInv /\ RatesInv /\ [PricingNext]_pricingVars => RatesInv'
  BY RatesInvStep
<1>3. PricingInv /\ RatesInv => PricingTypeOK
  <2> SUFFICES ASSUME PricingInv, RatesInv PROVE PricingTypeOK
    OBVIOUS
  <2>1. LatestVersion(rates) <= MaxRates
    BY LatestFacts, PricingAssumption DEF RatesInv
  <2>2. ASSUME NEW l \in Ledgers
        PROVE  /\ ledger[l].status \in {"absent", "priced", "partial", "unpriced"}
               /\ ledger[l].estimate \in Nat
    <3>1. ChargesHold(l, charges[l]) /\ LedgerHolds(l)
      BY DEF PricingInv
    <3>2. CASE ledger[l] = Absent
      BY <3>2 DEF Absent
    <3>3. ASSUME NEW cs \in SUBSET charges[l], ledger[l] = Priced(l, cs)
          PROVE  /\ ledger[l].status \in {"absent", "priced", "partial", "unpriced"}
                 /\ ledger[l].estimate \in Nat
      <4>1. IsFiniteSet(charges[l]) /\ \A c \in charges[l] : c.amount \in Nat
        BY <3>1 DEF ChargesHold, IsCharge
      <4>2. TotalOf(cs) \in Nat
        BY <4>1, TotalPart
      <4>3. StatusOf(l, cs) \in {"priced", "partial", "unpriced"}
        BY DEF StatusOf
      <4> QED
        BY <3>3, <4>2, <4>3 DEF Priced
    <3> QED
      BY <3>1, <3>2, <3>3 DEF LedgerHolds
  <2> QED
    BY <2>1, <2>2 DEF PricingTypeOK, RatesInv
<1> QED
  BY <1>1, <1>2, <1>3, PricingInvariant, PTL DEF PricingSpec

(* The key that is stored was accepted, and so was one that is about to be. *)
Known(key) == key \in Keys /\ Accepts(key)
KeysKnown ==
    /\ provider # Unconfigured =>
           /\ provider.status \in {"active", "disabled"} /\ provider.capable \in BOOLEAN
           /\ Known(provider.key)
    /\ \A a \in Administrators :
           /\ changing[a].stage \in {"idle", "verified", "listed", "read", "done"}
           /\ changing[a].stage = "verified" => Known(changing[a].key)

LEMMA KeysKnownStep ==
    ASSUME SettingsInv, KeysKnown, [ProviderNext]_providerVars
    PROVE  KeysKnown'
<1>0. Still.stage = "idle" /\ Done.stage = "done"
  BY DEF Still, Done
<1>1. ASSUME UNCHANGED provider,
             \A a \in Administrators :
                 \/ changing'[a] = changing[a] \/ changing'[a].stage \in {"listed", "read", "done"}
                 \/ changing'[a].stage = "verified" /\ Known(changing'[a].key)
      PROVE  KeysKnown'
  BY <1>1 DEF KeysKnown
<1>2. ASSUME NEW row, provider' = row, row.status \in {"active", "disabled"},
             row.capable \in BOOLEAN, Known(row.key),
             changing' = changing \/ \E a \in Administrators : changing' = [changing EXCEPT ![a] = Done]
      PROVE  KeysKnown'
  <2>1. \A a \in Administrators : changing'[a] = changing[a] \/ changing'[a] = Done
    BY <1>2 DEF SettingsInv
  <2> QED
    BY <1>0, <1>2, <2>1 DEF KeysKnown
<1>3. ASSUME NEW a \in Administrators, NEW key \in Keys, Verify(a, key) PROVE KeysKnown'
  <2>1. provider' = provider /\ changing'[a].stage = "verified" /\ Known(changing'[a].key)
        /\ \A b \in Administrators : b # a => changing'[b] = changing[b]
    BY <1>3 DEF Verify, Known, SettingsInv
  <2> QED
    BY <1>1, <2>1
<1>4. ASSUME NEW a \in Administrators,
             (\E config \in Configurations : ListModels(a, config)) \/ ReadActive(a) \/ GiveUp(a)
      PROVE  KeysKnown'
  <2>1. /\ provider' = provider /\ changing'[a].stage \in {"listed", "read", "done"}
        /\ \A b \in Administrators : b # a => changing'[b] = changing[b]
    <3>0. changing = [b \in Administrators |-> changing[b]]
      BY DEF SettingsInv
    <3>1. CASE \E config \in Configurations : ListModels(a, config)
      BY <3>0, <3>1 DEF ListModels
    <3>2. CASE ReadActive(a)
      BY <3>0, <3>2 DEF ReadActive
    <3>3. CASE GiveUp(a)
      BY <1>0, <3>0, <3>3 DEF GiveUp
    <3> QED
      BY <1>4, <3>1, <3>2, <3>3
  <2> QED
    BY <1>1, <2>1
<1>5. ASSUME NEW a \in Administrators, Configure(a) PROVE KeysKnown'
  <2>1. PICK key : key = changing[a].key
    OBVIOUS
  <2>2. PICK row : row = IF provider = Unconfigured THEN Created(key) ELSE KeyReplaced(provider, key)
    OBVIOUS
  <2>3. provider' = row /\ changing' = [changing EXCEPT ![a] = Done] /\ Known(key)
    BY <1>5, <2>1, <2>2 DEF Configure, Replace, KeysKnown
  <2>4. row.status = "active" /\ row.key = key /\ row.capable = FALSE
    <3>1. CASE provider = Unconfigured
      BY <2>2, <3>1 DEF Created
    <3>2. CASE provider # Unconfigured
      <4>1. PICK p : p = provider /\ IsSettings(p)
        BY <3>2, SettingsAreThere
      <4>2. row = [p EXCEPT !.status = "active", !.key = key, !.capable = FALSE, !.used = FALSE]
        BY <2>2, <3>2, <4>1 DEF KeyReplaced
      <4> QED
        BY <4>1, <4>2 DEF IsSettings
    <3> QED
      BY <3>1, <3>2
  <2> QED
    BY <1>2, <2>3, <2>4
<1>6. ASSUME NEW a \in Administrators, UpdateModels(a) PROVE KeysKnown'
  <2>1. PICK config : config = changing[a].config
    OBVIOUS
  <2>2. PICK old : old = provider
    OBVIOUS
  <2>3. PICK cap \in BOOLEAN : cap = (old.capable /\ SameImage(changing[a].row, config))
    OBVIOUS
  <2>4. PICK row : row = [old EXCEPT !.text = config.text, !.mode = config.mode,
                             !.responses = config.responses, !.generation = config.generation,
                             !.capable = cap]
    OBVIOUS
  <2>5. provider' = row /\ old # Unconfigured /\ changing' = [changing EXCEPT ![a] = Done]
    BY <1>6, <2>1, <2>2, <2>3, <2>4 DEF UpdateModels, SettingsInv
  <2>6. IsSettings(old)
    BY <2>2, <2>5, SettingsAreThere
  <2>7. row.status = old.status /\ row.key = old.key /\ row.capable = cap
    BY <2>4, <2>6 DEF IsSettings
  <2> QED
    BY <1>2, <2>2, <2>5, <2>7 DEF KeysKnown
<1>7. ASSUME NEW row, provider # Unconfigured, provider' = row,
             \/ row = [provider EXCEPT !.status = "disabled"]
             \/ row = [provider EXCEPT !.timeout = "changed"]
             \/ row = [provider EXCEPT !.used = TRUE] \/ row = [provider EXCEPT !.capable = TRUE],
             changing' = changing
      PROVE  KeysKnown'
  <2>1. PICK p : p = provider /\ IsSettings(p)
    BY <1>7, SettingsAreThere
  <2>2. /\ row.key = p.key /\ row.status \in {p.status, "disabled"}
        /\ row.capable \in {p.capable, TRUE}
    BY <1>7, <2>1 DEF IsSettings
  <2>3. row.status \in {"active", "disabled"} /\ row.capable \in BOOLEAN /\ Known(row.key)
    BY <1>7, <2>1, <2>2 DEF KeysKnown
  <2> QED
    BY <1>2, <1>7, <2>3
<1>8. CASE Disable
  BY <1>7, <1>8 DEF Disable
<1>9. CASE UpdateTimeouts
  BY <1>7, <1>9, SettingsAreThere DEF UpdateTimeouts
<1>10. ASSUME NEW c \in Calls, Dispatch(c) PROVE KeysKnown'
  <2>1. changing' = changing
    BY <1>10 DEF Dispatch
  <2>2. CASE provider' = provider
    BY <1>1, <2>1, <2>2
  <2>3. CASE Active /\ provider' = [provider EXCEPT !.used = TRUE]
    BY <1>7, <2>1, <2>3, SettingsAreThere
  <2> QED
    BY <1>10, <2>2, <2>3 DEF Dispatch
<1>11. ASSUME NEW c \in Calls, PersistResult(c) PROVE KeysKnown'
  <2>1. provider # Unconfigured
    BY <1>11 DEF PersistResult, InFlight, SettingsInv
  <2> QED
    BY <1>7, <1>11, <2>1 DEF PersistResult
<1>12. ASSUME NEW c \in Calls, DecryptActiveCredential(c) \/ CallFails(c) PROVE KeysKnown'
  BY <1>1, <1>12 DEF DecryptActiveCredential, CallFails
<1>13. CASE UNCHANGED providerVars
  BY <1>1, <1>13 DEF providerVars
<1> QED
  BY <1>3, <1>4, <1>5, <1>6, <1>8, <1>9, <1>10, <1>11, <1>12, <1>13 DEF ProviderNext

LEMMA ProviderTypes == ProviderSpec => []ProviderTypeOK
<1>1. ProviderInit => KeysKnown
  BY DEF ProviderInit, KeysKnown, Still
<1>2. SettingsInv /\ KeysKnown /\ [ProviderNext]_providerVars => KeysKnown'
  BY KeysKnownStep
<1>3. SettingsInv /\ KeysKnown => ProviderTypeOK
  <2> SUFFICES ASSUME SettingsInv, KeysKnown PROVE ProviderTypeOK
    OBVIOUS
  <2>1. Unconfigured.status = "unconfigured" /\ Still.stage = "idle" /\ Done.stage = "done"
    BY DEF Unconfigured, Still, Done
  <2>2. \A c \in Calls : calling[c].stage \in {"idle", "prepared", "dispatched", "done"}
    BY <2>1 DEF SettingsInv, IsCall
  <2>3. provider.status \in {"unconfigured", "active", "disabled"}
    BY <2>1 DEF KeysKnown
  <2> QED
    BY <2>2, <2>3 DEF ProviderTypeOK, KeysKnown, Known
<1> QED
  BY <1>1, <1>2, <1>3, SettingsInvariant, PTL DEF ProviderSpec

(* What a sync has in hand are estimates of jobs, and it has come to one of them. *)
Hands(q) ==
    q.stage \in {"reconciling", "allocating"} =>
        /\ Len(q.rows) \in Nat /\ \A i \in 1..Len(q.rows) : q.rows[i].job \in UsageJobs
        /\ q.stage = "allocating" => q.entry.next \in Nat \ {0}

CostsNamed ==
    /\ \A b \in Buckets : bucket[b].status \in {"none", "open", "needs_attention", "reconciled"}
    /\ \A d \in Days : \A u \in usage[d] : u.job \in UsageJobs
    /\ \A a \in allocations : a.bucket \in Buckets /\ a.job \in UsageJobs
    /\ \A s \in Syncs : Hands(sync[s])

(* A sync that is disturbed has the same in hand. *)
LEMMA DisturbedHands ==
    ASSUME CostInv, NEW s \in Syncs, Hands(sync[s])
    PROVE  Hands(Disturb(Syncs)[s])
<1>0. PICK p : p = sync[s]
  OBVIOUS
<1>1. IsSync(p, There)
  BY <1>0 DEF CostInv
<1>2. Disturb(Syncs)[s] = IF Running(s) THEN [p EXCEPT !.calm = FALSE] ELSE p
  BY <1>0 DEF Disturb
<1>3. CASE ~Running(s)
  BY <1>0, <1>2, <1>3
<1>4. CASE Running(s)
  <2>1. IsFetching(p) \/ IsWorking(p, There)
    BY <1>0, <1>1, <1>4 DEF IsSync, Running, Waiting
  <2>2. PICK q : q = [p EXCEPT !.calm = FALSE]
    OBVIOUS
  <2>3. CASE IsFetching(p)
    <3>1. q.stage = "fetching"
      BY <2>2, <2>3 DEF IsFetching
    <3> QED
      BY <1>2, <1>4, <2>2, <3>1 DEF Hands
  <2>4. CASE IsWorking(p, There)
    <3>1. PICK st, ra, op, ca, fo, da, ro, bu, en :
              p = [stage |-> st, range |-> ra, open |-> op, calm |-> ca, found |-> fo,
                   days |-> da, rows |-> ro, buckets |-> bu, entry |-> en]
      BY <2>4, WorkFields
    <3>2. q.stage = p.stage /\ q.rows = p.rows /\ q.entry = p.entry
      BY <2>2, <3>1
    <3> QED
      BY <1>0, <1>2, <1>4, <2>2, <3>2 DEF Hands
  <2> QED
    BY <2>1, <2>3, <2>4
<1> QED
  BY <1>3, <1>4

(* A step of one sync, seen by what it has in hand. *)
LEMMA HandsGoOn ==
    ASSUME CostInv, CostsNamed, NEW s \in Syncs, NEW q, Hands(q),
           sync' = [sync EXCEPT ![s] = q]
    PROVE  \A t \in Syncs : Hands(sync[t])'
<1>1. \A t \in Syncs : sync'[t] = IF t = s THEN q ELSE sync[t]
  BY DEF CostInv
<1>2. \A t \in Syncs : Hands(sync'[t])
  BY <1>1 DEF CostsNamed
<1> QED
  BY <1>2 DEF Hands

LEMMA SyncNamesStep ==
    ASSUME CostInv, CostsNamed, NEW s \in Syncs,
           \/ \E range \in Ranges : BeginSync(s, range)
           \/ \E b \in Buckets : FetchBucket(s, b)
           \/ ReadBuckets(s) \/ EndSync(s)
    PROVE  CostsNamed'
<1>0. CostTables
  BY DEF CostInv
<1>1. ASSUME NEW range \in Ranges, BeginSync(s, range) PROVE CostsNamed'
  <2>1. UNCHANGED <<usage, bucket, allocations>>
    BY <1>1 DEF BeginSync
  <2>2. PICK q : /\ q.stage = "fetching" /\ sync' = [Disturb(Syncs) EXCEPT ![s] = q]
    <3> DEFINE q == [stage |-> "fetching", range |-> range,
                     todo |-> {b \in Buckets : DayOf(b) \in range},
                     open |-> {m \in DOMAIN period : period[m] # "closed"},
                     calm |-> \A t \in Syncs : ~Running(t)]
    <3>1. q.stage = "fetching" /\ sync' = [Disturb(Syncs) EXCEPT ![s] = q]
      BY <1>1 DEF BeginSync
    <3> HIDE DEF q
    <3> QED
      BY <3>1
  <2>3. \A t \in Syncs : sync'[t] = IF t = s THEN q ELSE Disturb(Syncs)[t]
    BY <2>2 DEF Disturb
  <2>4. \A t \in Syncs : Hands(sync'[t])
    <3>1. \A t \in Syncs : Hands(Disturb(Syncs)[t])
      BY DisturbedHands DEF CostsNamed
    <3>2. Hands(q)
      BY <2>2 DEF Hands
    <3> QED
      BY <2>3, <3>1, <3>2
  <2>5. \A t \in Syncs : Hands(sync[t])'
    BY <2>4 DEF Hands
  <2> QED
    BY <2>1, <2>5 DEF CostsNamed
<1>2. ASSUME NEW b \in Buckets, FetchBucket(s, b) PROVE CostsNamed'
  <2>1. PICK row : /\ bucket' = [bucket EXCEPT ![b] = row]
                   /\ row.status = IF bucket[b] = NoRow THEN "open" ELSE bucket[b].status
    <3> DEFINE row == [status |-> IF bucket[b] = NoRow THEN "open" ELSE bucket[b].status,
                       amount |-> billed[b]]
    <3>1. /\ bucket' = [bucket EXCEPT ![b] = row]
          /\ row.status = IF bucket[b] = NoRow THEN "open" ELSE bucket[b].status
      BY <1>2 DEF FetchBucket
    <3> HIDE DEF row
    <3> QED
      BY <3>1
  <2>2. /\ sync[s].stage = "fetching" /\ UNCHANGED <<usage, allocations>>
        /\ sync' = [sync EXCEPT ![s].todo = @ \ {b}]
    BY <1>2 DEF FetchBucket, SyncAt
  <2>3. PICK q : q = [sync[s] EXCEPT !.todo = sync[s].todo \ {b}]
    OBVIOUS
  <2>4. q.stage = "fetching"
    <3>1. IsSync(sync[s], There)
      BY DEF CostInv
    <3>2. PICK p : p = sync[s] /\ IsFetching(p)
      BY <2>2, <3>1 DEF IsSync, IsWorking, Waiting
    <3> QED
      BY <2>3, <3>2 DEF IsFetching
  <2>5. sync' = [sync EXCEPT ![s] = q] /\ Hands(q)
    BY <2>2, <2>3, <2>4 DEF Hands
  <2>6. \A t \in Syncs : Hands(sync[t])'
    BY <2>5, HandsGoOn
  <2>7. \A c \in Buckets : bucket'[c].status \in {"none", "open", "needs_attention", "reconciled"}
    BY <1>0, <2>1 DEF CostTables, CostsNamed
  <2> QED
    BY <2>2, <2>6, <2>7 DEF CostsNamed
<1>3. CASE ReadBuckets(s)
  <2>1. UNCHANGED <<usage, bucket, allocations>>
    BY <1>3 DEF ReadBuckets
  <2>2. PICK q : q.stage = "reconciling" /\ q.rows = <<>> /\ sync' = [sync EXCEPT ![s] = q]
    <3> DEFINE there == {b \in Buckets : DayOf(b) \in sync[s].range /\ bucket[b] # NoRow}
               q == [stage |-> "reconciling", range |-> sync[s].range, open |-> sync[s].open,
                     calm |-> sync[s].calm,
                     found |-> {[id |-> b, amount |-> bucket[b].amount] : b \in there},
                     days |-> {DayOf(b) : b \in there}, rows |-> <<>>, buckets |-> {}, entry |-> {}]
    <3>1. q.stage = "reconciling" /\ q.rows = <<>>
      OBVIOUS
    <3>2. sync' = [sync EXCEPT ![s] = q]
      BY <1>3 DEF ReadBuckets
    <3> HIDE DEF q
    <3> QED
      BY <3>1, <3>2
  <2>3. Hands(q)
    BY <2>2 DEF Hands
  <2> QED
    BY <2>1, <2>2, <2>3, HandsGoOn DEF CostsNamed
<1>4. CASE EndSync(s)
  <2>1. PICK q : q = [stage |-> "over"]
    OBVIOUS
  <2>2. sync' = [sync EXCEPT ![s] = q] /\ UNCHANGED <<usage, bucket, allocations>> /\ Hands(q)
    BY <1>4, <2>1 DEF EndSync, Hands
  <2> QED
    BY <2>2, HandsGoOn DEF CostsNamed
<1> QED
  BY <1>1, <1>2, <1>3, <1>4

LEMMA WorkNamesStep ==
    ASSUME CostInv, CostsNamed, NEW s \in Syncs,
           \/ \E d \in Days : \E rows \in SetToSeqs(usage[d]) : ReadEstimates(s, d, rows)
           \/ SyncAt(s, "reconciling") /\ \E f \in sync[s].buckets : CompareBucket(s, f)
           \/ InsertAllocation(s) \/ MarkReconciled(s)
    PROVE  CostsNamed'
<1>0. PICK p : p = sync[s]
  OBVIOUS
<1>1. CostTables /\ p.stage \in {"reconciling", "allocating"} /\ IsWorking(p, There)
  <2>1. p.stage \in {"reconciling", "allocating"}
    BY <1>0 DEF ReadEstimates, CompareBucket, InsertAllocation, MarkReconciled, SyncAt
  <2> QED
    BY <1>0, <2>1, AtWorkFacts
<1>2. PICK st, ra, op, ca, fo, da, ro, bu, en :
          p = [stage |-> st, range |-> ra, open |-> op, calm |-> ca, found |-> fo,
               days |-> da, rows |-> ro, buckets |-> bu, entry |-> en]
  BY <1>1, WorkFields
<1>3. st = p.stage /\ ro = p.rows /\ en = p.entry /\ Hands(p)
  <2>1. st = p.stage /\ ro = p.rows /\ en = p.entry
    BY <1>2
  <2>2. Hands(sync[s])
    BY DEF CostsNamed
  <2> QED
    BY <1>0, <2>1, <2>2
<1>4. ASSUME NEW d \in Days, NEW rows \in SetToSeqs(usage[d]), ReadEstimates(s, d, rows)
      PROVE  CostsNamed'
  <2>1. Len(rows) \in Nat /\ \A i \in 1..Len(rows) : rows[i] \in usage[d]
    <3>1. Cardinality(usage[d]) \in Nat
      BY <1>1, FS_CardinalityType DEF CostTables
    <3>2. rows \in Seq(usage[d])
      BY <3>1, SeqDef DEF SetToSeqs
    <3> QED
      BY <3>2, LenProperties
  <2>2. PICK buckets, hits :
            /\ sync' = [sync EXCEPT ![s].days = @ \ {d}, ![s].rows = rows, ![s].buckets = buckets]
            /\ bucket' = [b \in Buckets |->
                   IF b \in hits THEN [bucket[b] EXCEPT !.status = "needs_attention"] ELSE bucket[b]]
    <3> DEFINE found == {f \in sync[s].found : DayOf(f.id) = d}
               none == TotalOf(ToSet(rows)) = 0
               hits == {b \in Buckets : none /\ \E f \in found : f.id = b}
               buckets == IF none THEN {} ELSE found
    <3>1. /\ sync' = [sync EXCEPT ![s].days = @ \ {d}, ![s].rows = rows, ![s].buckets = buckets]
          /\ bucket' = [b \in Buckets |->
                 IF b \in hits THEN [bucket[b] EXCEPT !.status = "needs_attention"] ELSE bucket[b]]
      BY <1>4 DEF ReadEstimates
    <3> HIDE DEF hits, buckets
    <3> QED
      BY <3>1
  <2>3. UNCHANGED <<usage, allocations>> /\ p.stage = "reconciling"
    BY <1>0, <1>4 DEF ReadEstimates, SyncAt
  <2>4. \A b \in Buckets : bucket'[b].status \in {"none", "open", "needs_attention", "reconciled"}
    <3> SUFFICES ASSUME NEW b \in Buckets
                 PROVE  bucket'[b].status \in {"none", "open", "needs_attention", "reconciled"}
      OBVIOUS
    <3>1. \E x, y : bucket[b] = [status |-> x] \/ bucket[b] = [status |-> x, amount |-> y]
      BY <1>1 DEF CostTables, NoRow
    <3>2. [bucket[b] EXCEPT !.status = "needs_attention"].status = "needs_attention"
      BY <3>1
    <3>3. bucket'[b] = bucket[b] \/ bucket'[b] = [bucket[b] EXCEPT !.status = "needs_attention"]
      BY <2>2
    <3> QED
      BY <3>2, <3>3 DEF CostsNamed
  <2>5. PICK x : x = [p EXCEPT !.days = p.days \ {d}]
    OBVIOUS
  <2>6. PICK y : y = [x EXCEPT !.rows = rows]
    OBVIOUS
  <2>7. PICK q : q = [y EXCEPT !.buckets = buckets]
    OBVIOUS
  <2>8. x = [stage |-> st, range |-> ra, open |-> op, calm |-> ca, found |-> fo,
             days |-> p.days \ {d}, rows |-> ro, buckets |-> bu, entry |-> en]
    BY <1>2, <2>5
  <2>9. y = [stage |-> st, range |-> ra, open |-> op, calm |-> ca, found |-> fo,
             days |-> p.days \ {d}, rows |-> rows, buckets |-> bu, entry |-> en]
    BY <2>6, <2>8
  <2>10. q.stage = st /\ q.rows = rows
    BY <2>7, <2>9
  <2>11. sync' = [sync EXCEPT ![s] = q]
    BY <1>0, <2>2, <2>5, <2>6, <2>7
  <2>12. Hands(q)
    BY <1>3, <2>1, <2>3, <2>10 DEF Hands, CostsNamed
  <2>13. \A t \in Syncs : Hands(sync[t])'
    BY <2>11, <2>12, HandsGoOn
  <2> QED
    BY <2>3, <2>4, <2>13 DEF CostsNamed
<1>5. ASSUME NEW f \in sync[s].buckets, SyncAt(s, "reconciling"), CompareBucket(s, f) PROVE CostsNamed'
  <2>1. PICK buckets, stage, version :
            sync' = [sync EXCEPT ![s].buckets = buckets, ![s].stage = stage,
                         ![s].entry = [of |-> f, version |-> version, next |-> 1, given |-> 0]]
    <3> DEFINE v == NewestAllocation(f.id)
               same == v > 0 /\ SameAllocation(f, sync[s].rows, AllocationRows(f.id, v))
               stage == IF same THEN sync[s].stage ELSE "allocating"
               version == v + 1
    <3>1. sync' = [sync EXCEPT ![s].buckets = sync[s].buckets \ {f}, ![s].stage = stage,
                       ![s].entry = [of |-> f, version |-> version, next |-> 1, given |-> 0]]
      BY <1>5 DEF CompareBucket
    <3> HIDE DEF stage, version
    <3> QED
      BY <3>1
  <2>2. PICK entry : entry = [of |-> f, version |-> version, next |-> 1, given |-> 0]
    OBVIOUS
  <2>3. PICK x : x = [p EXCEPT !.buckets = buckets]
    OBVIOUS
  <2>4. PICK y : y = [x EXCEPT !.stage = stage]
    OBVIOUS
  <2>5. PICK q : q = [y EXCEPT !.entry = entry]
    OBVIOUS
  <2>6. x = [stage |-> st, range |-> ra, open |-> op, calm |-> ca, found |-> fo,
             days |-> da, rows |-> ro, buckets |-> buckets, entry |-> en]
    BY <1>2, <2>3
  <2>7. y = [stage |-> stage, range |-> ra, open |-> op, calm |-> ca, found |-> fo,
             days |-> da, rows |-> ro, buckets |-> buckets, entry |-> en]
    BY <2>4, <2>6
  <2>8. q.rows = ro /\ q.entry = entry
    BY <2>5, <2>7
  <2>9. sync' = [sync EXCEPT ![s] = q]
    BY <1>0, <2>1, <2>2, <2>3, <2>4, <2>5
  <2>10. entry.next = 1
    BY <2>2
  <2>11. Hands(q)
    BY <1>1, <1>3, <2>8, <2>10 DEF Hands
  <2>12. UNCHANGED <<usage, bucket, allocations>>
    BY <1>5 DEF CompareBucket
  <2> QED
    BY <2>9, <2>11, <2>12, HandsGoOn DEF CostsNamed
<1>6. CASE InsertAllocation(s)
  <2>1. PICK share : /\ sync' = [sync EXCEPT ![s].entry.next = @ + 1, ![s].entry.given = @ + share]
                     /\ allocations' = allocations \cup
                            {[bucket |-> en.of.id, version |-> en.version, job |-> ro[en.next].job,
                              estimate |-> ro[en.next].amount, amount |-> share]}
    BY <1>0, <1>3, <1>6 DEF InsertAllocation
  <2>2. UNCHANGED <<usage, bucket>> /\ p.stage = "allocating" /\ en.next <= Len(ro)
    BY <1>0, <1>3, <1>6 DEF InsertAllocation, SyncAt
  <2>3. en.of.id \in Buckets /\ IsEntry(en, p.found)
    BY <1>1, <1>3, <2>2 DEF IsWorking, IsEntry, There
  <2>4. en.next \in Nat \ {0} /\ ro[en.next].job \in UsageJobs
    BY <1>3, <2>2 DEF Hands
  <2>5. \A a \in allocations' : a.bucket \in Buckets /\ a.job \in UsageJobs
    <3>1. PICK new : new = [bucket |-> en.of.id, version |-> en.version, job |-> ro[en.next].job,
                            estimate |-> ro[en.next].amount, amount |-> share]
      OBVIOUS
    <3>2. new.bucket = en.of.id /\ new.job = ro[en.next].job
      BY <3>1
    <3> QED
      BY <2>1, <2>3, <2>4, <3>1, <3>2 DEF CostsNamed
  <2>6. PICK of, version, next, given :
            en = [of |-> of, version |-> version, next |-> next, given |-> given]
    BY <2>3 DEF IsEntry
  <2>7. PICK e : e = [en EXCEPT !.next = en.next + 1]
    OBVIOUS
  <2>8. PICK x : x = [p EXCEPT !.entry = e]
    OBVIOUS
  <2>9. PICK entry : entry = [e EXCEPT !.given = en.given + share]
    OBVIOUS
  <2>10. PICK q : q = [x EXCEPT !.entry = entry]
    OBVIOUS
  <2>11. e = [of |-> of, version |-> version, next |-> en.next + 1, given |-> given]
    BY <2>6, <2>7
  <2>12. entry.next = en.next + 1 /\ e.given = en.given
    BY <2>6, <2>9, <2>11
  <2>13. x = [stage |-> st, range |-> ra, open |-> op, calm |-> ca, found |-> fo,
              days |-> da, rows |-> ro, buckets |-> bu, entry |-> e]
    BY <1>2, <2>8
  <2>14. q.stage = st /\ q.rows = ro /\ q.entry = entry
    BY <2>10, <2>13
  <2>15. sync' = [sync EXCEPT ![s] = q]
    <3>1. sync' = [sync EXCEPT ![s] = [[p EXCEPT !.entry = [p.entry EXCEPT !.next = p.entry.next + 1]]
                      EXCEPT !.entry = [[p EXCEPT !.entry = [p.entry EXCEPT !.next = p.entry.next + 1]].entry
                          EXCEPT !.given = p.entry.given + share]]]
      BY <1>0, <1>2, <2>1, <2>6
    <3> QED
      BY <1>3, <2>7, <2>8, <2>9, <2>10, <2>13, <3>1
  <2>16. Hands(q)
    BY <1>1, <1>3, <2>4, <2>12, <2>14 DEF Hands
  <2>17. \A t \in Syncs : Hands(sync[t])'
    BY <2>15, <2>16, HandsGoOn
  <2> QED
    BY <2>2, <2>5, <2>17 DEF CostsNamed
<1>7. CASE MarkReconciled(s)
  <2>1. /\ bucket' = [bucket EXCEPT ![en.of.id].status = "reconciled"] /\ p.stage = "allocating"
        /\ sync' = [sync EXCEPT ![s].stage = "reconciling"] /\ UNCHANGED <<usage, allocations>>
    BY <1>0, <1>3, <1>7 DEF MarkReconciled, SyncAt
  <2>2. en.of.id \in Buckets
    BY <1>1, <1>3, <2>1 DEF IsWorking, IsEntry, There
  <2>3. \A b \in Buckets : bucket'[b].status \in {"none", "open", "needs_attention", "reconciled"}
    <3> SUFFICES ASSUME NEW b \in Buckets
                 PROVE  bucket'[b].status \in {"none", "open", "needs_attention", "reconciled"}
      OBVIOUS
    <3>1. \E x, y : bucket[b] = [status |-> x] \/ bucket[b] = [status |-> x, amount |-> y]
      BY <1>1 DEF CostTables, NoRow
    <3>2. [bucket[b] EXCEPT !.status = "reconciled"].status = "reconciled"
      BY <3>1
    <3>3. bucket'[b] = bucket[b] \/ bucket'[b] = [bucket[b] EXCEPT !.status = "reconciled"]
      BY <1>1, <2>1 DEF CostTables
    <3> QED
      BY <3>2, <3>3 DEF CostsNamed
  <2>4. PICK q : q = [p EXCEPT !.stage = "reconciling"]
    OBVIOUS
  <2>5. q.stage = "reconciling" /\ q.rows = ro /\ sync' = [sync EXCEPT ![s] = q]
    <3>1. q = [stage |-> "reconciling", range |-> ra, open |-> op, calm |-> ca, found |-> fo,
               days |-> da, rows |-> ro, buckets |-> bu, entry |-> en]
      BY <1>2, <2>4
    <3>2. q.stage = "reconciling" /\ q.rows = ro
      BY <3>1
    <3>3. sync' = [sync EXCEPT ![s] = [sync[s] EXCEPT !.stage = "reconciling"]]
      BY <2>1
    <3> QED
      BY <1>0, <2>4, <3>2, <3>3
  <2>6. Hands(q)
    BY <1>1, <1>3, <2>5 DEF Hands
  <2>7. \A t \in Syncs : Hands(sync[t])'
    BY <2>5, <2>6, HandsGoOn
  <2> QED
    BY <2>1, <2>3, <2>7 DEF CostsNamed
<1> QED
  BY <1>4, <1>5, <1>6, <1>7

LEMMA CostNamesStep ==
    ASSUME CostInv, CostsNamed, [CostNext]_costVars
    PROVE  CostsNamed'
<1>1. ASSUME UNCHANGED <<usage, bucket, allocations, sync>> PROVE CostsNamed'
  BY <1>1 DEF CostsNamed, Hands
<1>2. CASE UNCHANGED costVars
  BY <1>1, <1>2 DEF costVars
<1>3. ASSUME NEW m, NEW closed, ClosePeriod(m, closed) PROVE CostsNamed'
  BY <1>1, <1>3 DEF ClosePeriod
<1>4. ASSUME NEW b, NEW amount, Bill(b, amount) PROVE CostsNamed'
  BY <1>1, <1>4 DEF Bill
<1>5. ASSUME NEW d \in Days, NEW j \in UsageJobs, NEW n, PriceUsage(d, j, n) PROVE CostsNamed'
  <2>1. PICK old, total : usage' = [usage EXCEPT ![d] = (@ \ old) \cup {[job |-> j, amount |-> total]}]
    <3> DEFINE old == {u \in usage[d] : u.job = j}
               total == TotalOf(old) + n
    <3>1. usage' = [usage EXCEPT ![d] = (@ \ old) \cup {[job |-> j, amount |-> total]}]
      BY <1>5 DEF PriceUsage
    <3> HIDE DEF total, old
    <3> QED
      BY <3>1
  <2>2. PICK row : row = [job |-> j, amount |-> total]
    OBVIOUS
  <2>3. row.job = j
    BY <2>2
  <2>4. \A c \in Days : \A u \in usage'[c] : u.job \in UsageJobs
    BY <2>1, <2>2, <2>3 DEF CostInv, CostTables, CostsNamed
  <2>5. UNCHANGED <<bucket, allocations>> /\ sync' = Disturb(Syncs)
    BY <1>5 DEF PriceUsage
  <2>6. \A s \in Syncs : Hands(sync'[s])
    BY <2>5, DisturbedHands DEF CostsNamed
  <2>7. \A s \in Syncs : Hands(sync[s])'
    BY <2>6 DEF Hands
  <2> QED
    BY <2>4, <2>5, <2>7 DEF CostsNamed
<1> QED
  BY <1>2, <1>3, <1>4, <1>5, SyncNamesStep, WorkNamesStep DEF CostNext

LEMMA CostTypes == CostSpec => []CostTypeOK
<1>1. CostInit => CostsNamed
  <2> SUFFICES ASSUME CostInit PROVE CostsNamed
    OBVIOUS
  <2>1. \A b \in Buckets : bucket[b].status = "none"
    BY DEF CostInit, NoRow
  <2>2. \A s \in Syncs : sync[s].stage = "idle"
    BY DEF CostInit, Waiting
  <2>3. \A d \in Days : usage[d] = {}
    BY DEF CostInit
  <2>4. allocations = {}
    BY DEF CostInit
  <2> QED
    BY <2>1, <2>2, <2>3, <2>4 DEF CostsNamed, Hands
<1>2. CostInv /\ CostsNamed /\ [CostNext]_costVars => CostsNamed'
  BY CostNamesStep
<1>3. CostInv /\ CostsNamed => CostTypeOK
  <2> SUFFICES ASSUME CostInv, CostsNamed PROVE CostTypeOK
    OBVIOUS
  <2>1. CostTables
    BY DEF CostInv
  <2>2. DOMAIN bucket = Buckets
    BY <2>1 DEF CostTables
  <2>3. \A s \in Syncs : sync[s].stage \in {"idle", "fetching", "reconciling", "allocating", "over"}
    BY DEF CostInv, IsSync, IsFetching, IsWorking, Waiting
  <2> QED
    BY <2>1, <2>2, <2>3 DEF CostTypeOK, CostsNamed, CostTables
<1> QED
  BY <1>1, <1>2, <1>3, CostInvariant, PTL DEF CostSpec

-----------------------------------------------------------------------------
(* Every office keeps its types, whatever templates, requests, texts, keys,  *)
(* rates and bills it has to do with.  Beside the invariants above, it takes *)
(* what comes in: entries of forms (Entered), keys that were accepted        *)
(* (KeysKnown), the numbers of rates (RatesInv) and the jobs of estimates    *)
(* (CostsNamed).                                                             *)
THEOREM OfficesKeepTypes ==
    Spec /\ ReviewSpec /\ ProviderSpec /\ PricingSpec /\ CostSpec => []OfficeTypeOK
<1> DEFINE EligibleOK == eligible \subseteq Sources
<1>1. Spec => []EligibleOK
  <2>1. Init => EligibleOK
    BY DEF Init
  <2>2. EligibleOK /\ [Next]_vars => EligibleOK'
    <3> SUFFICES ASSUME EligibleOK, [Next]_vars PROVE EligibleOK'
      OBVIOUS
    <3>1. ASSUME NEW s \in Sources, ReviewSource(s) PROVE EligibleOK'
      BY <3>1 DEF ReviewSource
    <3>2. CASE UNCHANGED eligible
      BY <3>2
    <3>3. UNCHANGED eligible \/ \E s \in Sources : ReviewSource(s)
      BY DEF Next, vars, creationVars, LookForJob, FinishCreate, RecoverIdempotentCreate
    <3> QED
      BY <3>1, <3>2, <3>3
  <2> QED
    BY <2>1, <2>2, PTL DEF Spec
<1>2. IInv /\ EligibleOK /\ TemplatesTypeOK => TypeOK
  <2>1. Idle.phase = "idle"
    BY DEF Idle
  <2> QED
    BY <2>1 DEF IInv, Sent, TypeOK
<1>3. ReviewInv => ReviewTypeOK
  BY DEF ReviewInv, Reviewing
<1>4. Spec => []TemplatesTypeOK
  BY TemplatesWithin, TemplateTypes
<1> HIDE DEF EligibleOK
<1> QED
  BY <1>1, <1>2, <1>3, <1>4, Invariant, ReviewInvariant, ProviderTypes, PricingTypes, CostTypes,
     PTL DEF OfficeTypeOK
=============================================================================
