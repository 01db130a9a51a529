-------------------------- MODULE ContentTemplates --------------------------
(***************************************************************************)
(* The platform templates that content jobs are made from                   *)
(* (internal/ai/templates.go): a template has numbered versions, a version  *)
(* is edited as a draft, published, archived and restored.                  *)
(*                                                                         *)
(* Every operation locks its version, and all but those that touch a draft  *)
(* alone lock the template too, so each is one step: its plain reads come   *)
(* after the locks that matter.  A prompt is kept as what the checks see in *)
(* it; a configuration as the fields that are checked or used later.        *)
(***************************************************************************)
EXTENDS Naturals, Sequences, FiniteSets, FiniteSetsExt, SequencesExt

CONSTANTS
    Forms,          \* what users enter: names, a platform ("" is left blank), prompt, slots
    MaxTemplates,   \* bound: templates ever made
    MaxVersions     \* bound: versions ever made

ASSUME TemplateBoundsAssumption == MaxTemplates \in Nat /\ MaxVersions \in Nat

(* What users enter comes with a list of slots.                              *)
ASSUME FormsAssumption == \A form \in Forms : form.slots \in Seq(ToSet(form.slots))

VARIABLES
    templates,      \* the rows of ai_content_templates, in the order of their ids
    versions,       \* the rows of ai_content_template_versions with their slots
    publication     \* publication[v] : what version v said when it was published

templateVars == <<templates, versions, publication>>

Kinds == {"image", "title", "seo_description"}
Fields == {"candidate_count", "size", "quality", "style"}

(* The values the program knows for each field of a generation config.       *)
Supported(field) ==
    CASE field = "candidate_count" -> {"1", "2", "3", "4"}
      [] field = "size" -> {"1024x1024", "1536x1024", "1024x1536"}
      [] field = "quality" -> {"low", "medium", "high", "auto"}
      [] field = "style" -> {"studio", "outdoor"}

Unpublished == [published |-> FALSE]
Exists(row) == row.status # "deleted"
VersionsOf(t) == {v \in DOMAIN versions : versions[v].template = t /\ Exists(versions[v])}
WithStatus(t, s) == {v \in VersionsOf(t) : versions[v].status = s}

-----------------------------------------------------------------------------
(* What a version must be to be published *)

Prompts == {"", "plain", "secret", "unknown_variable"}
ASSUME EntriesAssumption ==   \* a name is there or not, and a prompt is one of these
    \A form \in Forms : form.named \in BOOLEAN /\ form.prompt \in Prompts
PromptValid(p, required) == p = "plain" \/ (p = "" /\ ~required)

(* An optional list is <<>> when it is absent and <<S>> when it is given.    *)
AllowListValid(slot, field) ==
    slot.allowed[field] # <<>> =>
        /\ slot.allowed[field][1] # {}
        /\ slot.allowed[field][1] \subseteq Supported(field)
        /\ field # "candidate_count" => slot.kind = "image"

DefaultStyleValid(slot) ==
    (slot.allowed["style"] # <<>> /\ slot.kind = "image")
        => slot.style \in slot.allowed["style"][1]

ViewsValid(slot) == slot.views # <<>> => "" \notin slot.views[1]

(* The safe area is given in tenths of the canvas.                           *)
SafeAreaValid(slot) ==
    slot.area # <<>> =>
        LET a == slot.area[1]
        IN  a.width > 0 /\ a.height > 0 /\ a.x + a.width <= 10 /\ a.y + a.height <= 10

SlotValid(slot, slots) ==
    /\ slot.key # "" /\ slot.kind \in Kinds /\ slot.named
    /\ slot.sequence \in 1..Len(slots)
    /\ \A other \in ToSet(slots) : other # slot =>
           other.key # slot.key /\ other.sequence # slot.sequence
    /\ PromptValid(slot.prompt, TRUE)
    /\ \A field \in Fields : AllowListValid(slot, field)
    /\ DefaultStyleValid(slot)
    /\ slot.extra # "malformed"
    /\ slot.kind = "image" => ViewsValid(slot) /\ slot.device # "malformed"
    /\ SafeAreaValid(slot)

ValidateTemplateVersion(version) ==
    /\ PromptValid(version.prompt, FALSE)
    /\ \A i \in DOMAIN version.slots : SlotValid(version.slots[i], version.slots)
    /\ Cardinality(ToSet(version.slots)) = Len(version.slots)

ValidateNames(template) == template.named /\ template.platform # ""

-----------------------------------------------------------------------------
(* The operations *)

(* Slots without numbers are numbered as they come; others are sorted, those *)
(* with one number as they come.                                             *)
PlaceOf(slots, i) ==
    Cardinality({j \in DOMAIN slots :
        \/ slots[j].sequence < slots[i].sequence
        \/ slots[j].sequence = slots[i].sequence /\ j <= i})
NormalizeSlots(slots) ==
    IF \E i \in DOMAIN slots : slots[i].sequence > 0
    THEN [n \in DOMAIN slots |-> slots[CHOOSE i \in DOMAIN slots : PlaceOf(slots, i) = n]]
    ELSE [i \in DOMAIN slots |-> [slots[i] EXCEPT !.sequence = i]]

NewVersion(t, number, form) ==
    [template |-> t, number |-> number, status |-> "draft", prompt |-> form.prompt,
     slots |-> NormalizeSlots(form.slots)]

AddVersion(version) ==
    /\ Len(versions) < MaxVersions
    /\ versions' = Append(versions, version)
    /\ publication' = Append(publication, Unpublished)

CreateTemplate(form) ==
    /\ Len(templates) < MaxTemplates
    /\ templates' = Append(templates, [named |-> form.named, platform |-> form.platform,
                                       status |-> "active"])
    /\ AddVersion(NewVersion(Len(templates) + 1, 1, form))

(* The names and the platform are the template's, and are changed with any   *)
(* of its drafts; a blank platform leaves the old one.                       *)
UpdateVersion(v, form) ==  \* mutant: whatever its status
    /\ versions' = [versions EXCEPT ![v].prompt = form.prompt,
                                    ![v].slots = NormalizeSlots(form.slots)]
    /\ UNCHANGED <<templates, publication>>
UpdateDraft(v, form) ==
    LET t == versions[v].template
    IN  /\ versions[v].status = "draft"
        /\ templates' = [templates EXCEPT ![t].named = form.named,
                             ![t].platform = IF form.platform = "" THEN @ ELSE form.platform]
        /\ versions' = [versions EXCEPT ![v].prompt = form.prompt,
                                        ![v].slots = NormalizeSlots(form.slots)]
        /\ UNCHANGED publication

Publish(v) ==
    LET t == versions[v].template
    IN  /\ versions[v].status = "draft"
        /\ ValidateNames(templates[t])
        /\ ValidateTemplateVersion(versions[v])
        /\ versions' = [versions EXCEPT ![v].status = "published"]
        /\ templates' = [templates EXCEPT ![t].status = "active"]
        /\ publication' = [publication EXCEPT ![v] =
               [published |-> TRUE, platform |-> templates[t].platform,
                number |-> versions[v].number,
                prompt |-> versions[v].prompt, slots |-> versions[v].slots]]

CopyVersion(v) ==
    LET t == versions[v].template
        number == Max({versions[w].number : w \in VersionsOf(t)}) + 1
    IN  /\ versions[v].status = "published"
        /\ WithStatus(t, "draft") = {}
        /\ AddVersion([versions[v] EXCEPT !.status = "draft", !.number = number])
        /\ UNCHANGED templates

ArchiveAlone(v) ==  \* mutant: the template goes with any of its versions
    /\ versions[v].status = "published"
    /\ versions' = [versions EXCEPT ![v].status = "archived"]
    /\ templates' = [templates EXCEPT ![versions[v].template].status = "archived"]
    /\ UNCHANGED publication
Archive(v) ==
    LET t == versions[v].template
    IN  /\ versions[v].status = "published"
        /\ versions' = [versions EXCEPT ![v].status = "archived"]
        /\ templates' = [templates EXCEPT ![t].status =
               IF WithStatus(t, "published") = {v} THEN "archived" ELSE "active"]
        /\ UNCHANGED publication

Restore(v) ==
    /\ versions[v].status = "archived"
    /\ versions' = [versions EXCEPT ![v].status = "published"]
    /\ templates' = [templates EXCEPT ![versions[v].template].status = "active"]
    /\ UNCHANGED publication

DeleteDraft(v) ==
    LET t == versions[v].template
    IN  /\ versions[v].status = "draft"
        /\ versions' = [versions EXCEPT ![v].status = "deleted"]
        /\ templates' = IF VersionsOf(t) = {v}
                        THEN [templates EXCEPT ![t].status = "deleted"] ELSE templates
        /\ UNCHANGED publication

TemplatesInit == templates = <<>> /\ versions = <<>> /\ publication = <<>>

TemplatesNext ==
    \/ \E form \in Forms : CreateTemplate(form)
    \/ \E v \in DOMAIN versions :
          \/ \E form \in Forms : UpdateDraft(v, form)
          \/ Publish(v) \/ CopyVersion(v) \/ Archive(v) \/ Restore(v) \/ DeleteDraft(v)

TemplatesSpec == TemplatesInit /\ [][TemplatesNext]_templateVars

-----------------------------------------------------------------------------
(* Properties *)

TemplatesTypeOK ==
    /\ Len(publication) = Len(versions)
    /\ \A t \in DOMAIN templates :
           /\ templates[t].named \in BOOLEAN
           /\ templates[t].platform \in {form.platform : form \in Forms}
           /\ templates[t].status \in {"active", "archived", "deleted"}
    /\ \A v \in DOMAIN versions :
           /\ versions[v].template \in DOMAIN templates
           /\ versions[v].status \in {"draft", "published", "archived", "deleted"}
           /\ versions[v].prompt \in Prompts

(* The template says of its versions what is true: it is archived just when  *)
(* it has had a publication and none is left, it has at most one draft, a    *)
(* number once, and it is gone when its last version is                      *)
(* (templates.go Publish, Archive, Restore and DeleteDraft, each of which    *)
(* locks the template or leaves it alone).                                   *)
TemplateShowsVersions ==
    \A t \in DOMAIN templates :
        /\ (templates[t].status = "deleted") <=> (VersionsOf(t) = {})
        /\ (templates[t].status = "archived") <=>
               (WithStatus(t, "published") = {} /\ WithStatus(t, "archived") # {})
        /\ Cardinality(WithStatus(t, "draft")) <= 1
        /\ \A v, w \in VersionsOf(t) :
               versions[v].number = versions[w].number => v = w

(* What was published stays as it was, in whatever state it is since, and    *)
(* would pass the checks again: no edit of a later draft reaches it.         *)
PublicationsStand ==
    \A v \in DOMAIN versions :
        (versions[v].status \in {"published", "archived"}) =
            publication[v].published
        /\ publication[v].published =>
              /\ versions[v].number = publication[v].number
              /\ versions[v].prompt = publication[v].prompt
              /\ versions[v].slots = publication[v].slots
              /\ ValidateTemplateVersion(versions[v])

(* Every template keeps the life cycle of versioned content.                 *)
TemplateShelf ==
    [v \in DOMAIN versions |->
        [parent |-> versions[v].template, status |-> versions[v].status,
         content |-> <<versions[v].prompt, versions[v].slots>>]]

Lifecycle == INSTANCE VersionLifecycle WITH Parents <- 1..MaxTemplates, shelf <- TemplateShelf

(* The abstract promise of VersionLifecycle holds of templates: one draft at *)
(* a time, edits of drafts alone, copies of what is published, and nothing   *)
(* that was published ever changes (templates.go, all the operations).       *)
TemplateLifecycle == Lifecycle!LifeSpec
=============================================================================
