---------------------------- MODULE JobCreation -----------------------------
(***************************************************************************)
(* How a content job is made from a published template                      *)
(* (internal/ai/jobs.go Create, answered by internal/app/ai_handlers.go):   *)
(* a request with an idempotency key is checked against the template, the   *)
(* photographs, references and icons it selects, and frozen into a job.     *)
(*                                                                         *)
(* The transaction is two steps, for it reads two states of the database.   *)
(* LookForJob finds no job under the key, locks the gap and opens the read  *)
(* view; FinishCreate locks the version, the photographs and the capture    *)
(* SOP as they are by then.  Slots and template come from the old view.     *)
(***************************************************************************)
EXTENDS ContentTemplates

CONSTANTS
    Clients,        \* callers; each sends one request
    Requests,       \* what they may ask for
    Sources,        \* photographs, grants, icons, references and capture SOPs
    MaxToggles      \* bound: reviews and withdrawals of a source

ASSUME RequestsAssumption ==
    \A r \in Requests :
        r = [key |-> r.key, version |-> r.version, slots |-> r.slots, sources |-> r.sources,
             canvases |-> r.canvases, overrides |-> r.overrides,
             preference |-> r.preference, device |-> r.device]

(* What can be overridden is a field of the configuration.                   *)
ASSUME OverridesAssumption == \A r \in Requests : \A o \in r.overrides : o.field \in Fields

VARIABLES
    eligible,       \* the sources that a job may use at present
    toggles,        \* reviews and withdrawals so far
    creating,       \* creating[c] : where the request of client c is
    jobs            \* the jobs, in the order of their ids

creationVars == <<eligible, toggles, creating, jobs>>
vars == <<templateVars, creationVars>>

Idle == [phase |-> "idle"]
OfKind(sources, kinds) == {s \in sources : s.kind \in kinds}
Assets(sources) == OfKind(sources, {"visual", "information"})

-----------------------------------------------------------------------------
(* The checks of a request *)

(* The same request is the same apart from the key: sets are sorted and made *)
(* unique before they are hashed.                                            *)
RequestHash(r) == [field \in DOMAIN r \ {"key"} |-> r[field]]

(* The first slot with each key: a draft may have several with one.          *)
FirstOfKey(slots, i) == \A j \in 1..(i - 1) : slots[j].key # slots[i].key
SelectJobSlots(slots, keys) ==
    {slots[i] : i \in {k \in DOMAIN slots : slots[k].key \in keys /\ FirstOfKey(slots, k)}}
KeysOf(slots) == {s.key : s \in slots}
HasImageSlot(slots) == \E s \in slots : s.kind = "image"
ImageKeys(slots) == KeysOf({s \in slots : s.kind = "image"})

DeviceMissing(slots, r) == ~r.device /\ \E s \in slots : s.device = "yes"
PreferenceUnreadable(slots, r) == r.preference /\ \E s \in slots : s.extra = "malformed"
PreferenceRefused(slots, r) == r.preference /\ \E s \in slots : s.extra # "yes"

(* An override is refused, or the template is blamed for its list; overrides *)
(* are looked at in any order.                                               *)
RuntimeListValid(slot, field) ==
    /\ slot.allowed[field] # <<>>
    /\ slot.allowed[field][1] # {} /\ slot.allowed[field][1] \subseteq Supported(field)
OverrideUnknown(slots, o) ==
    \/ \A s \in slots : s.key # o.slot
    \/ o.value \notin Supported(o.field)
    \/ \E s \in slots :
           s.key = o.slot /\ s.kind # "image" /\ o.field # "candidate_count"
ListUnusable(slots, o) ==
    \E s \in slots : s.key = o.slot /\ ~RuntimeListValid(s, o.field)
OverrideRefused(slots, o) ==
    \E s \in slots :
        s.key = o.slot /\ RuntimeListValid(s, o.field) /\ o.value \notin s.allowed[o.field][1]

(* Canvases paint several image slots at once; together they paint them all. *)
(* What a canvas overrides is checked as for its first slot, and left out.   *)
CanvasesRefused(slots, r) ==
    /\ r.canvases # <<>>
    /\ \/ \E c \in ToSet(r.canvases) : c.slots = {} \/ ~(c.slots \subseteq ImageKeys(slots))
       \/ UNION {c.slots : c \in ToSet(r.canvases)} # ImageKeys(slots)

(* A picture needs a photograph of the product and each view it asks for.    *)
AssetsRefused(r) == ~(Assets(r.sources) \subseteq eligible)
ViewsUnreadable(slots) == \E s \in slots : s.kind = "image" /\ ~ViewsValid(s)
PhotographsNone(slots, assets) ==   \* mutant: any photograph will do
    OfKind(assets, {"visual"}) = {} /\ \E s \in slots : s.kind = "image"
PhotographsMissing(slots, assets) ==
    LET visual == OfKind(assets, {"visual"})
    IN  \E s \in slots :
            /\ s.kind = "image"
            /\ \/ visual = {}
               \/ s.views # <<>> /\ ~(s.views[1] \subseteq {a.view : a \in visual})
SOPMissing == OfKind(eligible, {"sop"}) = {}

(* What goes into pictures is not for jobs that paint none.                  *)
PicturesUnwanted(slots, r) ==
    ~HasImageSlot(slots) /\ OfKind(r.sources, {"style", "icon", "reference"}) # {}
ReferencesRefused(r, seen) == ~(OfKind(r.sources, {"reference", "copy"}) \subseteq seen)
IconsRefused(r, seen) == ~(OfKind(r.sources, {"icon"}) \subseteq seen)
StylesRefused(r, seen) == ~(OfKind(r.sources, {"style"}) \subseteq seen)

(* The first check that fails says why.  seen is the read view; the status   *)
(* of the version, the photographs and the capture SOP are read with locks.  *)
Checks(r, seen) ==
    LET slots == SelectJobSlots(seen.slots, r.slots)
        some(Fails(_, _)) == \E o \in r.overrides : Fails(slots, o)
        why(error, fails) == [error |-> error, fails |-> fails]
    IN  << why("not_found", ~Exists(versions[r.version])),
           why("lifecycle_conflict", versions[r.version].status # "published"),
           why("invalid_request", r.slots = {} \/ KeysOf(slots) # r.slots),
           why("device_model_required", DeviceMissing(slots, r)),
           why("configuration_invalid", PreferenceUnreadable(slots, r)),
           why("invalid_request", PreferenceRefused(slots, r) \/ some(OverrideUnknown)),
           why("configuration_invalid", some(ListUnusable)),
           why("invalid_request", some(OverrideRefused)),
           why("not_eligible", PicturesUnwanted(slots, r)),
           why("not_eligible", ReferencesRefused(r, seen.eligible)),
           why("invalid_request", CanvasesRefused(slots, r)),
           why("not_eligible", AssetsRefused(r)),
           why("configuration_invalid", ViewsUnreadable(slots)),
           why("not_eligible", PhotographsMissing(slots, Assets(r.sources))),
           why("not_eligible", SOPMissing),
           why("not_eligible", IconsRefused(r, seen.eligible)),
           why("not_eligible", StylesRefused(r, seen.eligible)) >>

Refusal(r, seen) ==
    LET checks == Checks(r, seen)
        failing == {i \in DOMAIN checks : checks[i].fails}
    IN  IF failing = {} THEN "" ELSE checks[Min(failing)].error

-----------------------------------------------------------------------------
(* The job *)

(* One item for a slot, one for a canvas; texts take the information sheets. *)
Alone(slots, r) == {s \in slots : s.kind # "image" \/ r.canvases = <<>>}
Inputs(kind, r) ==
    IF kind = "image" THEN Assets(r.sources) ELSE OfKind(r.sources, {"information"})
Items(slots, r) ==
    {[slots |-> {s.key}, canvas |-> 0, kind |-> s.kind, inputs |-> Inputs(s.kind, r)] :
        s \in Alone(slots, r)}
    \cup {[slots |-> r.canvases[i].slots, canvas |-> i, kind |-> "image",
            inputs |-> Inputs("image", r)] : i \in DOMAIN r.canvases}

Structures(slots, seen) ==
    IF HasImageSlot(slots) THEN OfKind(seen.eligible, {"structure"}) ELSE {}

NewJob(r, seen) ==
    LET slots == SelectJobSlots(seen.slots, r.slots)
    IN  [request |-> r, platform |-> seen.platform, prompt |-> versions[r.version].prompt,
         items |-> Items(slots, r), slots |-> slots,
         structures |-> Structures(slots, seen)]

WithKey(key) == {j \in DOMAIN jobs : jobs[j].request.key = key}
Answered(r, outcome, j) == [phase |-> "answered", request |-> r, outcome |-> outcome, job |-> j]

(* What a caller is told of a job that is there already.                     *)
ReplayAny(r) == Answered(r, "replayed", CHOOSE k \in WithKey(r.key) : TRUE)  \* mutant: no hash
ReplayOf(r) ==
    LET j == CHOOSE k \in WithKey(r.key) : TRUE
    IN  IF RequestHash(jobs[j].request) = RequestHash(r)
        THEN Answered(r, "replayed", j) ELSE Answered(r, "idempotency_conflict", 0)

Looked(c) == creating[c].phase = "looked"

LookForJob(c, r) ==
    /\ creating[c] = Idle
    /\ r.version \in DOMAIN versions
    /\ creating' = [creating EXCEPT ![c] =
           IF WithKey(r.key) # {} THEN ReplayOf(r)
           ELSE [phase |-> "looked", request |-> r,
                 seen |-> [slots |-> versions[r.version].slots, eligible |-> eligible,
                           platform |-> templates[versions[r.version].template].platform]]]
    /\ UNCHANGED <<eligible, toggles, jobs>>

(* A job is inserted when no other request locks the gap for its key; of two *)
(* that do, one is chosen as the victim of a deadlock.                       *)
FinishCreate(c) ==
    LET r == creating[c].request
        refusal == Refusal(r, creating[c].seen)
        rivals == {d \in Clients \ {c} : Looked(d)}
        gap == {d \in rivals : creating[d].request.key = r.key}
    IN  /\ Looked(c)
        /\ \/ /\ refusal # "" \/ rivals # {}
              /\ creating' = [creating EXCEPT ![c] =
                     [phase |-> "failed", request |-> r, seen |-> creating[c].seen,
                      outcome |-> IF refusal # "" THEN refusal ELSE "internal_error"]]
              /\ UNCHANGED jobs
           \/ /\ refusal = "" /\ gap = {} /\ WithKey(r.key) = {}
              /\ jobs' = Append(jobs, NewJob(r, creating[c].seen))
              /\ creating' = [creating EXCEPT ![c] = Answered(r, "created", Len(jobs) + 1)]
        /\ UNCHANGED <<eligible, toggles>>

RecoverIdempotentCreate(c) ==
    LET r == creating[c].request
    IN  /\ creating[c].phase = "failed"
        /\ creating' = [creating EXCEPT ![c] =
               IF WithKey(r.key) # {} THEN ReplayOf(r)
               ELSE [creating[c] EXCEPT !.phase = "refused"]]
        /\ UNCHANGED <<eligible, toggles, jobs>>

(* Reviews of photographs, grants and references, elsewhere in the program.  *)
ReviewSource(s) ==
    /\ toggles < MaxToggles
    /\ eligible' = IF s \in eligible THEN eligible \ {s} ELSE eligible \cup {s}
    /\ toggles' = toggles + 1
    /\ UNCHANGED <<creating, jobs>>

Init ==
    /\ TemplatesInit
    /\ eligible = Sources /\ toggles = 0
    /\ creating = [c \in Clients |-> Idle] /\ jobs = <<>>

Next ==
    \/ TemplatesNext /\ UNCHANGED creationVars
    \/ /\ \/ \E c \in Clients, r \in Requests : LookForJob(c, r)
          \/ \E c \in Clients : FinishCreate(c) \/ RecoverIdempotentCreate(c)
          \/ \E s \in Sources : ReviewSource(s)
       /\ UNCHANGED templateVars

Spec == Init /\ [][Next]_vars

-----------------------------------------------------------------------------
(* Properties *)

TypeOK ==
    /\ TemplatesTypeOK
    /\ eligible \subseteq Sources
    /\ \A c \in Clients : creating[c].phase \in {"idle", "looked", "failed", "refused", "answered"}
    /\ \A j \in DOMAIN jobs : jobs[j].request \in Requests

(* There is one job for a key, and everyone who is given it asked for what   *)
(* it is: two requests with one key at the same time, and a repetition after *)
(* a lost answer, lead to one job or a refusal (jobs.go Create and           *)
(* recoverIdempotentCreate).                                                 *)
OneJobPerKey ==
    /\ \A j, k \in DOMAIN jobs : jobs[j].request.key = jobs[k].request.key => j = k
    /\ \A c \in Clients :
           (creating[c].phase = "answered" /\ creating[c].outcome \in {"created", "replayed"})
               => jobs[creating[c].job].request = creating[c].request

(* An item has a photograph for a slot's picture, and one of every view that *)
(* the slot requires.                                                        *)
Photographed(slot, inputs) ==
    LET photos == OfKind(inputs, {"visual"})
    IN  /\ photos # {}
        /\ slot.views # <<>> => slot.views[1] \subseteq {a.view : a \in photos}

(* A job is made of what was asked: each slot is in an item, a text in one   *)
(* of its own, a picture in one that has photographs of each view its slot   *)
(* requires, although the slots are as the version had them before its row   *)
(* was locked (Create, resolveImageCanvases, validateImageSlotAssets).       *)
JobsCoverRequests ==
    \A j \in DOMAIN jobs :
        LET job == jobs[j]
        IN  /\ UNION {i.slots : i \in job.items} = job.request.slots
            /\ \A i \in job.items : i.kind # "image" => Cardinality(i.slots) = 1
            /\ \A i \in job.items, s \in job.slots :
                   s.key \in i.slots =>
                       /\ (s.kind = "image") = (i.kind = "image")
                       /\ s.kind = "image" => Photographed(s, i.inputs)
            /\ publication[job.request.version].published
            /\ job.prompt = publication[job.request.version].prompt

(* A template that was published is never the reason why a job cannot be     *)
(* made: the checks of publication in templates.go allow nothing that those  *)
(* of creation in jobs.go call an invalid configuration, except to override  *)
(* a field for which the template has no list.                               *)
PublishedIsUsable ==
    \A c \in Clients :
        LET r == creating[c].request
            slots == creating[c].seen.slots
        IN  /\ creating[c].phase = "refused"
            /\ creating[c].outcome = "configuration_invalid"
            /\ publication[r.version].slots = slots
            => \E o \in r.overrides, s \in ToSet(slots) :
                   s.key = o.slot /\ s.allowed[o.field] = <<>>

(* A job that is made serves its request, all of it, and a request is never  *)
(* refused for the configuration of the template it was published with, but  *)
(* for a missing list.  It may well be refused for other reasons: what it    *)
(* asks for, the photographs it brings, or another request with its key.     *)
JobsServeRequests == JobsCoverRequests /\ PublishedIsUsable

(* A job is for the platform its version was published for, and what it asks *)
(* for is what the publication says.  UpdateDraft breaks the first.          *)
PlatformIsPublished ==
    \A j \in DOMAIN jobs :
        jobs[j].platform = publication[jobs[j].request.version].platform
=============================================================================
