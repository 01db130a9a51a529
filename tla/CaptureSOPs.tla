----------------------------- MODULE CaptureSOPs -----------------------------
(***************************************************************************)
(* The versions of one capture SOP (internal/app/sop_service.go and          *)
(* sop_handlers.go): the views of a draft, their reference images, and the   *)
(* uploads that bring them.                                                  *)
(*                                                                         *)
(* Every change of a draft locks its version row, so it is one step, and     *)
(* must name the revision its editor has read: the time stamp of the row.    *)
(* Reading is two steps, the row and then the views.  An uploaded image is   *)
(* added in four: the ticket is checked, claimed, the object is moved to its *)
(* place, and the row is inserted.                                           *)
(***************************************************************************)
EXTENDS Naturals, Sequences, FiniteSets, Functions, SequencesExt, FiniteSetsExt

CONSTANTS
    Editors,        \* pages that hold a version for editing
    Uploads,        \* requests that add a reference image
    Tickets,        \* upload tickets
    ViewForms,      \* what editors enter for a view: its role, soundness and allow_multiple
    MaxVersions,    \* bound: versions
    MaxViews,       \* bound: views ever added
    MaxTime,        \* bound: ms of the server's clock
    MaxRevision,    \* bound: stamps of a draft
    MaxKeys         \* bound: objects stored

VARIABLES
    version,        \* version[v] : status, revision and views
    now,            \* the server's clock, in ms
    page,           \* page[e] : the version an editor sees, its revision and views
    ticket,         \* ticket[t] : unused, issued, consumed or expired, its view and its object
    upload,         \* upload[u] : how far the request has come
    objects,        \* final objects in the bucket
    stored          \* objects and views made so far

sopVars == <<version, now, page, ticket, upload, objects, stored>>

RefFront == "reference_front"
ViewIds == 0..MaxViews
View(form, sequence) ==
    [role |-> form.role, sound |-> form.sound, multiple |-> form.multiple,
     sequence |-> sequence, images |-> <<>>]
FrontView == View([role |-> RefFront, sound |-> TRUE, multiple |-> FALSE], 1)
NoPage == [stage |-> "away"]
Idle == [stage |-> "idle"]

(* Stamps are kept in milliseconds; a second change in the same millisecond  *)
(* takes the next one.                                                       *)
StampNow(revision) == now  \* mutant: the time of the change
NextRevision(revision) == Max({now, revision + 1})

Before(views, id) ==
    {other \in DOMAIN views : views[other].sequence <= views[id].sequence}
InOrder(views) ==   \* places without gaps, in the order of the sequences
    [id \in DOMAIN views |-> Cardinality(Before(views, id))]
ViewOrders(views) == Bijection(DOMAIN views, 1..Cardinality(DOMAIN views))
ApplyOrder(views, order) ==
    [id \in DOMAIN views |-> [views[id] EXCEPT !.sequence = order[id]]]
Without(views, id) == [other \in DOMAIN views \ {id} |-> views[other]]

MayEditAny(e) ==  \* mutant: whatever the status
    LET v == page[e].version
    IN  /\ page[e].stage = "ready"
        /\ version[v].revision = page[e].revision
        /\ version[v].revision < MaxRevision
MayEdit(e) ==
    LET v == page[e].version
    IN  /\ page[e].stage = "ready"
        /\ version[v].status = "draft"
        /\ version[v].revision = page[e].revision
        /\ version[v].revision < MaxRevision

(* The views of the page's version change, and with them its revision.  The  *)
(* editor's page is stale until it has read the answer.                      *)
ChangeViews(v, views) ==
    version' = [version EXCEPT ![v].views = views, ![v].revision = NextRevision(@)]

EditViews(e, views) ==
    /\ ChangeViews(page[e].version, views)
    /\ page' = [page EXCEPT ![e] = NoPage]
    /\ UNCHANGED <<now, ticket, upload, objects>>

ViewsOf(e) == version[page[e].version].views

-----------------------------------------------------------------------------
(* Reading *)

ReadRow(e, v) ==
    /\ page[e].stage = "away"
    /\ page' = [page EXCEPT ![e] =
           [stage |-> "row", version |-> v, revision |-> version[v].revision]]
    /\ UNCHANGED <<version, now, ticket, upload, objects, stored>>

ReadViews(e) ==
    /\ page[e].stage = "row"
    /\ page' = [page EXCEPT ![e] =
           [stage |-> "ready", version |-> @.version, revision |-> @.revision,
            views |-> version[@.version].views]]
    /\ UNCHANGED <<version, now, ticket, upload, objects, stored>>

Leave(e) ==
    /\ page[e].stage # "away" /\ page' = [page EXCEPT ![e] = NoPage]
    /\ UNCHANGED <<version, now, ticket, upload, objects, stored>>

-----------------------------------------------------------------------------
(* The views of a draft *)

UpdateVersion(e) == MayEdit(e) /\ EditViews(e, ViewsOf(e)) /\ UNCHANGED stored

(* A view is added from a preset or from a custom form; only the role of the *)
(* front is refused here, the rest when the version is published.            *)
AddView(e, form) ==
    LET views == ViewsOf(e)
        sequence == Max({views[id].sequence : id \in DOMAIN views} \cup {0}) + 1
        id == stored.views + 1
    IN  /\ MayEdit(e) /\ form.role # RefFront
        /\ stored.views < MaxViews
        /\ EditViews(e, [other \in DOMAIN views \cup {id} |->
               IF other = id THEN View(form, sequence) ELSE views[other]])
        /\ stored' = [stored EXCEPT !.views = id]

(* The front keeps its role, kind and pose, and other views become capture   *)
(* views.  The handler does not hand allow_multiple on, so it is reset.      *)
UpdateView(e, id, form) ==
    LET views == ViewsOf(e)
        role == IF views[id].role = RefFront THEN RefFront ELSE "capture"
    IN  /\ MayEdit(e) /\ id \in DOMAIN views
        /\ EditViews(e, [views EXCEPT ![id].role = role, ![id].sound = form.sound,
                                      ![id].multiple = FALSE])
        /\ UNCHANGED stored

DeleteView(e, id) ==
    LET views == ViewsOf(e)
    IN  /\ MayEdit(e) /\ id \in DOMAIN views
        /\ views[id].role # RefFront
        /\ EditViews(e, ApplyOrder(Without(views, id), InOrder(Without(views, id))))
        /\ UNCHANGED stored

Reorder(e) ==
    LET views == ViewsOf(e)
    IN  /\ MayEdit(e)
        /\ \E order \in ViewOrders(views) :
               /\ \E id \in DOMAIN views : order[id] = 1 /\ views[id].role = RefFront
               /\ EditViews(e, ApplyOrder(views, order))
        /\ UNCHANGED stored

-----------------------------------------------------------------------------
(* The life of a version *)

CreateSOP ==           \* the SOP with its first draft, which has the reference front
    /\ version = <<>>
    /\ version' = << [status |-> "draft", revision |-> now, views |-> [id \in {0} |-> FrontView]] >>
    /\ UNCHANGED <<now, page, ticket, upload, objects, stored>>

(* sop.ValidateVersion: one sound front, first; sequences 1 to n.            *)
ValidateVersion(views) ==
    /\ Cardinality({id \in DOMAIN views : views[id].role = RefFront}) = 1
    /\ {views[id].sequence : id \in DOMAIN views} = 1..Cardinality(DOMAIN views)
    /\ \A id \in DOMAIN views :
           /\ views[id].role \in {RefFront, "capture"} /\ views[id].sound
           /\ views[id].role = RefFront => views[id].sequence = 1

Publish(e) ==
    LET v == page[e].version
    IN  /\ MayEdit(e)
        /\ ValidateVersion(version[v].views)
        /\ version' = [version EXCEPT ![v].status = "published",
                                      ![v].revision = NextRevision(@)]
        /\ page' = [page EXCEPT ![e] = NoPage]
        /\ UNCHANGED <<now, ticket, upload, objects, stored>>

(* A copy shares the objects of its source's images.  It takes new rows for  *)
(* its views, which the model may give the ids of the source's.              *)
CopyVersion(v) ==
    /\ version[v].status = "published"
    /\ \A w \in DOMAIN version : version[w].status # "draft"
    /\ Len(version) < MaxVersions
    /\ version' = Append(version, [version[v] EXCEPT !.status = "draft", !.revision = now])
    /\ UNCHANGED <<now, page, ticket, upload, objects, stored>>

Archive(v) ==
    /\ version[v].status = "published"
    /\ version' = [version EXCEPT ![v].status = "archived", ![v].revision = now]
    /\ UNCHANGED <<now, page, ticket, upload, objects, stored>>
Restore(v) ==
    /\ version[v].status = "archived"
    /\ version' = [version EXCEPT ![v].status = "published", ![v].revision = now]
    /\ UNCHANGED <<now, page, ticket, upload, objects, stored>>

Tick ==
    /\ now < MaxTime /\ now' = now + 1
    /\ UNCHANGED <<version, page, ticket, upload, objects, stored>>

-----------------------------------------------------------------------------
(* Reference images *)

DraftView(v, id) == version[v].status = "draft" /\ id \in DOMAIN version[v].views

IssueTicket(t, v, id) ==
    /\ ticket[t].state = "unused" /\ DraftView(v, id)
    /\ ticket' = [ticket EXCEPT ![t] =
           [state |-> "issued", version |-> v, view |-> id, object |-> FALSE]]
    /\ UNCHANGED <<version, now, page, upload, objects, stored>>

PutObject(t) ==     \* the browser sends the bytes to the ticket's temporary key
    /\ ticket[t].state # "unused" /\ ~ticket[t].object
    /\ ticket' = [ticket EXCEPT ![t].object = TRUE]
    /\ UNCHANGED <<version, now, page, upload, objects, stored>>

(* The ticket is looked up and its object read and validated.                *)
CheckTicket(u, e, t) ==
    /\ upload[u].stage = "idle" /\ page[e].stage = "ready"
    /\ ticket[t].state = "issued" /\ ticket[t].object
    /\ ticket[t].version = page[e].version
    /\ DraftView(ticket[t].version, ticket[t].view)
    /\ upload' = [upload EXCEPT ![u] =
           [stage |-> "checked", ticket |-> t, revision |-> page[e].revision]]
    /\ page' = [page EXCEPT ![e] = NoPage]
    /\ UNCHANGED <<version, now, ticket, objects, stored>>

ClaimTicket(u) ==
    /\ upload[u].stage = "checked"
    /\ IF ticket[upload[u].ticket].state # "consumed"
       THEN /\ upload' = [upload EXCEPT ![u].stage = "claimed"]
            /\ ticket' = [ticket EXCEPT ![upload[u].ticket].state = "consumed"]
       ELSE upload' = [upload EXCEPT ![u] = Idle] /\ UNCHANGED ticket
    /\ UNCHANGED <<version, now, page, objects, stored>>

(* promoteSource writes the final object and removes the temporary one.  If  *)
(* either fails the ticket is given back; the object may be there already.   *)
Promote(u) ==
    LET t == upload[u].ticket
        key == [ticket |-> t, number |-> stored.keys + 1]
    IN  /\ upload[u].stage = "claimed" /\ stored.keys < MaxKeys
        /\ stored' = [stored EXCEPT !.keys = @ + 1]
        /\ \/ /\ objects' = objects \cup {key}
              /\ ticket' = [ticket EXCEPT ![t].object = FALSE]
              /\ upload' = [upload EXCEPT ![u] = [stage |-> "promoted", ticket |-> t,
                                revision |-> @.revision, key |-> key]]
           \/ /\ objects' \in {objects, objects \cup {key}}
              /\ ticket' = [ticket EXCEPT ![t].state = "issued"]
              /\ upload' = [upload EXCEPT ![u] = Idle]
        /\ UNCHANGED <<version, now, page>>

(* The row, at any place among the images of its view; if the draft has gone *)
(* on meanwhile, the object is removed and the ticket stays consumed.        *)
AddReferenceImage(u) ==
    LET t == upload[u].ticket
        v == ticket[t].version
        id == ticket[t].view
        key == upload[u].key
    IN  /\ upload[u].stage = "promoted"
        /\ upload' = [upload EXCEPT ![u] = Idle]
        /\ IF DraftView(v, id) /\ version[v].revision = upload[u].revision
           THEN /\ version[v].revision < MaxRevision
                /\ \E place \in 1..(Len(version[v].views[id].images) + 1) :
                       ChangeViews(v, [version[v].views EXCEPT ![id].images =
                                           InsertAt(@, place, key)])
                /\ UNCHANGED objects
           ELSE objects' = objects \ {key} /\ UNCHANGED version
        /\ UNCHANGED <<now, page, ticket, stored>>

(* Copies of the version show the same object, so it stays in the bucket.    *)
DropImage(e, id, place) ==
    LET views == ViewsOf(e)
    IN  /\ MayEdit(e) /\ id \in DOMAIN views /\ place \in DOMAIN views[id].images
        /\ ChangeViews(page[e].version, [views EXCEPT ![id].images = RemoveAt(@, place)])
        /\ page' = [page EXCEPT ![e] = NoPage]
        /\ UNCHANGED <<now, ticket, upload, stored>>
DeleteReferenceImage(e, id, place) == DropImage(e, id, place) /\ UNCHANGED objects

ReorderReferenceImages(e, id) ==
    LET views == ViewsOf(e)
    IN  /\ MayEdit(e) /\ id \in DOMAIN views
        /\ EditViews(e, [views EXCEPT ![id].images = Reverse(@)])
        /\ UNCHANGED stored

Expire(t) ==
    /\ ticket[t].state = "issued" /\ ticket' = [ticket EXCEPT ![t].state = "expired"]
    /\ UNCHANGED <<version, now, page, upload, objects, stored>>

Crash(u) ==     \* the server stops between two steps of a request
    /\ upload[u].stage # "idle" /\ upload' = [upload EXCEPT ![u] = Idle]
    /\ UNCHANGED <<version, now, page, ticket, objects, stored>>

-----------------------------------------------------------------------------

SOPInit ==
    /\ version = <<>>
    /\ now = 0
    /\ page = [e \in Editors |-> NoPage]
    /\ ticket = [t \in Tickets |-> [state |-> "unused"]]
    /\ upload = [u \in Uploads |-> Idle]
    /\ objects = {}
    /\ stored = [views |-> 0, keys |-> 0]

SOPNext ==
    \/ \E e \in Editors :
          \/ \E v \in DOMAIN version : ReadRow(e, v)
          \/ ReadViews(e) \/ Leave(e) \/ UpdateVersion(e) \/ Reorder(e) \/ Publish(e)
          \/ \E form \in ViewForms : AddView(e, form)
          \/ \E id \in ViewIds, form \in ViewForms : UpdateView(e, id, form)
          \/ \E id \in ViewIds : DeleteView(e, id) \/ ReorderReferenceImages(e, id)
          \/ \E id \in ViewIds, place \in 1..MaxKeys : DeleteReferenceImage(e, id, place)
          \/ \E u \in Uploads, t \in Tickets : CheckTicket(u, e, t)
    \/ CreateSOP
    \/ \E v \in DOMAIN version : CopyVersion(v) \/ Archive(v) \/ Restore(v)
    \/ \E t \in Tickets :
          \/ \E v \in DOMAIN version, id \in ViewIds : IssueTicket(t, v, id)
          \/ PutObject(t) \/ Expire(t)
    \/ \E u \in Uploads : ClaimTicket(u) \/ Promote(u) \/ AddReferenceImage(u) \/ Crash(u)
    \/ Tick

SOPSpec == SOPInit /\ [][SOPNext]_sopVars

-----------------------------------------------------------------------------
(* Properties *)

Keys == [ticket : DOMAIN ticket, number : 1..stored.keys]
ImagesOf(v) == UNION {ToSet(version[v].views[id].images) : id \in DOMAIN version[v].views}

(* Views and images have the numbers that were given so far.                 *)
SOPTypeOK ==
    /\ \A v \in DOMAIN version :
           /\ version[v].status \in {"draft", "published", "archived"}
           /\ version[v].revision \in Nat
           /\ DOMAIN version[v].views \subseteq 0..stored.views
           /\ ImagesOf(v) \subseteq Keys
    /\ \A e \in DOMAIN page : page[e].stage \in {"away", "row", "ready"}
    /\ \A t \in DOMAIN ticket : ticket[t].state \in {"unused", "issued", "consumed", "expired"}
    /\ \A u \in DOMAIN upload : upload[u].stage \in {"idle", "checked", "claimed", "promoted"}
    /\ objects \subseteq Keys

(* A page whose revision is still the draft's shows the views the draft has, *)
(* so an accepted change was made by somebody who had seen every change      *)
(* before it, however fast they follow each other                            *)
(* (sop_service.go requireSOPRevision, nextSOPRevision).                     *)
RevisionNamesViews ==
    \A e \in DOMAIN page : LET v == page[e].version IN
        (/\ page[e].stage = "ready" /\ version[v].status = "draft"
         /\ page[e].revision = version[v].revision)
        => page[e].views = version[v].views

(* However views were added, deleted and reordered, the front comes first    *)
(* and the sequences leave no gap (sop_service.go applyViewOrder).           *)
ViewsStayInOrder ==
    \A v \in DOMAIN version : LET views == version[v].views IN
        /\ {views[id].sequence : id \in DOMAIN views} = 1..Cardinality(DOMAIN views)
        /\ \A id \in DOMAIN views : views[id].role = RefFront <=> views[id].sequence = 1

(* Every image a version shows is in the bucket, in copies too, and no       *)
(* ticket brought two images (sop_handlers.go addSOPReferenceImage and       *)
(* deleteSOPReferenceImage).                                                 *)
ImagesAreStoredOnce ==
    /\ \A v \in DOMAIN version : ImagesOf(v) \subseteq objects
    /\ \A a, b \in UNION {ImagesOf(v) : v \in DOMAIN version} :
           a.ticket = b.ticket => a = b

(* Whoever edits and uploads beside whom, a SOP stays whole: an up-to-date   *)
(* page shows the draft, its views are numbered without a gap, the front     *)
(* first, and every image is stored.                                         *)
SOPsStayWhole == RevisionNamesViews /\ ViewsStayInOrder /\ ImagesAreStoredOnce

(* An editor who asks for several photos of a view gets them                 *)
(* (api/openapi.yaml, the request of the view's PATCH).                      *)
UpdateKeepsMultiple ==
    [][\A e \in Editors, id \in ViewIds, form \in ViewForms :
          UpdateView(e, id, form) =>
              version'[page[e].version].views[id].multiple = form.multiple]_sopVars

(* The versions live as VersionLifecycle says; the views are their content.  *)
SopShelf ==
    [v \in DOMAIN version |->
        [parent |-> "sop", status |-> version[v].status, content |-> version[v].views]]

SopLife == INSTANCE VersionLifecycle WITH Parents <- {"sop"}, shelf <- SopShelf

(* The abstract promise of VersionLifecycle holds of capture SOPs: late      *)
(* edits and uploads never reach a published version, and two copies that    *)
(* start together leave one draft (sop_service.go).                          *)
SOPLifecycle == SopLife!LifeSpec
=============================================================================
