---------------------------- MODULE AIReferences ----------------------------
(***************************************************************************)
(* The pictures that only inspire (internal/app/ai_reference_sops.go): the   *)
(* versions of one AI reference SOP with their items, and the uploads that   *)
(* bring the items.                                                          *)
(*                                                                         *)
(* An item's image lives in the bucket under a key of its own, and a copy of *)
(* a version names the same keys.  Requests are the sequences of statements  *)
(* the handlers run, and stop anywhere when the server does.                 *)
(***************************************************************************)
EXTENDS Naturals, Sequences, FiniteSets, Functions, SequencesExt, ProductMask

CONSTANTS
    Requests,       \* requests under way
    Tokens,         \* completion tokens of uploads
    Masks,          \* masks that come with pictures; {} for none
    Texts,          \* names and descriptions of a version
    MaxReferences,  \* bound: versions of the SOP
    MaxPictures     \* bound: images stored

NoToken == "none"
ASSUME TokenAssumption == NoToken \notin Tokens
ASSUME MaskAssumption == Masks \subseteq SUBSET Pixels

VARIABLES
    reference,      \* reference[v] : status, text, and the sort order of its items, by key
    token,          \* token[t] : state, version, mask, and whether its bytes arrived
    made,           \* made[k] : the token, the mask and the pixels of the image stored as k
    images,         \* keys whose image is in the bucket
    request         \* request[r] : how far it has come

refVars == <<reference, token, made, images, request>>

NoRequest == [stage |-> "idle"]
At(r, stage) == request[r].stage = stage
Goes(r, to) == request' = [request EXCEPT ![r] = to]
Ends(r) == Goes(r, NoRequest)
IsDraft(v) == reference[v].status = "draft"
DraftExists == \E v \in DOMAIN reference : IsDraft(v)

Items(v) == DOMAIN reference[v].items
NoItems == [key \in {} |-> 0]
NextOrder(items) == Max({items[k] : k \in DOMAIN items} \cup {0}) + 1
Adding(items, key) ==
    [k \in DOMAIN items \cup {key} |-> IF k = key THEN NextOrder(items) ELSE items[k]]
Dropping(items, key) == [k \in DOMAIN items \ {key} |-> items[k]]

-----------------------------------------------------------------------------
(* Versions *)

CreateReference(text) ==
    /\ reference = <<>>
    /\ reference' = << [status |-> "draft", text |-> text, items |-> NoItems] >>
    /\ UNCHANGED <<token, made, images, request>>

UpdateReference(v, text) ==
    /\ IsDraft(v) /\ reference' = [reference EXCEPT ![v].text = text]
    /\ UNCHANGED <<token, made, images, request>>

(* All reads of the copy come from the view its first one opens; the row is  *)
(* inserted if its number is still free, and the items as they were.         *)
CopyBegin(r, v) ==
    /\ At(r, "idle")
    /\ ~DraftExists
    /\ Goes(r, [stage |-> "copying", number |-> Len(reference) + 1,
                text |-> reference[v].text, items |-> reference[v].items])
    /\ UNCHANGED <<reference, token, made, images>>

NumberFree(r) == request[r].number = Len(reference) + 1 /\ Len(reference) < MaxReferences
CopyCommit(r) ==
    /\ At(r, "copying") /\ Ends(r)
    /\ reference' = IF NumberFree(r)
                    THEN Append(reference, [status |-> "draft", text |-> request[r].text,
                                            items |-> request[r].items])
                    ELSE reference
    /\ UNCHANGED <<token, made, images>>

Transition(v, from, to) ==
    /\ reference[v].status = from
    /\ to = "published" => Items(v) # {}
    /\ reference' = [reference EXCEPT ![v].status = to]
    /\ UNCHANGED <<token, made, images, request>>
PublishReference(v) == Transition(v, "draft", "published")
ArchiveReference(v) == Transition(v, "published", "archived")
RestoreReference(v) == Transition(v, "archived", "published")

-----------------------------------------------------------------------------
(* Items *)

IssueToken(t, v, mask) ==
    /\ token[t].state = "unused" /\ IsDraft(v)
    /\ token' = [token EXCEPT ![t] =
           [state |-> "issued", version |-> v, mask |-> mask, arrived |-> FALSE]]
    /\ UNCHANGED <<reference, made, images, request>>

PutPicture(t) ==     \* the browser sends the picture and its mask
    /\ token[t].state = "issued" /\ ~token[t].arrived
    /\ token' = [token EXCEPT ![t].arrived = TRUE]
    /\ UNCHANGED <<reference, made, images, request>>

(* A token that has expired is one that is not checked any more.            *)
CheckToken(r, t) ==
    /\ At(r, "idle")
    /\ token[t].state = "issued" /\ token[t].arrived /\ IsDraft(token[t].version)
    /\ token[t].mask = {} \/ Usable(token[t].mask)
    /\ Goes(r, [stage |-> "checked", token |-> t, version |-> token[t].version,
                mask |-> token[t].mask])
    /\ UNCHANGED <<reference, token, made, images>>

UnclaimedAny(t) == TRUE  \* mutant: whether or not it is consumed
Unclaimed(t) == token[t].state # "consumed"
ClaimToken(r) ==
    /\ At(r, "checked")
    /\ IF Unclaimed(request[r].token)
       THEN /\ Goes(r, [request[r] EXCEPT !.stage = "claimed"])
            /\ token' = [token EXCEPT ![request[r].token].state = "consumed"]
       ELSE Ends(r) /\ UNCHANGED token
    /\ UNCHANGED <<reference, made, images>>

(* A picture may also come with the form; there is no token to claim then,  *)
(* and the version is looked at only when the row is inserted.               *)
AddItem(r, v, mask) ==
    /\ At(r, "idle")
    /\ mask = {} \/ Usable(mask)
    /\ Goes(r, [stage |-> "claimed", token |-> NoToken, version |-> v, mask |-> mask])
    /\ UNCHANGED <<reference, token, made, images>>

GiveBack(t) ==
    token' = IF t = NoToken THEN token
             ELSE [token EXCEPT ![t].state = "issued"]

(* Image, thumbnail and mask are stored one after the other.  When one fails *)
(* the token is given back.                                                 *)
Store(r) ==
    LET key == Len(made) + 1
    IN  /\ At(r, "claimed") /\ Len(made) < MaxPictures
        /\ made' = Append(made, [token |-> request[r].token, mask |-> request[r].mask,
                                 shown |-> Retained(request[r].mask)])
        /\ images' = images \cup {key}
        /\ Goes(r, [stage |-> "stored", token |-> request[r].token,
                    version |-> request[r].version, key |-> key])
        /\ UNCHANGED <<reference, token>>
StoreFails(r) ==
    /\ At(r, "claimed") /\ Ends(r)
    /\ GiveBack(request[r].token)
    /\ UNCHANGED <<reference, made, images>>

(* The row, under a lock on the draft.  If there is no draft any more, an    *)
(* upload removes what it stored and gives its token back.                  *)
InsertItem(r) ==
    LET v == request[r].version
        t == request[r].token
        key == request[r].key
    IN  /\ At(r, "stored") /\ Ends(r)
        /\ IF IsDraft(v)
           THEN /\ reference' = [reference EXCEPT ![v].items = Adding(@, key)]
                /\ UNCHANGED <<token, images>>
           ELSE /\ GiveBack(t)
                /\ images' = IF t = NoToken THEN images ELSE images \ {key}
                /\ UNCHANGED reference
        /\ UNCHANGED <<made>>

(* Neither the deletion of an item nor a new order locks the version they    *)
(* have seen to be a draft.                                                  *)
FindItem(r, v, key) ==
    /\ At(r, "idle") /\ IsDraft(v) /\ key \in Items(v)
    /\ Goes(r, [stage |-> "found", version |-> v, key |-> key])
    /\ UNCHANGED <<reference, token, made, images>>
DeleteRow(r) ==
    LET v == request[r].version
        key == request[r].key
    IN  /\ At(r, "found")
        /\ IF key \in Items(v)
           THEN /\ reference' = [reference EXCEPT ![v].items = Dropping(@, key)]
                /\ Goes(r, [request[r] EXCEPT !.stage = "deleted"])
           ELSE Ends(r) /\ UNCHANGED reference
        /\ UNCHANGED <<token, made, images>>
DeleteObjects(r) ==
    /\ At(r, "deleted") /\ Ends(r)
    /\ images' = images \ {request[r].key}
    /\ UNCHANGED <<reference, token, made>>

Orders(v) == {order \in [Items(v) -> 1..Cardinality(Items(v))] : IsInjective(order)}
ReorderBegin(r, v, order) ==
    /\ At(r, "idle") /\ IsDraft(v) /\ Items(v) # {}
    /\ Goes(r, [stage |-> "ordering", version |-> v, order |-> order])
    /\ UNCHANGED <<reference, token, made, images>>

(* Rows that came or went meanwhile stay where they are; if one of them has  *)
(* the place of another, the unique index refuses the order.                 *)
ReorderCommit(r) ==
    LET v == request[r].version
        order == request[r].order
        rows == reference[v].items
        moved == [k \in DOMAIN rows |-> IF k \in DOMAIN order THEN order[k] ELSE rows[k]]
    IN  /\ At(r, "ordering") /\ Ends(r)
        /\ reference' = IF IsInjective(moved)
                        THEN [reference EXCEPT ![v].items = moved]
                        ELSE reference
        /\ UNCHANGED <<token, made, images>>

StopRequest(r) ==     \* the server stops between two statements
    /\ ~At(r, "idle") /\ Ends(r)
    /\ UNCHANGED <<reference, token, made, images>>

-----------------------------------------------------------------------------

RefInit ==
    /\ reference = <<>>
    /\ token = [t \in Tokens |-> [state |-> "unused"]]
    /\ made = <<>> /\ images = {}
    /\ request = [r \in Requests |-> NoRequest]

RefNext ==
    \/ \E text \in Texts : CreateReference(text)
    \/ \E v \in DOMAIN reference :
          \/ \E text \in Texts : UpdateReference(v, text)
          \/ PublishReference(v) \/ ArchiveReference(v) \/ RestoreReference(v)
          \/ \E t \in Tokens, mask \in Masks : IssueToken(t, v, mask)
          \/ \E r \in Requests :
                \/ CopyBegin(r, v)
                \/ \E order \in Orders(v) : ReorderBegin(r, v, order)
                \/ \E mask \in Masks : AddItem(r, v, mask)
                \/ \E key \in DOMAIN made : FindItem(r, v, key)
    \/ \E t \in Tokens : PutPicture(t)
    \/ \E r \in Requests :
          \/ CopyCommit(r) \/ ReorderCommit(r)
          \/ \E t \in Tokens : CheckToken(r, t)
          \/ ClaimToken(r) \/ Store(r) \/ StoreFails(r) \/ InsertItem(r)
          \/ DeleteRow(r) \/ DeleteObjects(r) \/ StopRequest(r)

RefSpec == RefInit /\ [][RefNext]_refVars

-----------------------------------------------------------------------------
(* Properties *)

RefTypeOK ==
    /\ \A v \in DOMAIN reference :
           /\ reference[v].status \in {"draft", "published", "archived"}
           /\ reference[v].text \in Texts
           /\ Items(v) \subseteq DOMAIN made
    /\ \A t \in DOMAIN token : token[t].state \in {"unused", "issued", "consumed"}
    /\ images \subseteq DOMAIN made
    /\ \A r \in DOMAIN request : request[r].stage \in {"idle", "checked", "claimed", "stored", "found",
                               "deleted", "ordering", "copying"}

(* Copies that start together never leave the SOP with two drafts, although  *)
(* none locks anything: each counts drafts and versions in one view, and the *)
(* numbers are unique (ai_reference_sops.go copyAIReferenceSOPVersion).      *)
OneReferenceDraft ==
    \A v, w \in DOMAIN reference : IsDraft(v) /\ IsDraft(w) => v = w

(* A completion token brings one item, however often it is sent, given back  *)
(* or interrupted (ai_reference_sops.go completeAIReferenceItemUpload).      *)
TokenBringsOneItem ==
    \A a, b \in UNION {Items(v) : v \in DOMAIN reference} :
        made[a].token = made[b].token => a = b \/ made[a].token = NoToken

(* There is one of each: one draft of the SOP, and one item for a token.    *)
ReferencesAreSingle == OneReferenceDraft /\ TokenBringsOneItem

(* What is stored of a masked picture leaves out every masked pixel and the  *)
(* outline of the product, and is not empty                                  *)
(* (reference_grants.go neutralizeMaskedProduct).                            *)
DerivativesHideProduct ==
    \A d \in ToSet(made) :
        /\ d.shown # {} /\ d.shown \cap d.mask = {}
        /\ \A p \in d.shown, a, b \in d.mask :
               ~(p[1] \in a[1]..b[1] /\ \E e, f \in d.mask : p[2] \in e[2]..f[2])

(* A published version is immutable, so its images can be shown (the         *)
(* publish operation of api/openapi.yaml).                                   *)
PublishedItemsShow ==
    \A v \in DOMAIN reference : reference[v].status = "published" => Items(v) \subseteq images
=============================================================================
