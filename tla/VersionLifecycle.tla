-------------------------- MODULE VersionLifecycle --------------------------
(***************************************************************************)
(* What every kind of versioned content of the system promises: content     *)
(* templates, capture SOPs and variant manifests.  A parent has at most one *)
(* draft.  A draft may be edited or deleted until it is published; what is  *)
(* published may be archived and restored but never changes, and a new      *)
(* draft is started from it, or from nothing.                               *)
(***************************************************************************)
EXTENDS Naturals, Sequences

CONSTANT Parents

VARIABLE shelf      \* all versions ever made, in order

HasDraft(p) == \E i \in DOMAIN shelf : shelf[i].parent = p /\ shelf[i].status = "draft"
NewDraft(p, c) == [parent |-> p, status |-> "draft", content |-> c]
Turn(i, from, to) == shelf[i].status = from /\ shelf' = [shelf EXCEPT ![i].status = to]

LifeInit == shelf = <<>>

(* Any content: the one the next shelf has.                                  *)
Create(p) ==
    LET c == shelf'[Len(shelf) + 1].content
    IN  /\ ~HasDraft(p)
        /\ Len(shelf') = Len(shelf) + 1
        /\ shelf' = Append(shelf, NewDraft(p, c))

Edit(i) ==
    LET c == shelf'[i].content
    IN  /\ shelf[i].status = "draft"
        /\ Len(shelf') = Len(shelf)
        /\ shelf' = [shelf EXCEPT ![i].content = c]

Copy(i) ==
    /\ shelf[i].status = "published" /\ ~HasDraft(shelf[i].parent)
    /\ shelf' = Append(shelf, NewDraft(shelf[i].parent, shelf[i].content))

LifeNext ==
    \/ \E p \in Parents : Create(p)
    \/ \E i \in DOMAIN shelf :
          \/ Edit(i) \/ Copy(i)
          \/ Turn(i, "draft", "published") \/ Turn(i, "draft", "deleted")
          \/ Turn(i, "published", "archived") \/ Turn(i, "archived", "published")

LifeSpec == LifeInit /\ [][LifeNext]_shelf

-----------------------------------------------------------------------------

(* A parent never has two drafts.                                            *)
OneDraft ==
    \A i, j \in DOMAIN shelf :
        /\ shelf[i].status = "draft" /\ shelf[j].status = "draft"
        /\ shelf[i].parent = shelf[j].parent
        => i = j

(* What has been published keeps its content and its parent for ever.        *)
PublishedStands ==
    [][\A i \in DOMAIN shelf :
          shelf[i].status \in {"published", "archived"} =>
              /\ i \in DOMAIN shelf'
              /\ shelf'[i].content = shelf[i].content
              /\ shelf'[i].parent = shelf[i].parent
              /\ shelf'[i].status \in {"published", "archived"}]_shelf
=============================================================================
