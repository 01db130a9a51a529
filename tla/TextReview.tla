----------------------------- MODULE TextReview -----------------------------
(***************************************************************************)
(* What users do with generated texts (internal/ai/text_results.go): edit,  *)
(* approve and reject a candidate, and apply an approved one to the content *)
(* of a SKU on a platform, in each language of its job.                     *)
(*                                                                         *)
(* Every operation first locks the job of its result, so operations on one  *)
(* job exclude each other.  Results of several jobs meet in the content.    *)
(* Apply is therefore two steps: ReadContent holds the SKU, the content is  *)
(* read under it, and WriteContent commits.                                 *)
(***************************************************************************)
EXTENDS Naturals, Sequences

CONSTANTS
    Jobs,           \* the jobs of one SKU and platform
    Results,        \* their text results
    JobOf(_),       \* the job of a result
    ItemOf(_),      \* its item
    KindOf(_),      \* "title" or "seo_description"
    LocalesOf(_),   \* the output locales of a job
    Texts,          \* what the provider and the editors write
    Valid(_),       \* whether a text keeps the rules of its slot, in each locale
    MaxEdits        \* bound: edits

TextItems == {ItemOf(r) : r \in Results}
Locales == UNION {LocalesOf(j) : j \in Jobs}
Nothing == "nothing"

(* A result is of an item and with it of a job.                              *)
ASSUME ReviewAssumption ==
    /\ Nothing \notin Results
    /\ \A r \in Results : JobOf(r) \in Jobs /\ KindOf(r) \in {"title", "seo_description"}
    /\ \A r, s \in Results : ItemOf(r) = ItemOf(s) => JobOf(r) = JobOf(s)
    /\ \E t \in Texts : Valid(t)
    /\ MaxEdits \in Nat

VARIABLES
    result,         \* result[r] : state, text, whether it is applied, text when last approved
    effective,      \* effective[i] : the approved result that item i stands for
    content,        \* content[l] : the platform content in locale l, if there is one
    revisions,      \* revisions[l] : its history, in the order of the commits
    applying,       \* the applications that hold their job, and what they have read
    edits           \* edits so far

reviewVars == <<result, effective, content, revisions, applying, edits>>

NoContent == [revision |-> 0]
NotApplying == [stage |-> "idle"]
Bound == [stage |-> "bound"]
At(r, stage) == applying[r].stage = stage

Free(r) == \A other \in Results : ~At(other, "idle") => JobOf(other) # JobOf(r)
SkuFree == \A r \in Results : ~At(r, "read")

ClearEffective(r) ==
    effective' = [effective EXCEPT ![ItemOf(r)] = IF @ = r THEN Nothing ELSE @]

-----------------------------------------------------------------------------
(* Review *)

(* An edited text must be approved again.                                    *)
EditQuietly(r, text) ==  \* mutant: the approval is kept
    /\ Free(r) /\ edits < MaxEdits /\ Valid(text)
    /\ result[r].state # "rejected"
    /\ result' = [result EXCEPT ![r].text = text]
    /\ edits' = edits + 1
    /\ UNCHANGED <<effective, content, revisions, applying>>
Edit(r, text) ==
    /\ Free(r) /\ edits < MaxEdits
    /\ result[r].state # "rejected" /\ ~result[r].applied
    /\ Valid(text)
    /\ result' = [result EXCEPT ![r].text = text,
                      ![r].state = IF @ = "approved" THEN "candidate" ELSE @]
    /\ IF result[r].state = "approved" THEN ClearEffective(r) ELSE UNCHANGED effective
    /\ edits' = edits + 1
    /\ UNCHANGED <<content, revisions, applying>>

Approve(r) ==
    /\ Free(r)
    /\ result[r].state # "rejected" /\ ~result[r].applied
    /\ Valid(result[r].text)
    /\ result' = [result EXCEPT ![r].state = "approved", ![r].agreed = result[r].text]
    /\ effective' = [effective EXCEPT ![ItemOf(r)] = r]
    /\ UNCHANGED <<content, revisions, applying, edits>>

Reject(r) ==
    /\ Free(r)
    /\ ~result[r].applied
    /\ result' = [result EXCEPT ![r].state = "rejected"]
    /\ ClearEffective(r)
    /\ UNCHANGED <<content, revisions, applying, edits>>

RequireEffectiveApproval(r) ==
    /\ result[r].state = "approved"
    /\ effective[ItemOf(r)] = r
    /\ Valid(result[r].text)

-----------------------------------------------------------------------------
(* Application *)

LockBinding(r) ==
    /\ Free(r)
    /\ ~result[r].applied
    /\ RequireEffectiveApproval(r)
    /\ applying' = [applying EXCEPT ![r] = Bound]
    /\ UNCHANGED <<result, effective, content, revisions, edits>>

ReadContent(r) ==
    /\ At(r, "bound")
    /\ SkuFree
    /\ applying' = [applying EXCEPT ![r] = [stage |-> "read", content |-> content]]
    /\ UNCHANGED <<result, effective, content, revisions, edits>>

(* A title leaves the description of the content alone, and the reverse.     *)
Applied(r, old) ==
    LET blank == [revision |-> 0, title |-> "", seo |-> ""]
        base == IF old = NoContent THEN blank ELSE old
    IN  IF KindOf(r) = "title"
        THEN [base EXCEPT !.revision = @ + 1, !.title = result[r].text]
        ELSE [base EXCEPT !.revision = @ + 1, !.seo = result[r].text]

WriteContent(r) ==
    /\ At(r, "read")
    /\ LET locales == LocalesOf(JobOf(r))
           before(l) == applying[r].content[l]
           after(l) == Applied(r, before(l))
           revision(l) == [before |-> before(l), after |-> after(l), source |-> r]
       IN  /\ content' = [l \in Locales |-> IF l \in locales THEN after(l) ELSE content[l]]
           /\ revisions' = [l \in Locales |-> IF l \in locales
                                              THEN Append(revisions[l], revision(l))
                                              ELSE revisions[l]]
    /\ result' = [result EXCEPT ![r].applied = TRUE]
    /\ applying' = [applying EXCEPT ![r] = NotApplying]
    /\ UNCHANGED <<effective, edits>>

(* The connection is lost, or the transaction is a victim: nothing remains.  *)
AbortApply(r) ==
    /\ ~At(r, "idle")
    /\ applying' = [applying EXCEPT ![r] = NotApplying]
    /\ UNCHANGED <<result, effective, content, revisions, edits>>

ReviewInit ==
    /\ result = [r \in Results |-> [state |-> "candidate", applied |-> FALSE, agreed |-> "",
                                     text |-> CHOOSE t \in Texts : Valid(t)]]
    /\ effective = [i \in TextItems |-> Nothing]
    /\ content = [l \in Locales |-> NoContent] /\ revisions = [l \in Locales |-> <<>>]
    /\ applying = [r \in Results |-> NotApplying] /\ edits = 0

ReviewNext ==
    \E r \in Results :
        \/ \E t \in Texts : Edit(r, t)
        \/ Approve(r) \/ Reject(r)
        \/ LockBinding(r) \/ ReadContent(r) \/ WriteContent(r) \/ AbortApply(r)

ReviewSpec == ReviewInit /\ [][ReviewNext]_reviewVars

-----------------------------------------------------------------------------
(* Properties *)

ReviewTypeOK ==
    /\ \A r \in Results : /\ result[r].state \in {"candidate", "approved", "rejected"}
                          /\ result[r].text \in Texts /\ result[r].applied \in BOOLEAN
    /\ effective \in [TextItems -> Results \cup {Nothing}]
    /\ DOMAIN content = Locales /\ edits \in 0..MaxEdits

(* An item stands for a result of its own that is approved at present, with  *)
(* the text somebody approved, and what was applied stays approved: neither  *)
(* an edit nor a rejection gets behind an approval or between the check and  *)
(* the write of an application (text_results.go Edit, Approve, Reject).      *)
EffectiveIsApproved ==
    /\ \A i \in TextItems : effective[i] # Nothing =>
           ItemOf(effective[i]) = i /\ result[effective[i]].state = "approved"
    /\ \A r \in Results : result[r].applied => result[r].state = "approved"
    /\ \A r \in Results : result[r].state = "approved" => result[r].text = result[r].agreed
    /\ \A r \in Results : ~At(r, "idle") => RequireEffectiveApproval(r)

(* The history of a content has no gap and no fork: revisions are numbered   *)
(* from one, each begins where the last ended, the content is the last one,  *)
(* and each part of it is the text, as approved, of the last result of its   *)
(* kind that was applied; a result is applied once in each locale, however   *)
(* many jobs write to one content at a time (text_results.go Apply).         *)
LastOfKind(l, n, kind) ==
    /\ n \in DOMAIN revisions[l] /\ KindOf(revisions[l][n].source) = kind
    /\ \A m \in DOMAIN revisions[l] : m > n => KindOf(revisions[l][m].source) # kind
Chained(l) ==
    LET history == revisions[l]
        agreed(n) == result[history[n].source].agreed
    IN  /\ content[l] = IF history = <<>> THEN NoContent ELSE history[Len(history)].after
        /\ \A n \in DOMAIN history :
               /\ history[n].after.revision = n
               /\ history[n].before = IF n = 1 THEN NoContent ELSE history[n - 1].after
               /\ result[history[n].source].applied
               /\ \A m \in DOMAIN history : history[m].source = history[n].source => m = n
               /\ LastOfKind(l, n, "title") => content[l].title = agreed(n)
               /\ LastOfKind(l, n, "seo_description") => content[l].seo = agreed(n)
RevisionsChain == \A l \in Locales : Chained(l)

(* What reviewers decide stands: nothing takes the place of an approved text *)
(* unseen, and what was applied is in the history once, in order.            *)
ReviewedTextStands == EffectiveIsApproved /\ RevisionsChain
=============================================================================
