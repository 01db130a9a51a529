--------------------------- MODULE ImageExecution ---------------------------
(***************************************************************************)
(* The image executor (internal/ai/image_executor.go), the store of         *)
(* generated images (internal/ai/image_storage.go over                      *)
(* internal/app/object_store.go) and the revisions users ask for            *)
(* (internal/ai/image_turns.go), on one image item with its thread.         *)
(*                                                                         *)
(* Every attempt makes an execution of its own and works on the oldest      *)
(* queued turn, or on a new one.  A generated image goes to the bucket,      *)
(* claimed by a pending marker, then its rows are written, then the marker   *)
(* is removed.  Two answers of the provider are never the same bytes, so     *)
(* each execution has an object key of its own and no claim is ever refused: *)
(* the marker itself is left out.                                            *)
(* The queue is taken as in TextExecution.                                  *)
(***************************************************************************)
EXTENDS Naturals, Sequences, FiniteSets

CONSTANTS
    Workers,            \* the worker slots that may run the item
    MaxFaults,          \* bound: lapses, cancellations, crashes, storage errors
    MaxRegenerations,   \* bound: regeneration requests
    MaxRevisions        \* bound: turns asked for by users

ASSUME ImageBoundsAssumption ==
    MaxFaults \in Nat /\ MaxRegenerations \in Nat /\ MaxRevisions \in Nat

VARIABLES
    status,         \* AIJobItem.status
    attempt,        \* AIJobItem.attempt_count
    live,           \* the newest lease has not expired
    turns,          \* AIImageTurn.status, in the order of their sequence
    executions,     \* the AIExecution rows, in the order of their attempts
    objects,        \* the executions whose image is in the bucket
    run,            \* run[w] : where RunOnce and Execute of worker w stand
    faults,         \* faults so far
    regenerations,  \* regeneration requests so far
    revisions       \* turns asked for so far

item == <<status, attempt, live>>
asked == <<regenerations, revisions>>
vars == <<status, attempt, live, turns, executions, objects, run, faults,
          regenerations, revisions>>

ItemStatuses == {"queued", "running", "completed", "failed"}
TurnStatuses == {"queued", "running", "completed", "failed", "attention"}
ExecutionStatuses == {"preparing", "calling", "attention", "completed", "failed"}
Steps == {"idle", "prepare", "ready", "dispatch", "calling", "claim", "persist",
          "commit", "cleanup", "fail", "succeeded", "failed"}

(* result: the AIImageResult and usage rows, which are written together;     *)
(* unseen when the worker did not learn that they were.                      *)
Execution == [turn : Nat, status : ExecutionStatuses,
              called : BOOLEAN, result : {"none", "seen", "unseen"}]
Run == [step : Steps, attempt : Nat, execution : Nat, cancelled : BOOLEAN,
        as : {"failed", "attention"}]
IdleRun == [step |-> "idle", attempt |-> 0, execution |-> 0, cancelled |-> FALSE,
            as |-> "failed"]

(* Rows and runs are well formed; only a running item holds a lease, and      *)
(* every turn beyond the revisions was made for an execution.                 *)
TypeOK ==
    /\ status \in ItemStatuses
    /\ attempt \in Nat
    /\ live \in BOOLEAN /\ (live => status = "running")
    /\ turns \in Seq(TurnStatuses)
    /\ executions \in Seq(Execution)
    /\ Len(turns) <= Len(executions) + revisions
    /\ \A n \in DOMAIN executions : executions[n].turn \in DOMAIN turns
    /\ objects \subseteq DOMAIN executions
    /\ run \in [Workers -> Run]
    /\ \A w \in Workers : run[w].execution \in 0..Len(executions)
    /\ faults \in 0..MaxFaults
    /\ regenerations \in 0..MaxRegenerations /\ revisions \in 0..MaxRevisions

-----------------------------------------------------------------------------
(* Helpers *)

At(w, step) == run[w].step = step
Goes(w, step) == run' = [run EXCEPT ![w].step = step]
GoesFailing(w, as) == run' = [run EXCEPT ![w].step = "fail", ![w].as = as]
Stops(w) == run' = [run EXCEPT ![w] = IdleRun]
Fault == faults < MaxFaults /\ faults' = faults + 1

(* A call that takes the context fails when that is cancelled, or by a fault. *)
CallFails(w) == (run[w].cancelled /\ UNCHANGED faults) \/ Fault

HoldsLease(w) == status = "running" /\ live /\ attempt = run[w].attempt
Mine(w) == executions[run[w].execution]
QueuedTurns == {t \in DOMAIN turns : turns[t] = "queued"}
ActiveTurns == {t \in DOMAIN turns : turns[t] \in {"queued", "running"}}

(* The oldest queued turn, or the one that prepare appends. *)
Turn ==
    IF QueuedTurns = {} THEN Len(turns) + 1
    ELSE CHOOSE t \in QueuedTurns : \A u \in QueuedTurns : t <= u

-----------------------------------------------------------------------------
Init ==
    /\ status = "queued"
    /\ attempt = 0
    /\ live = FALSE
    /\ turns = <<>>
    /\ executions = <<>>
    /\ objects = {}
    /\ run = [w \in Workers |-> IdleRun]
    /\ faults = 0 /\ regenerations = 0 /\ revisions = 0

(* LeaseNext, for a queued item or an expired lease. *)
Lease(w) ==
    /\ At(w, "idle")
    /\ status = "queued" \/ (status = "running" /\ ~ live)
    /\ status' = "running"
    /\ attempt' = attempt + 1
    /\ live' = TRUE
    /\ run' = [run EXCEPT ![w] = [IdleRun EXCEPT !.step = "prepare", !.attempt = attempt + 1]]
    /\ UNCHANGED <<turns, executions, objects, faults, asked>>

(* prepare never goes on with an execution of an earlier attempt. *)
Prepare(w) ==
    /\ At(w, "prepare") /\ ~ run[w].cancelled
    /\ HoldsLease(w)
    /\ turns' = IF Turn > Len(turns) THEN Append(turns, "queued") ELSE turns
    /\ executions' = Append(executions, [turn |-> Turn, status |-> "preparing",
                                         called |-> FALSE, result |-> "none"])
    /\ run' = [run EXCEPT ![w].step = "ready", ![w].execution = Len(executions) + 1]
    /\ UNCHANGED <<item, objects, faults, asked>>

PrepareLost(w) ==
    /\ At(w, "prepare") /\ ~ HoldsLease(w)
    /\ Stops(w)
    /\ UNCHANGED <<item, turns, executions, objects, faults, asked>>

(* Input that cannot be used: the whole transaction is rolled back. *)
PrepareFails(w) ==
    /\ At(w, "prepare")
    /\ (HoldsLease(w) /\ UNCHANGED faults) \/ CallFails(w)
    /\ Goes(w, "failed")
    /\ UNCHANGED <<item, turns, executions, objects, asked>>

(* Sources, parent image, mask, credential and model: all there, or not. *)
ReadsInputs(w) ==
    /\ At(w, "ready")
    /\ (Goes(w, "dispatch") /\ ~ run[w].cancelled) \/ GoesFailing(w, "failed")
    /\ UNCHANGED <<item, turns, executions, objects, faults, asked>>

(* The lease is checked again; the turn starts running if it still waits. *)
MayDispatch(w) == HoldsLease(w)

Dispatch(w) ==
    /\ At(w, "dispatch") /\ ~ run[w].cancelled
    /\ MayDispatch(w)
    /\ executions' = [executions EXCEPT ![run[w].execution].status = "calling",
                                        ![run[w].execution].called = TRUE]
    /\ turns' = [turns EXCEPT ![Mine(w).turn] = IF @ = "queued" THEN "running" ELSE @]
    /\ Goes(w, "calling")
    /\ UNCHANGED <<item, objects, faults, asked>>

(* Any error of dispatch, a lost lease too, fails execution and turn. *)
DispatchFails(w) ==
    /\ At(w, "dispatch")
    /\ GoesFailing(w, "failed")
    /\ UNCHANGED <<item, turns, executions, objects, faults, asked>>

(* Generate returns: an image, an ambiguous end, or a clear failure. *)
ProviderAnswers(w) ==
    /\ At(w, "calling")
    /\ \/ Goes(w, "claim")
       \/ \E outcome \in {"attention", "failed"} : GoesFailing(w, outcome)
    /\ UNCHANGED <<item, turns, executions, objects, faults, asked>>

(* ClaimGenerated puts the marker first and the image second. *)
ClaimGenerated(w) ==
    /\ At(w, "claim") /\ ~ run[w].cancelled
    /\ objects' = objects \cup {run[w].execution}
    /\ Goes(w, "persist")
    /\ UNCHANGED <<item, turns, executions, faults, asked>>

ClaimFails(w) ==
    /\ At(w, "claim")
    /\ CallFails(w)
    /\ objects' \in {objects, objects \cup {run[w].execution}}   \* put, not acknowledged
    /\ GoesFailing(w, "attention")
    /\ UNCHANGED <<item, turns, executions, asked>>

(* The rows persistResult writes: a turn has one result at most. *)
TurnHasResult(w) ==
    \E n \in DOMAIN executions :
        executions[n].turn = Mine(w).turn /\ executions[n].result # "none"

MayRecord(w) == Mine(w).status = "calling" /\ ~ TurnHasResult(w)

Records(w, seen) ==
    /\ MayRecord(w)
    /\ executions' = [executions EXCEPT ![run[w].execution].status = "completed",
                                        ![run[w].execution].result = seen]
    /\ turns' = [turns EXCEPT ![Mine(w).turn] = "completed"]

PersistResult(w) ==
    /\ At(w, "persist") /\ ~ run[w].cancelled
    /\ Records(w, "seen")
    /\ Goes(w, "commit")
    /\ UNCHANGED <<item, objects, faults, asked>>

(* The transaction fails or refuses, or its commit is not acknowledged. *)
PersistFails(w) ==
    /\ At(w, "persist")
    /\ \/ /\ CallFails(w) \/ (~ MayRecord(w) /\ UNCHANGED faults)
          /\ UNCHANGED <<turns, executions>>
       \/ Fault /\ Records(w, "unseen")
    /\ Goes(w, "cleanup")
    /\ UNCHANGED <<item, objects, asked>>

(* CommitGenerated removes the marker. *)
CommitGenerated(w) ==
    /\ At(w, "commit") /\ ~ run[w].cancelled
    /\ Goes(w, "succeeded")
    /\ UNCHANGED <<item, turns, executions, objects, faults, asked>>

CleansUpAlways(w) == Goes(w, "cleanup")   \* mutant: an uncommitted image is removed
CleansUp(w) == GoesFailing(w, "attention")

CommitFails(w) ==
    /\ At(w, "commit")
    /\ CallFails(w)
    /\ CleansUp(w)
    /\ UNCHANGED <<item, turns, executions, objects, asked>>

(* CleanupGenerated has a context of its own. *)
CleanupGenerated(w) ==
    /\ At(w, "cleanup")
    /\ \/ /\ objects' = objects \ {run[w].execution}
                /\ UNCHANGED faults
       \/ Fault /\ UNCHANGED objects
    /\ GoesFailing(w, "attention")
    /\ UNCHANGED <<item, turns, executions, asked>>

Reports(w) == "failed"

(* fail asks neither for the lease nor for what the rows have become. *)
Fail(w) ==
    /\ At(w, "fail")
    /\ \/ /\ executions' = [executions EXCEPT ![run[w].execution].status = run[w].as]
          /\ turns' = [turns EXCEPT ![Mine(w).turn] = run[w].as]
          /\ UNCHANGED faults
       \/ Fault /\ UNCHANGED <<turns, executions>>
    /\ Goes(w, Reports(w))
    /\ UNCHANGED <<item, objects, asked>>

Ended(w) == At(w, "succeeded") \/ At(w, "failed")

(* finish: a failure is reported as completed if the newest execution is. *)
Outcome(w) ==
    IF \/ At(w, "succeeded")
       \/ executions # <<>> /\ executions[Len(executions)].status = "completed"
    THEN "completed" ELSE "failed"

Finish(w) ==
    /\ Ended(w)
    /\ IF HoldsLease(w) /\ ~ run[w].cancelled
       THEN status' = Outcome(w) /\ live' = FALSE
       ELSE UNCHANGED <<status, live>>
    /\ Stops(w)
    /\ UNCHANGED <<attempt, turns, executions, objects, faults, asked>>

(* A heartbeat finds the lease lost, or fails.  (It makes no difference to a *)
(* run that has ended without its lease: finish writes nothing either way.)  *)
Cancel(w) ==
    /\ ~ At(w, "idle") /\ ~ run[w].cancelled
    /\ \/ ~ HoldsLease(w) /\ ~ Ended(w) /\ UNCHANGED faults
       \/ HoldsLease(w) /\ Fault
    /\ run' = [run EXCEPT ![w].cancelled = TRUE]
    /\ UNCHANGED <<item, turns, executions, objects, asked>>

Crash(w) ==
    /\ ~ At(w, "idle")
    /\ Fault
    /\ Stops(w)
    /\ UNCHANGED <<item, turns, executions, objects, asked>>

Expire ==
    /\ live
    /\ IF \E w \in Workers : HoldsLease(w) /\ ~ run[w].cancelled
       THEN Fault ELSE UNCHANGED faults
    /\ live' = FALSE
    /\ UNCHANGED <<status, attempt, turns, executions, objects, run, asked>>

RegenerateItem ==
    /\ status = "failed"
    /\ regenerations < MaxRegenerations
    /\ regenerations' = regenerations + 1
    /\ status' = "queued"
    /\ UNCHANGED <<attempt, live, turns, executions, objects, run, faults, revisions>>

(* CreateTurn refuses a second active revision ... *)
MayReviseQueued == turns # <<>>   \* mutant: no look at the active turns
MayRevise == turns # <<>> /\ ActiveTurns = {}

(* ... and puts the item back whatever it is doing, without its lease. *)
RequeuesLeased == status' = "queued" /\ UNCHANGED live   \* mutant: the lease stays
Requeues == status' = "queued" /\ live' = FALSE

CreateTurn ==
    /\ MayRevise
    /\ revisions < MaxRevisions
    /\ revisions' = revisions + 1
    /\ turns' = Append(turns, "queued")
    /\ Requeues
    /\ UNCHANGED <<attempt, executions, objects, run, faults, regenerations>>

WorkerStep(w) ==
    \/ Lease(w)
    \/ Prepare(w) \/ PrepareLost(w) \/ PrepareFails(w)
    \/ ReadsInputs(w)
    \/ Dispatch(w) \/ DispatchFails(w)
    \/ ProviderAnswers(w)
    \/ ClaimGenerated(w) \/ ClaimFails(w)
    \/ PersistResult(w) \/ PersistFails(w)
    \/ CommitGenerated(w) \/ CommitFails(w) \/ CleanupGenerated(w)
    \/ Fail(w)
    \/ Finish(w)
    \/ Cancel(w) \/ Crash(w)

Next ==
    \/ \E w \in Workers : WorkerStep(w)
    \/ Expire
    \/ RegenerateItem
    \/ CreateTurn

Spec == Init /\ [][Next]_vars

-----------------------------------------------------------------------------
(* Properties *)

(* Users are never shown a result whose image is gone: whatever fails while  *)
(* an image is stored, it is removed only if its rows are not there.  The    *)
(* one exception is a commit that was made and not acknowledged.             *)
ReferencedImagesExist ==
    \A n \in DOMAIN executions : executions[n].result = "seen" => n \in objects

(* An image item is completed only by an attempt that left an image behind.  *)
CompletedHasImage ==
    status = "completed" =>
        executions # <<>> /\ executions[Len(executions)].result # "none"

(* Wherever an attempt stops, rows and images agree: what a row names is in  *)
(* the bucket, and what counts as completed has an image.                    *)
ResultsHaveImages == ReferencedImagesExist /\ CompletedHasImage

(* At most one turn of a thread waits to be run, although users ask for      *)
(* revisions while workers create and take over turns.                       *)
OneQueuedTurn == Cardinality(QueuedTurns) <= 1

(* A turn is sent to the provider once: the image of a second call could not *)
(* be recorded beside the first and would be thrown away after it was paid.  *)
TurnCalledOnce ==
    \A m, n \in DOMAIN executions :
        /\ executions[m].called /\ executions[n].called
        /\ executions[m].turn = executions[n].turn
        => m = n

(* Turns are worked off one by one: one waits, and each is called once.      *)
TurnsAreSingle == OneQueuedTurn /\ TurnCalledOnce

(* What the gallery plan says of retries and recovery: no paid call without  *)
(* a request for it.                                                         *)
CallsAreAskedFor ==
    Cardinality({n \in DOMAIN executions : executions[n].called})
        <= 1 + regenerations + revisions
=============================================================================
