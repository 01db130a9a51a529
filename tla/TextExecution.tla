---------------------------- MODULE TextExecution ----------------------------
(***************************************************************************)
(* The text executor (internal/ai/text_executor.go) under RunOnce           *)
(* (internal/ai/worker.go), on one text item: paid provider calls whose     *)
(* answer is stored before it is turned into results, by workers that lose  *)
(* their lease, are cancelled, crash and come late.                         *)
(*                                                                         *)
(* Each database transaction and each step outside one is an action.  The   *)
(* queue is taken from JobQueue by what it promises: an attempt number per  *)
(* lease, and `live' for an unexpired lease of the newest one.              *)
(***************************************************************************)
EXTENDS Naturals, Sequences, FiniteSets

CONSTANTS
    Workers,            \* the worker slots that may run the item
    MaxFaults,          \* bound: lapses, cancellations, crashes, database errors
    MaxRegenerations    \* bound: regeneration requests

ASSUME TextBoundsAssumption == MaxFaults \in Nat /\ MaxRegenerations \in Nat

VARIABLES
    status,         \* AIJobItem.status
    attempt,        \* AIJobItem.attempt_count
    live,           \* the newest lease has not expired
    requested,      \* requested_attempt_number of the newest regeneration audit
    executions,     \* the AIExecution rows, in the order of their attempts
    run,            \* run[w] : where RunOnce and Execute of worker w stand
    faults,         \* faults so far
    regenerations   \* regeneration requests so far

itemVars == <<status, attempt, live>>
vars == <<status, attempt, live, requested, executions, run, faults, regenerations>>

ItemStatuses == {"queued", "running", "completed", "failed"}
ExecutionStatuses == {"preparing", "calling", "attention", "storing", "completed", "failed"}
Steps == {"idle", "prepare", "ready", "dispatch", "calling", "capture", "finalize",
          "mark", "succeeded", "failed"}

(* called: the provider was called; ledger: its usage row was written. *)
Execution == [attempt : Nat, status : ExecutionStatuses, called : BOOLEAN, ledger : BOOLEAN]

(* fresh: this run created the execution; as, then: what markProviderFailure *)
(* writes, and what Execute reports after it.                                *)
Run == [step : Steps, attempt : Nat, execution : Nat, fresh : BOOLEAN,
        cancelled : BOOLEAN, as : {"failed", "attention"}, then : {"succeeded", "failed"}]
IdleRun == [step |-> "idle", attempt |-> 0, execution |-> 0, fresh |-> FALSE,
            cancelled |-> FALSE, as |-> "failed", then |-> "failed"]

(* Only a running item has a lease in force, and each regeneration accounts   *)
(* for at most one execution beyond the first, however often workers take over. *)
TypeOK ==
    /\ status \in ItemStatuses
    /\ attempt \in Nat
    /\ live \in BOOLEAN
    /\ live => status = "running"
    /\ requested \in Nat /\ requested <= attempt + 1
    /\ executions \in Seq(Execution)
    /\ Len(executions) <= 1 + regenerations
    /\ run \in [Workers -> Run]
    /\ \A w \in Workers : run[w].execution \in 0..Len(executions)
    /\ faults \in 0..MaxFaults
    /\ regenerations \in 0..MaxRegenerations

-----------------------------------------------------------------------------
(* Helpers *)

At(w, step) == run[w].step = step
Goes(w, step) == run' = [run EXCEPT ![w].step = step]
Stops(w) == run' = [run EXCEPT ![w] = IdleRun]
Fault == faults < MaxFaults /\ faults' = faults + 1

(* markProviderFailure comes next, and then Execute returns. *)
GoesMarking(w, as, then) ==
    run' = [run EXCEPT ![w].step = "mark", ![w].as = as, ![w].then = then]

StatusOf(w) == executions[run[w].execution].status
SetStatus(w, s) == executions' = [executions EXCEPT ![run[w].execution].status = s]

HoldsLease(w) == status = "running" /\ live /\ attempt = run[w].attempt

StartsNewAlways == requested > 0 /\ attempt >= requested   \* mutant: at every attempt

(* shouldStartRegeneratedTextExecution: once after each request. *)
StartsNew ==
    /\ requested > 0
    /\ attempt >= requested
    /\ \A n \in DOMAIN executions : executions[n].attempt < requested

(* The execution this attempt works on: its own, else, unless a regeneration *)
(* was asked for, the newest one; 0 when one has to be created.              *)
Target ==
    LET last == Len(executions)
    IN  IF last # 0 /\ (executions[last].attempt = attempt \/ ~ StartsNew)
        THEN last ELSE 0

LatestCompleted ==
    executions # <<>> /\ executions[Len(executions)].status = "completed"

-----------------------------------------------------------------------------
Init ==
    /\ status = "queued"
    /\ attempt = 0
    /\ live = FALSE
    /\ requested = 0
    /\ executions = <<>>
    /\ run = [w \in Workers |-> IdleRun]
    /\ faults = 0
    /\ regenerations = 0

(* LeaseNext, for a queued item or an expired lease. *)
Lease(w) ==
    /\ At(w, "idle")
    /\ status = "queued" \/ (status = "running" /\ ~ live)
    /\ status' = "running"
    /\ attempt' = attempt + 1
    /\ live' = TRUE
    /\ run' = [run EXCEPT ![w] = [IdleRun EXCEPT !.step = "prepare", !.attempt = attempt + 1]]
    /\ UNCHANGED <<requested, executions, faults, regenerations>>

(* prepare, under the item lock: no execution to go on with, so one is made. *)
PrepareNew(w) ==
    /\ At(w, "prepare") /\ ~ run[w].cancelled
    /\ HoldsLease(w)
    /\ Target = 0
    /\ executions' = Append(executions, [attempt |-> attempt, status |-> "preparing",
                                         called |-> FALSE, ledger |-> FALSE])
    /\ run' = [run EXCEPT ![w].step = "ready", ![w].fresh = TRUE,
                          ![w].execution = Len(executions) + 1]
    /\ UNCHANGED <<itemVars, requested, faults, regenerations>>

(* How an execution found by prepare is continued. *)
Continues(s) ==
    CASE s = "completed" -> "succeeded"
      [] s = "storing"   -> "finalize"
      [] s = "preparing" -> "ready"
      [] s = "calling"   -> "mark"
      [] OTHER -> "failed"

PrepareFound(w) ==
    /\ At(w, "prepare") /\ ~ run[w].cancelled
    /\ HoldsLease(w)
    /\ Target # 0
    /\ run' = [run EXCEPT ![w].execution = Target, ![w].as = "attention",
                          ![w].step = Continues(executions[Target].status)]
    /\ UNCHANGED <<itemVars, requested, executions, faults, regenerations>>

(* ErrLeaseLost, from prepare or dispatch: RunOnce leaves the item alone. *)
LosesLease(w) ==
    /\ At(w, "prepare") \/ At(w, "dispatch")
    /\ ~ HoldsLease(w)
    /\ Stops(w)
    /\ UNCHANGED <<itemVars, requested, executions, faults, regenerations>>

(* A transaction of Execute fails for a reason of its own, which comes after *)
(* the check of the lease, because the context is cancelled, or because the  *)
(* database fails.                                                           *)
TransactionFails(w) ==
    \/ (HoldsLease(w) \/ run[w].cancelled) /\ UNCHANGED faults
    \/ Fault

(* Here the reason is an input that cannot be used. *)
PrepareFails(w) ==
    /\ At(w, "prepare")
    /\ TransactionFails(w)
    /\ Goes(w, "failed")
    /\ UNCHANGED <<itemVars, requested, executions, regenerations>>

(* A source image cannot be read: the execution is marked failed, and the    *)
(* nil that markProviderFailure returns is the answer of Execute.            *)
SourceUnavailable(w) ==
    /\ At(w, "ready")
    /\ GoesMarking(w, "failed", "succeeded")
    /\ UNCHANGED <<itemVars, requested, executions, faults, regenerations>>

(* No credential, or the model cannot be bound. *)
CredentialUnavailable(w) ==
    /\ At(w, "ready")
    /\ GoesMarking(w, "failed", "failed")
    /\ UNCHANGED <<itemVars, requested, executions, faults, regenerations>>

(* bindExecutionModel writes to a preparing execution only. *)
BindExecutionModel(w) ==
    /\ At(w, "ready") /\ ~ run[w].cancelled
    /\ IF run[w].fresh /\ StatusOf(w) # "preparing"
       THEN GoesMarking(w, "failed", "failed") ELSE Goes(w, "dispatch")
    /\ UNCHANGED <<itemVars, requested, executions, faults, regenerations>>

MayDispatch(w) == StatusOf(w) = "preparing"

(* The lease is checked again under the item lock. *)
Dispatch(w) ==
    /\ At(w, "dispatch") /\ ~ run[w].cancelled
    /\ HoldsLease(w)
    /\ MayDispatch(w)
    /\ executions' = [executions EXCEPT ![run[w].execution].status = "calling",
                                        ![run[w].execution].called = TRUE]
    /\ Goes(w, "calling")
    /\ UNCHANGED <<itemVars, requested, faults, regenerations>>

(* Here the reason is an execution that is not preparing any more, or a      *)
(* credential that was rotated meanwhile.                                    *)
DispatchFails(w) ==
    /\ At(w, "dispatch")
    /\ TransactionFails(w)
    /\ GoesMarking(w, "failed", "failed")
    /\ UNCHANGED <<itemVars, requested, executions, regenerations>>

(* Generate returns: a valid answer, an ambiguous end, or a clear failure. *)
ProviderAnswers(w) ==
    /\ At(w, "calling")
    /\ \/ Goes(w, "capture")
       \/ \E outcome \in {"attention", "failed"} : GoesMarking(w, outcome, "failed")
    /\ UNCHANGED <<itemVars, requested, executions, faults, regenerations>>

Captures(w) == StatusOf(w) \in {"calling", "attention"}

(* captureProviderResponse asks for no lease and ignores the cancellation. *)
Capture(w) ==
    /\ At(w, "capture")
    /\ \/ Captures(w) /\ SetStatus(w, "storing") /\ Goes(w, "finalize")
       \/ ~ Captures(w) /\ GoesMarking(w, "attention", "failed") /\ UNCHANGED executions
    /\ UNCHANGED <<itemVars, requested, faults, regenerations>>

CaptureFails(w) ==
    /\ At(w, "capture")
    /\ Fault
    /\ GoesMarking(w, "attention", "failed")
    /\ UNCHANGED <<itemVars, requested, executions, regenerations>>

PromotesNothing == status       \* mutant: a failed item stays failed
Promoted == IF status = "failed" THEN "completed" ELSE status

NeedsFinalizing(w) == StatusOf(w) = "storing"

(* finalize: results, usage and completion in one transaction, which also    *)
(* completes an item that was given up meanwhile.                            *)
Finalize(w) ==
    /\ At(w, "finalize")
    /\ NeedsFinalizing(w)
    /\ executions' = [executions EXCEPT ![run[w].execution].status = "completed",
                                        ![run[w].execution].ledger = TRUE]
    /\ status' = Promoted
    /\ Goes(w, "succeeded")
    /\ UNCHANGED <<attempt, live, requested, faults, regenerations>>

FinalizeDone(w) ==
    /\ At(w, "finalize")
    /\ ~ NeedsFinalizing(w)
    /\ Goes(w, IF StatusOf(w) = "completed" THEN "succeeded" ELSE "failed")
    /\ UNCHANGED <<itemVars, requested, executions, faults, regenerations>>

FinalizeFails(w) ==
    /\ At(w, "finalize")
    /\ Fault
    /\ Goes(w, "failed")
    /\ UNCHANGED <<itemVars, requested, executions, regenerations>>

MarksAny(w) == TRUE   \* mutant: whatever the execution has become
Marks(w) == StatusOf(w) \in {"preparing", "calling"}

(* markProviderFailure asks for no lease and ignores the cancellation. *)
MarkProviderFailure(w) ==
    /\ At(w, "mark")
    /\ IF Marks(w) THEN SetStatus(w, run[w].as) ELSE UNCHANGED executions
    /\ Goes(w, run[w].then)
    /\ UNCHANGED <<itemVars, requested, faults, regenerations>>

MarkFails(w) ==
    /\ At(w, "mark")
    /\ Fault
    /\ Goes(w, "failed")
    /\ UNCHANGED <<itemVars, requested, executions, regenerations>>

(* finish: a failure is reported as completed if the newest execution is. *)
Outcome(w) == IF At(w, "succeeded") \/ LatestCompleted THEN "completed" ELSE "failed"

Finish(w) ==
    /\ At(w, "succeeded") \/ At(w, "failed")
    /\ IF HoldsLease(w) /\ ~ run[w].cancelled
       THEN status' = Outcome(w) /\ live' = FALSE
       ELSE UNCHANGED <<status, live>>
    /\ Stops(w)
    /\ UNCHANGED <<attempt, requested, executions, faults, regenerations>>

(* A heartbeat finds the lease lost, or fails: the context is cancelled and  *)
(* RunOnce waits for Execute, whose answer it will discard.                  *)
Cancel(w) ==
    /\ ~ At(w, "idle") /\ ~ run[w].cancelled
    /\ \/ ~ HoldsLease(w) /\ UNCHANGED faults
       \/ HoldsLease(w) /\ Fault
    /\ run' = [run EXCEPT ![w].cancelled = TRUE]
    /\ UNCHANGED <<itemVars, requested, executions, regenerations>>

Crash(w) ==
    /\ ~ At(w, "idle")
    /\ Fault
    /\ Stops(w)
    /\ UNCHANGED <<itemVars, requested, executions, regenerations>>

(* The lease expires: a fault while its holder still works and is not        *)
(* cancelled, since its heartbeats should have renewed it.                   *)
Expire ==
    /\ live
    /\ IF \E w \in Workers : HoldsLease(w) /\ ~ run[w].cancelled
       THEN Fault ELSE UNCHANGED faults
    /\ live' = FALSE
    /\ UNCHANGED <<status, attempt, requested, executions, run, regenerations>>

RegenerateItem ==
    /\ status = "failed"
    /\ regenerations < MaxRegenerations
    /\ regenerations' = regenerations + 1
    /\ status' = "queued"
    /\ requested' = attempt + 1
    /\ UNCHANGED <<attempt, live, executions, run, faults>>

WorkerStep(w) ==
    \/ Lease(w)
    \/ PrepareNew(w) \/ PrepareFound(w) \/ PrepareFails(w)
    \/ LosesLease(w)
    \/ SourceUnavailable(w) \/ CredentialUnavailable(w) \/ BindExecutionModel(w)
    \/ Dispatch(w) \/ DispatchFails(w)
    \/ ProviderAnswers(w)
    \/ Capture(w) \/ CaptureFails(w)
    \/ Finalize(w) \/ FinalizeDone(w) \/ FinalizeFails(w)
    \/ MarkProviderFailure(w) \/ MarkFails(w)
    \/ Finish(w)
    \/ Cancel(w) \/ Crash(w)

Next ==
    \/ \E w \in Workers : WorkerStep(w)
    \/ Expire
    \/ RegenerateItem

Spec == Init /\ [][Next]_vars

-----------------------------------------------------------------------------
(* Properties *)

(* Money is spent only on request: however leases lapse, workers crash and   *)
(* answers come late, the provider is called at most once, and once more for *)
(* each regeneration the user asked for.                                     *)
CallsAreAskedFor ==
    Cardinality({n \in DOMAIN executions : executions[n].called}) <= 1 + regenerations

(* A call that was dispatched is never dispatched again, by anybody. *)
CalledOnce ==
    [][\A w \in Workers : At(w, "dispatch") /\ At(w, "calling")' =>
          ~ executions[run[w].execution].called]_vars

(* Usage is recorded for the executions that end completed and for no other, *)
(* although late workers, and those that recover what these left behind,     *)
(* finalize an execution and mark it failed at the same time.                *)
UsageMatchesCompletion ==
    \A n \in DOMAIN executions :
        executions[n].ledger <=> executions[n].status = "completed"

(* An item never stays failed when its newest execution has results,         *)
(* whichever of finish and finalize comes last.                              *)
FailureHidesNoResult == status = "failed" => ~ LatestCompleted

(* Once an answer is stored nothing but finalize touches the execution: late *)
(* failures of other workers do not take it back.                            *)
StoredAnswerStays ==
    [][\A n \in DOMAIN executions :
          executions[n].status \in {"storing", "completed"} =>
             executions'[n].status \in {"storing", "completed"}]_vars

(* What the design says of a call in flight: its result is recorded.  A      *)
(* worker with a valid answer finds an execution that takes it.              *)
AnswersAreRecorded ==
    \A w \in Workers : At(w, "capture") => Captures(w)

(* What the design says of storage failures: a stored answer is stored       *)
(* again, and the provider is not called again beside it.                    *)
StoredAnswerNotPaidAgain ==
    \A n \in DOMAIN executions : executions[n].status = "storing" =>
        \A m \in DOMAIN executions : m > n => ~ executions[m].called

(* What the state diagram of the design says: an item is completed only      *)
(* after an execution of it was.                                             *)
CompletedHasResult ==
    status = "completed" => \E n \in DOMAIN executions : executions[n].status = "completed"
==============================================================================
