------------------------- MODULE TextExecutionProofs -------------------------
(***************************************************************************)
(* What TextExecution.tla does for any number of workers and any number of  *)
(* faults and regenerations.                                                *)
(*                                                                         *)
(* Every step leaves the executions alone, appends one, or moves one along  *)
(* the few arrows of Moves (lemma ExecutionChange).  The inductive          *)
(* invariant has three parts on top of the types: a run points to the       *)
(* execution it works on (Located), a regeneration that was not served yet  *)
(* still has an execution to its credit (Credit), and what an execution     *)
(* records agrees with its status (Recorded).                               *)
(***************************************************************************)
EXTENDS TextExecution, FiniteSetTheorems, SequenceTheorems, TLAPS

(* From prepare on, until Execute returns, a run has its execution. *)
Busy == {"ready", "dispatch", "calling", "capture", "finalize", "mark"}
Located ==
    \A w \in Workers :
        run[w].step \in Busy => run[w].execution \in DOMAIN executions

(* No execution was made yet for the newest regeneration. *)
Unserved ==
    requested > 0 /\ \A n \in DOMAIN executions : executions[n].attempt < requested

Credit ==
    /\ requested > 0 => regenerations > 0
    /\ Unserved => Len(executions) <= regenerations

Typed == TypeOK /\ Located

(* The provider is called when preparing ends, usage comes with completion.  *)
Recorded ==
    /\ \A n \in DOMAIN executions :
          executions[n].status = "preparing" => ~ executions[n].called
    /\ UsageMatchesCompletion
    /\ FailureHidesNoResult

IInv == Typed /\ Credit /\ Recorded

(* The arrows between the statuses of an execution: dispatch, capture,       *)
(* finalize and failure.                                                     *)
Moves(e, f) ==
    \/ /\ e.status = "preparing"
       /\ f = [e EXCEPT !.status = "calling", !.called = TRUE]
    \/ /\ e.status \in {"calling", "attention"}
       /\ f = [e EXCEPT !.status = "storing"]
    \/ /\ e.status = "storing"
       /\ f = [e EXCEPT !.status = "completed", !.ledger = TRUE]
    \/ /\ e.status \in {"preparing", "calling"}
       /\ \E s \in {"failed", "attention"} : f = [e EXCEPT !.status = s]

Fresh == [attempt |-> attempt, status |-> "preparing", called |-> FALSE, ledger |-> FALSE]

Appends ==
    /\ Target = 0
    /\ status = "running"
    /\ executions' = Append(executions, Fresh)
    /\ UNCHANGED <<itemVars, requested, regenerations>>

MovesOne ==
    /\ \E n \in DOMAIN executions, f \in Execution :
          /\ Moves(executions[n], f)
          /\ executions' = [executions EXCEPT ![n] = f]
          /\ f.status = "completed" => status' = Promoted
          /\ f.status # "completed" => UNCHANGED status
    /\ UNCHANGED <<attempt, live, requested, regenerations>>

-----------------------------------------------------------------------------
(* Facts about the two ways executions change. *)

(* Moving an execution keeps its type and its attempt. *)
LEMMA MovesType ==
    ASSUME NEW e \in Execution, NEW f, Moves(e, f)
    PROVE  f \in Execution /\ f.attempt = e.attempt
  BY DEF Moves, Execution, ExecutionStatuses

(* Replacing one execution leaves the others and their number as they were. *)
LEMMA Replacing ==
    ASSUME NEW s \in Seq(Execution), NEW n \in DOMAIN s, NEW f \in Execution
    PROVE  /\ [s EXCEPT ![n] = f] \in Seq(Execution)
           /\ Len([s EXCEPT ![n] = f]) = Len(s)
           /\ DOMAIN [s EXCEPT ![n] = f] = DOMAIN s
           /\ \A m \in DOMAIN s : [s EXCEPT ![n] = f][m] = IF m = n THEN f ELSE s[m]
<1>1. DOMAIN s = 1..Len(s)
  OBVIOUS
<1> QED
  BY <1>1, ExceptSeq

(* Appending one leaves the others as they were. *)
LEMMA Appending ==
    ASSUME NEW s \in Seq(Execution), NEW f \in Execution
    PROVE  /\ Append(s, f) \in Seq(Execution)
           /\ Len(Append(s, f)) = Len(s) + 1
           /\ DOMAIN Append(s, f) = DOMAIN s \cup {Len(s) + 1}
           /\ Len(s) + 1 \notin DOMAIN s
           /\ \A m \in DOMAIN s : Append(s, f)[m] = s[m]
           /\ Append(s, f)[Len(s) + 1] = f
<1>1. DOMAIN s = 1..Len(s) /\ Len(s) \in Nat
  OBVIOUS
<1>2. /\ Append(s, f) \in Seq(Execution)
      /\ Len(Append(s, f)) = Len(s) + 1
      /\ \A m \in 1..Len(s) : Append(s, f)[m] = s[m]
      /\ Append(s, f)[Len(s) + 1] = f
  BY AppendProperties
<1>3. DOMAIN Append(s, f) = 1..(Len(s) + 1)
  BY <1>2
<1> QED
  BY <1>1, <1>2, <1>3

(* A fresh execution is well typed. *)
LEMMA FreshType == attempt \in Nat => Fresh \in Execution
  BY DEF Fresh, Execution, ExecutionStatuses

(* Every step leaves the executions alone, appends a fresh one under the     *)
(* lease, or moves one: no worker, however late, does anything else to them. *)
LEMMA ExecutionChange ==
    ASSUME Typed, [Next]_vars
    PROVE  UNCHANGED executions \/ Appends \/ MovesOne
<1> USE DEF Typed, TypeOK
<1>1. ASSUME NEW w \in Workers, PrepareNew(w)
      PROVE  Appends
  BY <1>1 DEF PrepareNew, Appends, Fresh, HoldsLease
<1>2. ASSUME NEW w \in Workers, NEW f,
             run[w].execution \in DOMAIN executions,
             Moves(executions[run[w].execution], f),
             executions' = [executions EXCEPT ![run[w].execution] = f],
             f.status = "completed" => status' = Promoted,
             f.status # "completed" => UNCHANGED status,
             UNCHANGED <<attempt, live, requested, regenerations>>
      PROVE  MovesOne
  <2>1. executions[run[w].execution] \in Execution
    BY <1>2
  <2>2. f \in Execution
    BY <1>2, <2>1, MovesType
  <2> QED
    BY <1>2, <2>2 DEF MovesOne
<1>3. ASSUME NEW w \in Workers, Dispatch(w)
      PROVE  MovesOne
  <2> DEFINE n == run[w].execution
             f == [executions[n] EXCEPT !.status = "calling", !.called = TRUE]
  <2>1. n \in DOMAIN executions /\ executions[n] \in Execution
    BY <1>3 DEF Dispatch, At, Located, Busy
  <2>2. Moves(executions[n], f)
    BY <1>3 DEF Dispatch, MayDispatch, StatusOf, Moves
  <2>3. executions' = [executions EXCEPT ![n] = f]
    BY <1>3 DEF Dispatch
  <2>4. f.status = "calling"
    BY <2>1 DEF Execution
  <2> QED
    BY <1>2, <1>3, <2>1, <2>2, <2>3, <2>4 DEF Dispatch, itemVars
<1>4. ASSUME NEW w \in Workers, Capture(w)
      PROVE  UNCHANGED executions \/ MovesOne
  <2> DEFINE n == run[w].execution
             f == [executions[n] EXCEPT !.status = "storing"]
  <2>1. CASE ~ Captures(w)
    BY <1>4, <2>1 DEF Capture
  <2>2. CASE Captures(w)
    <3>1. n \in DOMAIN executions /\ executions[n] \in Execution
      BY <1>4 DEF Capture, At, Located, Busy
    <3>2. Moves(executions[n], f)
      BY <2>2 DEF Captures, StatusOf, Moves
    <3>3. executions' = [executions EXCEPT ![n] = f]
      BY <1>4, <2>2 DEF Capture, SetStatus
    <3>4. f.status = "storing"
      BY <3>1 DEF Execution
    <3> QED
      BY <1>2, <1>4, <3>1, <3>2, <3>3, <3>4 DEF Capture, itemVars
  <2> QED
    BY <2>1, <2>2
<1>5. ASSUME NEW w \in Workers, Finalize(w)
      PROVE  MovesOne
  <2> DEFINE n == run[w].execution
             f == [executions[n] EXCEPT !.status = "completed", !.ledger = TRUE]
  <2>1. n \in DOMAIN executions /\ executions[n] \in Execution
    BY <1>5 DEF Finalize, At, Located, Busy
  <2>2. Moves(executions[n], f)
    BY <1>5 DEF Finalize, NeedsFinalizing, StatusOf, Moves
  <2>3. executions' = [executions EXCEPT ![n] = f]
    BY <1>5 DEF Finalize
  <2>4. f.status = "completed"
    BY <2>1 DEF Execution
  <2> QED
    BY <1>2, <1>5, <2>1, <2>2, <2>3, <2>4 DEF Finalize
<1>6. ASSUME NEW w \in Workers, MarkProviderFailure(w)
      PROVE  UNCHANGED executions \/ MovesOne
  <2> DEFINE n == run[w].execution
             f == [executions[n] EXCEPT !.status = run[w].as]
  <2>1. CASE ~ Marks(w)
    BY <1>6, <2>1 DEF MarkProviderFailure
  <2>2. CASE Marks(w)
    <3>1. n \in DOMAIN executions /\ executions[n] \in Execution
      BY <1>6 DEF MarkProviderFailure, At, Located, Busy
    <3>2. run[w].as \in {"failed", "attention"}
      BY DEF Run
    <3>3. Moves(executions[n], f)
      BY <2>2, <3>2 DEF Marks, StatusOf, Moves
    <3>4. executions' = [executions EXCEPT ![n] = f]
      BY <1>6, <2>2 DEF MarkProviderFailure, SetStatus
    <3>5. f.status = run[w].as
      BY <3>1 DEF Execution
    <3> QED
      BY <1>2, <1>6, <3>1, <3>2, <3>3, <3>4, <3>5 DEF MarkProviderFailure, itemVars
  <2> QED
    BY <2>1, <2>2
<1>7. ASSUME NEW w \in Workers, WorkerStep(w),
             ~ PrepareNew(w), ~ Dispatch(w), ~ Capture(w), ~ Finalize(w),
             ~ MarkProviderFailure(w)
      PROVE  UNCHANGED executions
  BY <1>7 DEF WorkerStep, Lease, PrepareFound, PrepareFails, LosesLease,
     SourceUnavailable, CredentialUnavailable, BindExecutionModel, DispatchFails,
     ProviderAnswers, CaptureFails, FinalizeDone, FinalizeFails, MarkFails, Finish,
     Cancel, Crash
<1>8. CASE Expire \/ RegenerateItem \/ UNCHANGED vars
  BY <1>8 DEF Expire, RegenerateItem, vars
<1> QED
  BY <1>1, <1>3, <1>4, <1>5, <1>6, <1>7, <1>8 DEF Next

-----------------------------------------------------------------------------
(* Types, runs and credit. *)

(* A step that changes executions never outruns the credit: an execution is  *)
(* appended when there is none or for a regeneration that was not served.    *)
LEMMA ExecutionsType ==
    ASSUME Typed, Credit, [Next]_vars
    PROVE  /\ executions' \in Seq(Execution)
           /\ DOMAIN executions \subseteq DOMAIN executions'
           /\ Len(executions') <= 1 + regenerations
<1> USE DEF Typed, TypeOK
<1>1. CASE UNCHANGED executions
  BY <1>1
<1>2. CASE Appends
  <2>1. Fresh \in Execution
    BY FreshType
  <2>2. Len(executions) <= regenerations
    <3>1. CASE executions = <<>>
      BY <3>1
    <3>2. CASE executions # <<>>
      BY <1>2, <3>2 DEF Appends, Target, StartsNew, Credit, Unserved
    <3> QED
      BY <3>1, <3>2
  <2> QED
    BY <1>2, <2>1, <2>2, Appending DEF Appends
<1>3. CASE MovesOne
  BY <1>3, Replacing DEF MovesOne
<1> QED
  BY <1>1, <1>2, <1>3, ExecutionChange

(* Every step keeps the types of the item, of its counters and of the faults. *)
LEMMA ItemType ==
    ASSUME Typed, [Next]_vars
    PROVE  /\ status' \in ItemStatuses /\ attempt' \in Nat /\ live' \in BOOLEAN
           /\ live' => status' = "running"
           /\ requested' \in Nat /\ requested' <= attempt' + 1
           /\ faults' \in 0..MaxFaults
           /\ regenerations' \in 0..MaxRegenerations
           /\ regenerations <= regenerations'
<1> USE TextBoundsAssumption DEF Typed, TypeOK, ItemStatuses, Fault
<1>1. ASSUME NEW w \in Workers, Lease(w) \/ Finish(w)
      PROVE  /\ status' \in ItemStatuses /\ attempt' \in Nat /\ live' \in BOOLEAN
             /\ live' => status' = "running"
             /\ UNCHANGED <<requested, faults, regenerations>> /\ attempt' >= attempt
  <2>1. CASE Lease(w)
    BY <2>1 DEF Lease
  <2>2. CASE Finish(w)
    <3>1. UNCHANGED <<attempt, requested, faults, regenerations>>
      BY <2>2 DEF Finish
    <3>2. CASE status' = Outcome(w) /\ live' = FALSE
      <4>1. status' \in ItemStatuses
        BY <3>2 DEF Outcome
      <4>2. live' \in BOOLEAN /\ ~ live'
        BY <3>2, Zenon
      <4>3. attempt' \in Nat /\ attempt' >= attempt
        BY <3>1
      <4> QED
        BY <3>1, <4>1, <4>2, <4>3
    <3>3. CASE UNCHANGED <<status, live>>
      BY <3>1, <3>3
    <3>4. (status' = Outcome(w) /\ live' = FALSE) \/ UNCHANGED <<status, live>>
      BY <2>2, Zenon DEF Finish
    <3> QED
      BY <3>2, <3>3, <3>4
  <2> QED
    BY <1>1, <2>1, <2>2
<1>2. ASSUME NEW w \in Workers, Finalize(w)
      PROVE  /\ status' \in ItemStatuses /\ (status # "failed" => status' = status)
             /\ UNCHANGED <<attempt, live, requested, faults, regenerations>>
  BY <1>2 DEF Finalize, Promoted
<1>3. ASSUME NEW w \in Workers, WorkerStep(w), ~ Lease(w), ~ Finish(w), ~ Finalize(w)
      PROVE  /\ UNCHANGED <<status, attempt, live, requested, regenerations>>
             /\ faults' \in 0..MaxFaults
  BY <1>3 DEF WorkerStep, itemVars, TransactionFails, PrepareNew, PrepareFound, PrepareFails,
     LosesLease, SourceUnavailable, CredentialUnavailable, BindExecutionModel, Dispatch,
     DispatchFails, ProviderAnswers, Capture, CaptureFails, FinalizeDone, FinalizeFails,
     MarkProviderFailure, MarkFails, Cancel, Crash
<1>4. CASE Expire
  <2>1. faults' \in 0..MaxFaults
    <3>1. (faults < MaxFaults /\ faults' = faults + 1) \/ faults' = faults
      BY <1>4 DEF Expire
    <3> QED
      BY <3>1
  <2>2. live' \in BOOLEAN /\ ~ live'
    BY <1>4, Zenon DEF Expire
  <2>3. UNCHANGED <<status, attempt, requested, regenerations>>
    BY <1>4 DEF Expire
  <2> QED
    BY <2>1, <2>2, <2>3
<1>5. CASE RegenerateItem
  BY <1>5 DEF RegenerateItem
<1>6. CASE UNCHANGED vars
  BY <1>6 DEF vars
<1> QED
  BY <1>1, <1>2, <1>3, <1>4, <1>5, <1>6 DEF Next

(* A run is typed and, where it needs one, has one of the n executions. *)
Good(r, n) ==
    /\ r \in Run
    /\ r.execution \in 0..n
    /\ r.step \in Busy => r.execution # 0

(* An idle run, and one that was leased just now, are good. *)
LEMMA GoodIdle ==
    ASSUME NEW n \in Nat, NEW k \in Nat, NEW q,
           q = IdleRun \/ q = [IdleRun EXCEPT !.step = "prepare", !.attempt = k]
    PROVE  Good(q, n)
<1>1. IdleRun \in Run
  BY DEF IdleRun, Run, Steps
<1>2. CASE q = IdleRun
  BY <1>1, <1>2 DEF Good, Busy, IdleRun
<1>3. CASE q = [IdleRun EXCEPT !.step = "prepare", !.attempt = k]
  <2>1. q \in Run /\ q.step = "prepare" /\ q.execution = IdleRun.execution
    BY <1>1, <1>3 DEF Run, Steps
  <2>2. IdleRun.execution = 0
    BY DEF IdleRun
  <2> QED
    BY <2>1, <2>2 DEF Good, Busy
<1> QED
  BY <1>2, <1>3

(* Every step of a worker leaves it with a good run. *)
LEMMA RunType ==
    ASSUME Typed, Credit, [Next]_vars, NEW v \in Workers
    PROVE  Good(run'[v], Len(executions'))
<1> DEFINE n == Len(executions)
           m == Len(executions')
<1>1. /\ executions \in Seq(Execution) /\ DOMAIN executions = 1..n /\ n \in Nat
      /\ executions' \in Seq(Execution) /\ m \in Nat
      /\ DOMAIN executions \subseteq 1..m
  <2>1. executions \in Seq(Execution)
    BY DEF Typed, TypeOK
  <2>2. executions' \in Seq(Execution) /\ DOMAIN executions \subseteq DOMAIN executions'
    BY ExecutionsType
  <2> QED
    BY <2>1, <2>2
<1>2. n <= m
  <2>1. n # 0 => n \in 1..m
    BY <1>1
  <2> QED
    BY <1>1, <2>1
<1>3. run[v] \in Run /\ run \in [Workers -> Run] /\ attempt \in Nat
  BY DEF Typed, TypeOK
<1>4. Good(run[v], n)
  BY <1>1, <1>3 DEF Typed, TypeOK, Located, Good
<1>5. CASE UNCHANGED run[v]
  BY <1>1, <1>2, <1>4, <1>5 DEF Good
<1>6. ASSUME run' = [run EXCEPT ![v] = IdleRun]
      PROVE  Good(run'[v], m)
  <2>1. run'[v] = IdleRun /\ 0 \in Nat
    BY <1>3, <1>6
  <2> QED
    BY <1>1, <2>1, GoodIdle, Zenon
<1>7. ASSUME NEW s \in Steps, Goes(v, s), s \in Busy => run[v].execution # 0
      PROVE  Good(run'[v], m)
  <2>1. run'[v] = [run[v] EXCEPT !.step = s]
    BY <1>3, <1>7 DEF Goes
  <2>2. run'[v] \in Run /\ run'[v].step = s /\ run'[v].execution = run[v].execution
    BY <1>3, <1>7, <2>1 DEF Run
  <2> QED
    BY <1>1, <1>2, <1>4, <1>7, <2>2 DEF Good
<1>8. ASSUME NEW a \in {"failed", "attention"}, NEW t \in {"succeeded", "failed"},
             GoesMarking(v, a, t), run[v].execution # 0
      PROVE  Good(run'[v], m)
  <2>1. run'[v] = [run[v] EXCEPT !.step = "mark", !.as = a, !.then = t]
    BY <1>3, <1>8 DEF GoesMarking
  <2>2. run'[v] \in Run /\ run'[v].execution = run[v].execution
    BY <1>3, <2>1 DEF Run, Steps
  <2> QED
    BY <1>1, <1>2, <1>4, <1>8, <2>2 DEF Good
<1>9. run[v].step \in Busy => run[v].execution # 0
  BY <1>4 DEF Good
<1>10. CASE Lease(v)
  <2>1. run'[v] = [IdleRun EXCEPT !.step = "prepare", !.attempt = attempt + 1]
    BY <1>3, <1>10 DEF Lease
  <2>2. attempt + 1 \in Nat
    BY <1>3
  <2> QED
    BY <1>1, <2>1, <2>2, GoodIdle, Zenon
<1>11. CASE PrepareNew(v)
  <2>1. m = n + 1
    BY <1>1, <1>3, <1>11, FreshType, Appending DEF PrepareNew, Fresh
  <2>2. run'[v] = [run[v] EXCEPT !.step = "ready", !.fresh = TRUE, !.execution = n + 1]
    BY <1>3, <1>11 DEF PrepareNew
  <2>3. n + 1 \in Nat /\ n + 1 \in 1..m
    BY <1>1, <2>1
  <2>4. run'[v] \in Run /\ run'[v].execution = n + 1
    BY <1>3, <2>2, <2>3 DEF Run, Steps
  <2> QED
    BY <2>3, <2>4 DEF Good
<1>12. CASE PrepareFound(v)
  <2>1. Target \in 1..n
    BY <1>1, <1>12 DEF PrepareFound, Target
  <2>2. Continues(executions[Target].status) \in Steps
    BY DEF Continues, Steps
  <2>3. PICK s \in Steps :
          run'[v] = [run[v] EXCEPT !.execution = Target, !.as = "attention", !.step = s]
    BY <1>3, <1>12, <2>2 DEF PrepareFound
  <2>4. Target \in Nat /\ Target \in 1..m
    BY <1>1, <1>2, <2>1
  <2>5. run'[v] \in Run /\ run'[v].execution = Target
    BY <1>3, <2>3, <2>4 DEF Run
  <2> QED
    BY <2>4, <2>5 DEF Good
<1>13. CASE LosesLease(v) \/ Finish(v) \/ Crash(v)
  BY <1>6, <1>13 DEF LosesLease, Finish, Crash, Stops
<1>14. CASE PrepareFails(v) \/ FinalizeFails(v) \/ MarkProviderFailure(v) \/ MarkFails(v)
  <2>1. PICK s \in {"failed", "succeeded"} : Goes(v, s)
    BY <1>3, <1>14 DEF PrepareFails, FinalizeFails, MarkProviderFailure, MarkFails, Run
  <2> QED
    BY <1>7, <2>1 DEF Steps, Busy
<1>15. CASE SourceUnavailable(v) \/ CredentialUnavailable(v) \/ DispatchFails(v) \/ CaptureFails(v)
  BY <1>8, <1>9, <1>15 DEF SourceUnavailable, CredentialUnavailable, DispatchFails,
     CaptureFails, At, Busy
<1>16. CASE BindExecutionModel(v)
  BY <1>7, <1>8, <1>9, <1>16 DEF BindExecutionModel, At, Busy, Steps
<1>17. CASE Dispatch(v)
  BY <1>7, <1>9, <1>17 DEF Dispatch, At, Busy, Steps
<1>18. CASE ProviderAnswers(v)
  BY <1>7, <1>8, <1>9, <1>18 DEF ProviderAnswers, At, Busy, Steps
<1>19. CASE Capture(v)
  BY <1>7, <1>8, <1>9, <1>19 DEF Capture, At, Busy, Steps
<1>20. CASE Finalize(v) \/ FinalizeDone(v)
  <2>1. PICK s \in {"failed", "succeeded"} : Goes(v, s)
    BY <1>20 DEF Finalize, FinalizeDone
  <2> QED
    BY <1>7, <2>1 DEF Steps, Busy
<1>21. CASE Cancel(v)
  <2>1. run'[v] = [run[v] EXCEPT !.cancelled = TRUE]
    BY <1>3, <1>21 DEF Cancel
  <2>2. /\ run'[v] \in Run /\ run'[v].step = run[v].step
        /\ run'[v].execution = run[v].execution
    BY <1>3, <2>1 DEF Run
  <2> QED
    BY <1>1, <1>2, <1>4, <2>2 DEF Good
<1>22. ASSUME NEW w \in Workers, w # v, WorkerStep(w) PROVE UNCHANGED run[v]
  BY <1>3, <1>22 DEF WorkerStep, Goes, GoesMarking, Stops, Lease, PrepareNew, PrepareFound,
     PrepareFails, LosesLease, SourceUnavailable, CredentialUnavailable, BindExecutionModel,
     Dispatch, DispatchFails, ProviderAnswers, Capture, CaptureFails, Finalize, FinalizeDone,
     FinalizeFails, MarkProviderFailure, MarkFails, Finish, Cancel, Crash
<1>23. CASE Expire \/ RegenerateItem \/ UNCHANGED vars
  BY <1>5, <1>23 DEF Expire, RegenerateItem, vars
<1> QED
  BY <1>5, <1>10, <1>11, <1>12, <1>13, <1>14, <1>15, <1>16, <1>17, <1>18, <1>19, <1>20,
     <1>21, <1>22, <1>23 DEF Next, WorkerStep

(* No step gives a run to anything but the workers. *)
LEMMA RunDomain ==
    ASSUME Typed, [Next]_vars
    PROVE  run' = [w \in Workers |-> run'[w]]
<1>1. run \in [Workers -> Run]
  BY DEF Typed, TypeOK
<1>2. ASSUME NEW w \in Workers, WorkerStep(w)
      PROVE  run' = [v \in Workers |-> run'[v]]
  BY <1>1, <1>2 DEF WorkerStep, Goes, GoesMarking, Stops, Lease, PrepareNew, PrepareFound,
     PrepareFails, LosesLease, SourceUnavailable, CredentialUnavailable, BindExecutionModel,
     Dispatch, DispatchFails, ProviderAnswers, Capture, CaptureFails, Finalize, FinalizeDone,
     FinalizeFails, MarkProviderFailure, MarkFails, Finish, Cancel, Crash
<1>3. CASE Expire \/ RegenerateItem \/ UNCHANGED vars
  BY <1>1, <1>3 DEF Expire, RegenerateItem, vars
<1> QED
  BY <1>2, <1>3 DEF Next

(* The types and the whereabouts of the runs are kept by every step. *)
LEMMA TypedStep ==
    ASSUME Typed, Credit, [Next]_vars
    PROVE  Typed'
<1>1. /\ executions' \in Seq(Execution) /\ DOMAIN executions' = 1..Len(executions')
      /\ Len(executions') \in Nat
      /\ regenerations \in 0..MaxRegenerations /\ regenerations <= regenerations'
      /\ regenerations' \in 0..MaxRegenerations
      /\ Len(executions') <= 1 + regenerations
  BY ExecutionsType, ItemType DEF Typed, TypeOK
<1>2. Len(executions') <= 1 + regenerations'
  BY <1>1, TextBoundsAssumption
<1>3. \A w \in Workers : /\ run'[w] \in Run
                         /\ run'[w].execution \in 0..Len(executions')
                         /\ run'[w].step \in Busy => run'[w].execution \in DOMAIN executions'
  BY <1>1, RunType DEF Good
<1>4. run' \in [Workers -> Run]
  BY <1>3, RunDomain
<1>5. TypeOK'
  BY <1>1, <1>2, <1>3, <1>4, ItemType DEF TypeOK
<1>6. Located'
  BY <1>3 DEF Located
<1> QED
  BY <1>5, <1>6 DEF Typed

(* Requests for regeneration come from RegenerateItem alone. *)
LEMMA RequestChange ==
    ASSUME [Next]_vars
    PROVE  \/ RegenerateItem /\ UNCHANGED executions
           \/ UNCHANGED <<requested, regenerations>>
<1>1. ASSUME NEW w \in Workers, WorkerStep(w)
      PROVE  UNCHANGED <<requested, regenerations>>
  BY <1>1 DEF WorkerStep, Lease, PrepareNew, PrepareFound,
     PrepareFails, LosesLease, SourceUnavailable, CredentialUnavailable, BindExecutionModel,
     Dispatch, DispatchFails, ProviderAnswers, Capture, CaptureFails, Finalize, FinalizeDone,
     FinalizeFails, MarkProviderFailure, MarkFails, Finish, Cancel, Crash
<1> QED
  BY <1>1 DEF Next, Expire, RegenerateItem, vars

(* An execution that is appended serves the regeneration; each further one    *)
(* has to be asked for, which is what the credit is raised for.              *)
LEMMA CreditStep ==
    ASSUME Typed, Credit, [Next]_vars
    PROVE  Credit'
<1>1. /\ executions \in Seq(Execution) /\ DOMAIN executions = 1..Len(executions)
      /\ Len(executions) \in Nat /\ Len(executions) <= 1 + regenerations
      /\ regenerations \in 0..MaxRegenerations /\ regenerations \in Nat
      /\ requested \in Nat /\ attempt \in Nat
  BY TextBoundsAssumption DEF Typed, TypeOK
<1>2. CASE RegenerateItem /\ UNCHANGED executions
  BY <1>1, <1>2 DEF RegenerateItem, Credit
<1>3. CASE UNCHANGED <<requested, regenerations>>
  <2>1. requested' > 0 => regenerations' > 0
    BY <1>3 DEF Credit
  <2>2. CASE UNCHANGED executions
    BY <1>3, <2>2 DEF Credit, Unserved
  <2>3. CASE MovesOne
    <3>1. PICK n \in DOMAIN executions, f \in Execution :
             Moves(executions[n], f) /\ executions' = [executions EXCEPT ![n] = f]
      BY <2>3 DEF MovesOne
    <3>2. f.attempt = executions[n].attempt
      BY <1>1, <3>1, MovesType
    <3>3. /\ DOMAIN executions' = DOMAIN executions /\ Len(executions') = Len(executions)
          /\ \A k \in DOMAIN executions : executions'[k] = IF k = n THEN f ELSE executions[k]
      BY <1>1, <3>1, Replacing
    <3>4. \A k \in DOMAIN executions : executions'[k].attempt = executions[k].attempt
      BY <3>2, <3>3
    <3> QED
      BY <1>3, <2>1, <3>3, <3>4 DEF Credit, Unserved
  <2>4. CASE Appends
    <3>1. /\ Len(executions') = Len(executions) + 1
          /\ DOMAIN executions' = DOMAIN executions \cup {Len(executions) + 1}
          /\ executions'[Len(executions) + 1] = Fresh
      BY <1>1, <2>4, FreshType, Appending DEF Appends
    <3>2. SUFFICES ASSUME Unserved' PROVE Len(executions') <= regenerations'
      BY <2>1 DEF Credit
    <3>3. requested > 0 /\ attempt < requested
      <4>1. Fresh.attempt = attempt
        BY DEF Fresh
      <4> QED
        BY <1>3, <3>1, <3>2, <4>1 DEF Unserved
    <3>4. executions = <<>>
      BY <1>1, <2>4, <3>3 DEF Appends, Target, StartsNew
    <3> QED
      BY <1>1, <1>3, <3>1, <3>3, <3>4 DEF Credit
  <2> QED
    BY <2>2, <2>3, <2>4, ExecutionChange
<1> QED
  BY <1>2, <1>3, RequestChange

-----------------------------------------------------------------------------
(* What executions record. *)

Sound(e) ==
    /\ e.status = "preparing" => ~ e.called
    /\ e.ledger <=> e.status = "completed"

(* Moving an execution keeps its records in line with its status. *)
LEMMA MovesSound ==
    ASSUME NEW e \in Execution, Sound(e), NEW f, Moves(e, f)
    PROVE  Sound(f)
<1>1. CASE e.status = "preparing" /\ f = [e EXCEPT !.status = "calling", !.called = TRUE]
  BY <1>1 DEF Sound, Execution
<1>2. CASE e.status \in {"calling", "attention"} /\ f = [e EXCEPT !.status = "storing"]
  BY <1>2 DEF Sound, Execution
<1>3. CASE e.status = "storing" /\ f = [e EXCEPT !.status = "completed", !.ledger = TRUE]
  BY <1>3 DEF Sound, Execution
<1>4. ASSUME e.status \in {"preparing", "calling"},
             NEW s \in {"failed", "attention"}, f = [e EXCEPT !.status = s]
      PROVE  Sound(f)
  BY <1>4 DEF Sound, Execution
<1> QED
  BY <1>1, <1>2, <1>3, <1>4 DEF Moves

(* An item becomes failed only when its newest execution has no results. *)
LEMMA BecomesFailed ==
    ASSUME Typed, [Next]_vars, status' = "failed"
    PROVE  status = "failed" \/ ~ LatestCompleted
<1>1. ASSUME NEW w \in Workers, WorkerStep(w), ~ Finish(w)
      PROVE  status = "failed"
  BY <1>1 DEF WorkerStep, itemVars, Promoted, Lease, PrepareNew, PrepareFound,
     PrepareFails, LosesLease, SourceUnavailable, CredentialUnavailable, BindExecutionModel,
     Dispatch, DispatchFails, ProviderAnswers, Capture, CaptureFails, Finalize, FinalizeDone,
     FinalizeFails, MarkProviderFailure, MarkFails, Cancel, Crash
<1>2. ASSUME NEW w \in Workers, Finish(w)
      PROVE  status = "failed" \/ ~ LatestCompleted
  BY <1>2 DEF Finish, Outcome
<1>3. CASE Expire \/ RegenerateItem \/ UNCHANGED vars
  BY <1>3 DEF Expire, RegenerateItem, vars
<1> QED
  BY <1>1, <1>2, <1>3 DEF Next

(* Every step keeps the records right, late workers included. *)
LEMMA RecordedStep ==
    ASSUME Typed, Recorded, [Next]_vars
    PROVE  Recorded'
<1>1. executions \in Seq(Execution) /\ DOMAIN executions = 1..Len(executions)
  BY DEF Typed, TypeOK
<1>2. \A n \in DOMAIN executions : Sound(executions[n])
  BY DEF Recorded, UsageMatchesCompletion, Sound
<1>3. SUFFICES /\ \A n \in DOMAIN executions' : Sound(executions'[n])
               /\ FailureHidesNoResult'
  BY DEF Recorded, UsageMatchesCompletion, Sound
<1>4. CASE UNCHANGED executions
  BY <1>2, <1>4, BecomesFailed DEF Recorded, FailureHidesNoResult, LatestCompleted
<1>5. CASE Appends
  <2>1. Fresh \in Execution
    BY FreshType DEF Typed, TypeOK
  <2>2. Sound(Fresh)
    BY DEF Fresh, Sound
  <2>3. \A n \in DOMAIN executions' : Sound(executions'[n])
    BY <1>1, <1>2, <1>5, <2>1, <2>2, Appending DEF Appends
  <2>4. status' # "failed"
    BY <1>5 DEF Appends, itemVars
  <2> QED
    BY <2>3, <2>4 DEF FailureHidesNoResult
<1>6. CASE MovesOne
  <2>1. PICK n \in DOMAIN executions, f \in Execution :
           /\ Moves(executions[n], f)
           /\ executions' = [executions EXCEPT ![n] = f]
           /\ f.status = "completed" => status' = Promoted
           /\ f.status # "completed" => UNCHANGED status
    BY <1>6 DEF MovesOne
  <2>2. /\ DOMAIN executions' = DOMAIN executions /\ Len(executions') = Len(executions)
        /\ \A k \in DOMAIN executions : executions'[k] = IF k = n THEN f ELSE executions[k]
    BY <1>1, <2>1, Replacing
  <2>3. Sound(f)
    BY <1>1, <1>2, <2>1, MovesSound
  <2>4. FailureHidesNoResult'
    <3>1. SUFFICES ASSUME status' = "failed" PROVE ~ LatestCompleted'
      BY DEF FailureHidesNoResult
    <3>2. f.status # "completed" /\ status = "failed"
      BY <2>1, <3>1 DEF Promoted
    <3>3. executions # <<>> => executions[Len(executions)].status # "completed"
      BY <3>2 DEF Recorded, FailureHidesNoResult, LatestCompleted
    <3>4. executions # <<>> /\ Len(executions) \in DOMAIN executions
      BY <1>1, <2>1
    <3> QED
      BY <2>2, <3>2, <3>3, <3>4 DEF LatestCompleted
  <2> QED
    BY <1>2, <2>2, <2>3, <2>4
<1> QED
  BY <1>4, <1>5, <1>6, ExecutionChange

-----------------------------------------------------------------------------
(* The invariant and what follows from it. *)

(* The invariant holds at the start. *)
LEMMA InitIInv == Init => IInv
<1> SUFFICES ASSUME Init PROVE IInv
  OBVIOUS
<1>1. IdleRun \in Run
  BY DEF IdleRun, Run, Steps
<1>2. /\ executions = <<>> /\ executions \in Seq(Execution)
      /\ Len(executions) = 0 /\ DOMAIN executions = {}
  BY DEF Init
<1>3. /\ run \in [Workers -> Run]
      /\ \A w \in Workers : run[w].step = "idle" /\ run[w].execution = 0
  BY <1>1 DEF Init, IdleRun
<1>4. live \in BOOLEAN /\ ~ live
  BY Zenon DEF Init
<1>5. TypeOK
  BY <1>2, <1>3, <1>4, TextBoundsAssumption DEF Init, TypeOK, ItemStatuses
<1>6. Located
  BY <1>3 DEF Located, Busy
<1>7. Credit
  BY DEF Init, Credit, Unserved
<1>8. Recorded
  BY <1>2 DEF Init, Recorded, UsageMatchesCompletion, FailureHidesNoResult, LatestCompleted
<1> QED
  BY <1>5, <1>6, <1>7, <1>8 DEF IInv, Typed

(* Every step keeps the invariant. *)
LEMMA StepIInv == IInv /\ [Next]_vars => IInv'
  BY TypedStep, CreditStep, RecordedStep DEF IInv

(* The invariant holds of every behaviour. *)
LEMMA Invariant == Spec => []IInv
  BY InitIInv, StepIInv, PTL DEF Spec

(* The state is always well typed; in particular there is never more than one *)
(* execution beyond the regenerations that were asked for, although prepare   *)
(* finds out from the executions alone whether one was served.               *)
THEOREM TypeCorrect == Spec => []TypeOK
<1>1. IInv => TypeOK
  BY DEF IInv, Typed
<1> QED
  BY <1>1, Invariant, PTL

(* Whatever lapses, crashes and races there are, the provider is not called   *)
(* more often than once and once more for each regeneration.                 *)
THEOREM PaidOnRequest == Spec => []CallsAreAskedFor
<1>1. ASSUME IInv PROVE CallsAreAskedFor
  <2> DEFINE Called == {n \in DOMAIN executions : executions[n].called}
             len == Len(executions)
  <2>1. /\ len \in Nat /\ DOMAIN executions = 1..len /\ len <= 1 + regenerations
        /\ regenerations \in Nat
    BY <1>1, TextBoundsAssumption DEF IInv, Typed, TypeOK
  <2>2. IsFiniteSet(1..len) /\ Cardinality(1..len) = len
    <3>1. 1 \in Int /\ len \in Int
      BY <2>1
    <3>2. /\ IsFiniteSet(1..len)
          /\ Cardinality(1..len) = IF 1 > len THEN 0 ELSE len - 1 + 1
      BY <3>1, FS_Interval, Zenon
    <3> QED
      BY <2>1, <3>2
  <2>3. Called \subseteq 1..len
    BY <2>1
  <2>4. IsFiniteSet(Called) /\ Cardinality(Called) <= len
    BY <2>2, <2>3, FS_Subset
  <2>5. Cardinality(Called) \in Nat
    BY <2>4, FS_CardinalityType
  <2> QED
    BY <2>1, <2>4, <2>5 DEF CallsAreAskedFor
<1> QED
  BY <1>1, Invariant, PTL

(* Usage is recorded for completed executions and for no other. *)
THEOREM UsageRecorded == Spec => []UsageMatchesCompletion
<1>1. IInv => UsageMatchesCompletion
  BY DEF IInv, Recorded
<1> QED
  BY <1>1, Invariant, PTL

(* No item stays failed beside the results of its newest execution. *)
THEOREM ResultsShow == Spec => []FailureHidesNoResult
<1>1. IInv => FailureHidesNoResult
  BY DEF IInv, Recorded
<1> QED
  BY <1>1, Invariant, PTL

(* Only Dispatch takes a worker from dispatch to the call. *)
LEMMA OnlyDispatchCalls ==
    ASSUME Typed, [Next]_vars, NEW w \in Workers, At(w, "dispatch"), At(w, "calling")'
    PROVE  Dispatch(w)
<1>1. run \in [Workers -> Run] /\ run[w] \in Run /\ run[w].step = "dispatch"
  BY DEF Typed, TypeOK, At
<1>2. run'[w].step = "calling"
  BY DEF At
<1>3. run'[w] # run[w]
  BY <1>1, <1>2
<1>4. ~ LosesLease(w) /\ ~ Crash(w)
  BY <1>1, <1>2 DEF LosesLease, Crash, Stops, IdleRun
<1>5. ~ DispatchFails(w)
  <2>1. SUFFICES ASSUME DispatchFails(w) PROVE run'[w].step = "mark"
    BY <1>2
  <2>2. run'[w] = [run[w] EXCEPT !.step = "mark", !.as = "failed", !.then = "failed"]
    BY <1>1, <2>1 DEF DispatchFails, GoesMarking
  <2> QED
    BY <1>1, <2>2 DEF Run
<1>6. ~ Cancel(w)
  <2>1. SUFFICES ASSUME Cancel(w) PROVE run'[w].step = "dispatch"
    BY <1>2
  <2>2. run'[w] = [run[w] EXCEPT !.cancelled = TRUE]
    BY <1>1, <2>1 DEF Cancel
  <2> QED
    BY <1>1, <2>2 DEF Run
<1>7. ASSUME NEW v \in Workers, v # w, WorkerStep(v) PROVE run'[w] = run[w]
  BY <1>1, <1>7 DEF WorkerStep, Goes, GoesMarking, Stops, Lease, PrepareNew, PrepareFound,
     PrepareFails, LosesLease, SourceUnavailable, CredentialUnavailable, BindExecutionModel,
     Dispatch, DispatchFails, ProviderAnswers, Capture, CaptureFails, Finalize, FinalizeDone,
     FinalizeFails, MarkProviderFailure, MarkFails, Finish, Cancel, Crash
<1>8. ~ Expire /\ ~ RegenerateItem /\ ~ UNCHANGED vars
  BY <1>3 DEF Expire, RegenerateItem, vars
<1>9. WorkerStep(w)
  BY <1>3, <1>7, <1>8 DEF Next
<1> QED
  BY <1>1, <1>4, <1>5, <1>6, <1>9 DEF WorkerStep, At, Lease, PrepareNew, PrepareFound,
     PrepareFails, SourceUnavailable, CredentialUnavailable, BindExecutionModel,
     ProviderAnswers, Capture, CaptureFails, Finalize, FinalizeDone, FinalizeFails,
     MarkProviderFailure, MarkFails, Finish

(* A call that was dispatched is never dispatched again, by anybody. *)
THEOREM DispatchedOnce == Spec => CalledOnce
<1>1. ASSUME IInv, [Next]_vars, NEW w \in Workers, At(w, "dispatch"), At(w, "calling")'
      PROVE  ~ executions[run[w].execution].called
  <2>1. Dispatch(w) /\ run[w].execution \in DOMAIN executions
    BY <1>1, OnlyDispatchCalls DEF IInv, Typed, Located, Busy, At
  <2>2. executions[run[w].execution].status = "preparing"
    BY <2>1 DEF Dispatch, MayDispatch, StatusOf
  <2> QED
    BY <1>1, <2>1, <2>2 DEF IInv, Recorded
<1>2. IInv /\ [Next]_vars =>
        [\A w \in Workers : At(w, "dispatch") /\ At(w, "calling")' =>
            ~ executions[run[w].execution].called]_vars
  BY <1>1
<1> QED
  BY <1>2, Invariant, PTL DEF Spec, CalledOnce

(* No late failure takes a stored answer back, and nothing takes a completed  *)
(* execution back.                                                           *)
THEOREM AnswerStays == Spec => StoredAnswerStays
<1>1. ASSUME IInv, [Next]_vars, NEW k \in DOMAIN executions,
             executions[k].status \in {"storing", "completed"}
      PROVE  executions'[k].status \in {"storing", "completed"}
  <2>1. executions \in Seq(Execution) /\ executions[k] \in Execution
    BY <1>1 DEF IInv, Typed, TypeOK
  <2>2. CASE UNCHANGED executions
    BY <1>1, <2>2
  <2>3. CASE Appends
    <3>1. executions'[k] = executions[k]
      BY <1>1, <2>1, <2>3, FreshType, Appending DEF Appends, IInv, Typed, TypeOK
    <3> QED
      BY <1>1, <3>1
  <2>4. CASE MovesOne
    <3>1. PICK n \in DOMAIN executions, f \in Execution :
             Moves(executions[n], f) /\ executions' = [executions EXCEPT ![n] = f]
      BY <2>4 DEF MovesOne
    <3>2. executions'[k] = IF k = n THEN f ELSE executions[k]
      BY <1>1, <2>1, <3>1, Replacing
    <3>3. executions[n].status = "storing" => f.status = "completed"
      BY <2>1, <3>1 DEF Moves, Execution
    <3>4. executions[n].status # "completed"
      BY <3>1 DEF Moves
    <3> QED
      BY <1>1, <3>2, <3>3, <3>4
  <2> QED
    BY <1>1, <2>2, <2>3, <2>4, ExecutionChange DEF IInv
<1>2. IInv /\ [Next]_vars =>
        [\A n \in DOMAIN executions :
            executions[n].status \in {"storing", "completed"} =>
               executions'[n].status \in {"storing", "completed"}]_vars
  BY <1>1
<1> QED
  BY <1>2, Invariant, PTL DEF Spec, StoredAnswerStays
=============================================================================
