------------------------ MODULE ImageExecutionProofs ------------------------
(***************************************************************************)
(* What ImageExecution.tla does for any number of workers, faults,          *)
(* regenerations and revisions.                                             *)
(*                                                                         *)
(* A step moves one run (Runs) and one execution with its turn, the run's   *)
(* own (RowsChange).  The inductive invariant says on top of the types      *)
(* where a run stands (Located), that no two runs share an attempt or an    *)
(* execution (Apart), that one turn waits at most (OneWaits), what is stored *)
(* at each step (Stored), and that a turn that waits was not sent (Unsent).  *)
(***************************************************************************)
EXTENDS ImageExecution, FiniteSetTheorems, SequenceTheorems, TLAPS

(* Between prepare and the end of Execute, a run works on its execution;     *)
(* under the newest lease, that is the newest execution.                     *)
Busy == {"ready", "dispatch", "calling", "claim", "persist", "commit", "cleanup", "fail",
         "succeeded"}
Placed(r, newest, n) ==
    /\ r.step \in Busy => r.execution # 0
    /\ r.step \in {"idle", "prepare"} => r.execution = 0
    /\ r.step # "idle" => r.attempt <= newest
    /\ (r.step # "idle" /\ r.attempt = newest /\ r.execution # 0) => r.execution = n
Located == \A w \in Workers : Placed(run[w], attempt, Len(executions))

Apart ==
    \A v, w \in Workers : v # w =>
        /\ run[v].execution # 0 => run[v].execution # run[w].execution
        /\ (run[v].step # "idle" /\ run[w].step # "idle") => run[v].attempt # run[w].attempt

OneWaits == \A t, u \in QueuedTurns : t = u

Typed == TypeOK /\ Located /\ Apart /\ OneWaits

(* What the bucket and the rows hold for a run: an image is put before it is *)
(* recorded, and removed only when it was not.                               *)
Kept(r, rows, images) ==
    /\ r.step \in {"ready", "dispatch", "calling", "claim", "persist"}
           => rows[r.execution].result = "none"
    /\ r.step \in {"persist", "commit", "succeeded"} => r.execution \in images
    /\ r.step \in {"commit", "succeeded"} => rows[r.execution].result = "seen"
    /\ r.step = "cleanup" => rows[r.execution].result # "seen"
Stored ==
    /\ \A w \in Workers : Kept(run[w], executions, objects)
    /\ \A n \in DOMAIN executions :
           executions[n].status = "completed" => executions[n].result # "none"
    /\ ResultsHaveImages

(* A turn that was sent waits no more, and under the newest lease a run that *)
(* is about to send its turn is the first to do so.                          *)
Unsent ==
    /\ \A n \in DOMAIN executions :
           executions[n].called => turns[executions[n].turn] # "queued"
    /\ \A w \in Workers, n \in DOMAIN executions :
           /\ run[w].step \in {"ready", "dispatch"} /\ run[w].attempt = attempt
           /\ executions[n].turn = executions[run[w].execution].turn
           => ~ executions[n].called
    /\ TurnCalledOnce

IInv == Typed /\ Stored /\ Unsent

-----------------------------------------------------------------------------
(* The ways of a step *)

Fresh == [turn |-> Turn, status |-> "preparing", called |-> FALSE, result |-> "none"]

Prepares(w) ==
    /\ At(w, "prepare") /\ HoldsLease(w)
    /\ executions' = Append(executions, Fresh)
    /\ turns' = IF Turn > Len(turns) THEN Append(turns, "queued") ELSE turns
    /\ UNCHANGED <<objects, status, attempt>>

(* A run's own execution and its turn change; a call is recorded under the   *)
(* lease, a result when it is persisted.                                     *)
Sets(w) ==
    LET n == run[w].execution IN
    /\ run[w].step \in Busy
    /\ UNCHANGED <<objects, status, attempt>>
    /\ \E f \in Execution, s \in TurnStatuses \ {"queued"} :
           /\ executions' = [executions EXCEPT ![n] = f]
           /\ turns' = [turns EXCEPT ![executions[n].turn] = s]
           /\ f.turn = executions[n].turn
           /\ f.called => executions[n].called \/ (At(w, "dispatch") /\ HoldsLease(w))
           /\ \/ f.result = executions[n].result
              \/ /\ At(w, "persist") /\ f.result # "none"
                 /\ f.result = "seen" => run'[w].step = "commit"
           /\ f.status = "completed" => f.result # "none"

Keeps == UNCHANGED <<executions, turns>>

(* The next place of run w: a new lease, the end, its execution, or the next *)
(* step with the execution it has.                                           *)
Moves(w, q) ==
    /\ q.attempt = run[w].attempt /\ q.execution = run[w].execution
    /\ run[w].step # "idle" /\ q.step # "idle"
    /\ q.step = "prepare" => run[w].step = "prepare"
    /\ q.step = "ready" => run[w].step = "ready"
    /\ q.step = "dispatch" => run[w].step \in {"ready", "dispatch"}
    /\ q.step \in Busy => run[w].step \in Busy

Runs(w, q) ==
    /\ q \in Run /\ run' = [run EXCEPT ![w] = q]
    /\ \/ /\ q.step = "prepare" /\ q.execution = 0
          /\ q.attempt = attempt + 1 /\ attempt' = attempt + 1 /\ Keeps
       \/ /\ q = IdleRun /\ UNCHANGED attempt /\ Keeps
       \/ /\ q.step = "ready" /\ q.execution = Len(executions) + 1
          /\ q.attempt = run[w].attempt /\ Prepares(w)
       \/ /\ Moves(w, q) /\ UNCHANGED attempt
          /\ Keeps \/ (Sets(w) /\ q.step \notin {"ready", "dispatch"})

-----------------------------------------------------------------------------
(* Facts about the ways of a step *)

(* An execution that is replaced, or added at the end, leaves the others.    *)
LEMMA Replacing ==
    ASSUME NEW S, NEW s \in Seq(S), NEW n \in DOMAIN s, NEW f \in S
    PROVE  /\ [s EXCEPT ![n] = f] \in Seq(S)
           /\ Len([s EXCEPT ![n] = f]) = Len(s)
           /\ DOMAIN [s EXCEPT ![n] = f] = DOMAIN s
           /\ \A m \in DOMAIN s : [s EXCEPT ![n] = f][m] = IF m = n THEN f ELSE s[m]
<1>1. DOMAIN s = 1..Len(s)
  OBVIOUS
<1> QED
  BY <1>1, ExceptSeq

LEMMA Appending ==
    ASSUME NEW S, NEW s \in Seq(S), NEW f \in S
    PROVE  /\ Append(s, f) \in Seq(S)
           /\ Len(Append(s, f)) = Len(s) + 1
           /\ DOMAIN s = 1..Len(s) /\ Len(s) \in Nat
           /\ DOMAIN Append(s, f) = 1..(Len(s) + 1)
           /\ \A m \in 1..(Len(s) + 1) :
                  Append(s, f)[m] = IF m = Len(s) + 1 THEN f ELSE s[m]
<1>1. DOMAIN s = 1..Len(s) /\ Len(s) \in Nat
  OBVIOUS
<1>2. /\ Append(s, f) \in Seq(S)
      /\ Len(Append(s, f)) = Len(s) + 1
      /\ \A m \in 1..Len(s) : Append(s, f)[m] = s[m]
      /\ Append(s, f)[Len(s) + 1] = f
  BY AppendProperties
<1> QED
  BY <1>1, <1>2

(* The next turn is the oldest that waits, or a new one.                     *)
LEMMA TurnFacts ==
    ASSUME Typed
    PROVE  /\ Turn \in 1..(Len(turns) + 1) /\ Len(turns) \in Nat
           /\ DOMAIN turns = 1..Len(turns)
           /\ Turn <= Len(turns) => Turn \in QueuedTurns
           /\ Turn > Len(turns) => Turn = Len(turns) + 1 /\ QueuedTurns = {}
<1>1. /\ turns \in Seq(TurnStatuses) /\ DOMAIN turns = 1..Len(turns) /\ Len(turns) \in Nat
  BY DEF Typed, TypeOK
<1>2. CASE QueuedTurns = {}
  BY <1>1, <1>2 DEF Turn
<1>3. CASE QueuedTurns # {}
  <2>1. PICK t \in QueuedTurns : \A u \in QueuedTurns : u = t
    BY <1>3 DEF Typed, OneWaits
  <2>2. Turn = CHOOSE u \in QueuedTurns : \A v \in QueuedTurns : u <= v
    BY <1>3 DEF Turn
  <2>3. t \in Nat
    BY <1>1 DEF QueuedTurns
  <2>4. \A v \in QueuedTurns : t <= v
    BY <2>1, <2>3
  <2>5. Turn \in QueuedTurns
    BY <2>2, <2>4
  <2> QED
    BY <1>1, <2>5 DEF QueuedTurns
<1> QED
  BY <1>2, <1>3

(* What prepare appends is well typed, with a turn that is there.            *)
LEMMA PrepareRows ==
    ASSUME Typed, NEW w \in Workers, Prepares(w)
    PROVE  /\ Fresh \in Execution
           /\ executions' \in Seq(Execution) /\ turns' \in Seq(TurnStatuses)
           /\ Len(executions) \in Nat /\ DOMAIN executions = 1..Len(executions)
           /\ Len(executions') = Len(executions) + 1
           /\ DOMAIN executions' = 1..(Len(executions) + 1)
           /\ \A n \in 1..(Len(executions) + 1) :
                  executions'[n] = IF n = Len(executions) + 1 THEN Fresh ELSE executions[n]
           /\ DOMAIN turns \subseteq DOMAIN turns' /\ Turn \in DOMAIN turns'
           /\ Len(turns') \in {Len(turns), Len(turns) + 1} /\ Len(turns) \in Nat
           /\ \A t \in DOMAIN turns' : turns'[t] = IF t = Turn THEN "queued" ELSE turns[t]
           /\ \A t \in DOMAIN turns' : t # Turn => t \in DOMAIN turns
<1>1. executions \in Seq(Execution) /\ turns \in Seq(TurnStatuses)
  BY DEF Typed, TypeOK
<1>2. Turn \in Nat
  BY TurnFacts
<1>3. Fresh \in Execution
  BY <1>2 DEF Fresh, Execution, ExecutionStatuses
<1>4. /\ executions' \in Seq(Execution)
      /\ Len(executions) \in Nat /\ DOMAIN executions = 1..Len(executions)
      /\ Len(executions') = Len(executions) + 1
      /\ DOMAIN executions' = 1..(Len(executions) + 1)
      /\ \A n \in 1..(Len(executions) + 1) :
             executions'[n] = IF n = Len(executions) + 1 THEN Fresh ELSE executions[n]
  BY <1>1, <1>3, Appending DEF Prepares
<1>5. CASE Turn > Len(turns)
  <2>1. /\ turns' = Append(turns, "queued") /\ "queued" \in TurnStatuses
        /\ Turn = Len(turns) + 1
    BY <1>5, TurnFacts DEF Prepares, TurnStatuses
  <2>2. /\ turns' \in Seq(TurnStatuses) /\ Len(turns') = Len(turns) + 1
        /\ DOMAIN turns = 1..Len(turns) /\ Len(turns) \in Nat
        /\ DOMAIN turns' = 1..(Len(turns) + 1)
        /\ \A t \in 1..(Len(turns) + 1) :
               turns'[t] = IF t = Len(turns) + 1 THEN "queued" ELSE turns[t]
    BY <1>1, <2>1, Appending
  <2> QED
    BY <1>3, <1>4, <2>1, <2>2
<1>6. CASE Turn <= Len(turns)
  <2>1. turns' = turns /\ Turn \in DOMAIN turns /\ turns[Turn] = "queued"
    BY <1>2, <1>6, TurnFacts DEF Prepares, QueuedTurns
  <2> QED
    BY <1>1, <1>3, <1>4, <2>1, TurnFacts
<1> QED
  BY <1>2, <1>5, <1>6, TurnFacts

(* What a run sets is its own execution and the turn of that.                *)
LEMMA SetRows ==
    ASSUME Typed, NEW w \in Workers, Sets(w)
    PROVE  LET n == run[w].execution
           IN  /\ n \in DOMAIN executions /\ executions[n] \in Execution
               /\ executions[n].turn \in DOMAIN turns
               /\ executions' \in Seq(Execution) /\ turns' \in Seq(TurnStatuses)
               /\ Len(executions') = Len(executions) /\ DOMAIN executions' = DOMAIN executions
               /\ Len(turns') = Len(turns) /\ DOMAIN turns' = DOMAIN turns
               /\ \A m \in DOMAIN executions : m # n => executions'[m] = executions[m]
               /\ \A m \in DOMAIN executions : executions'[m].turn = executions[m].turn
               /\ \A t \in DOMAIN turns : turns'[t] = "queued" =>
                      t # executions[n].turn /\ turns[t] = "queued"
               /\ executions'[n].called =>
                      executions[n].called \/ (At(w, "dispatch") /\ HoldsLease(w))
               /\ \/ executions'[n].result = executions[n].result
                  \/ /\ At(w, "persist") /\ executions'[n].result # "none"
                     /\ executions'[n].result = "seen" => run'[w].step = "commit"
               /\ executions'[n].status = "completed" => executions'[n].result # "none"
<1> DEFINE n == run[w].execution
<1>1. executions \in Seq(Execution) /\ turns \in Seq(TurnStatuses)
  BY DEF Typed, TypeOK
<1>2. n \in DOMAIN executions
  <2>1. n \in 0..Len(executions) /\ n # 0
    BY DEF Sets, Typed, TypeOK, Located, Placed
  <2> QED
    BY <1>1, <2>1
<1>3. executions[n] \in Execution /\ executions[n].turn \in DOMAIN turns
  BY <1>1, <1>2 DEF Typed, TypeOK
<1>4. PICK f \in Execution, s \in TurnStatuses \ {"queued"} :
           /\ executions' = [executions EXCEPT ![n] = f]
           /\ turns' = [turns EXCEPT ![executions[n].turn] = s]
           /\ f.turn = executions[n].turn
           /\ f.called => executions[n].called \/ (At(w, "dispatch") /\ HoldsLease(w))
           /\ \/ f.result = executions[n].result
              \/ /\ At(w, "persist") /\ f.result # "none"
                 /\ f.result = "seen" => run'[w].step = "commit"
           /\ f.status = "completed" => f.result # "none"
  BY DEF Sets
<1>5. /\ executions' \in Seq(Execution) /\ Len(executions') = Len(executions)
      /\ DOMAIN executions' = DOMAIN executions
      /\ \A m \in DOMAIN executions : executions'[m] = IF m = n THEN f ELSE executions[m]
  BY <1>1, <1>2, <1>4, Replacing
<1>6. /\ turns' \in Seq(TurnStatuses) /\ Len(turns') = Len(turns)
      /\ DOMAIN turns' = DOMAIN turns
      /\ \A t \in DOMAIN turns : turns'[t] = IF t = executions[n].turn THEN s ELSE turns[t]
  BY <1>1, <1>3, <1>4, Replacing
<1>7. executions'[n] = f
  BY <1>2, <1>5
<1> HIDE DEF n
<1>8. \A m \in DOMAIN executions : executions'[m].turn = executions[m].turn
  BY <1>4, <1>5
<1>9. \A t \in DOMAIN turns : turns'[t] = "queued" =>
          t # executions[n].turn /\ turns[t] = "queued"
  BY <1>6
<1> QED
  BY <1>2, <1>3, <1>4, <1>5, <1>6, <1>7, <1>8, <1>9 DEF n

-----------------------------------------------------------------------------
(* Every step of a worker is one of the ways above. *)

(* A run that goes to a step keeps its attempt and its execution.            *)
LEMMA Going ==
    ASSUME Typed, NEW w \in Workers, NEW s \in Steps, s # "idle",
           run[w].step # "idle", UNCHANGED attempt,
           Keeps \/ (Sets(w) /\ s \notin {"ready", "dispatch"}),
           s = "prepare" => run[w].step = "prepare",
           s = "ready" => run[w].step = "ready",
           s = "dispatch" => run[w].step \in {"ready", "dispatch"},
           s \in Busy => run[w].step \in Busy,
           NEW as \in {"failed", "attention"}, NEW cancelled \in BOOLEAN,
           run' = [run EXCEPT ![w] = [run[w] EXCEPT !.step = s, !.as = as,
                                                    !.cancelled = cancelled]]
    PROVE  \E q : Runs(w, q) /\ q.step = s
<1> DEFINE q == [run[w] EXCEPT !.step = s, !.as = as, !.cancelled = cancelled]
<1>1. run[w] \in Run
  BY DEF Typed, TypeOK
<1>2. /\ q \in Run /\ q.step = s
      /\ q.attempt = run[w].attempt /\ q.execution = run[w].execution
  BY <1>1 DEF Run
<1> HIDE DEF q
<1>3. Moves(w, q)
  BY <1>2 DEF Moves
<1>4. run' = [run EXCEPT ![w] = q]
  BY DEF q
<1> QED
  BY <1>2, <1>3, <1>4 DEF Runs

LEMMA GoesOn ==
    ASSUME Typed, NEW w \in Workers, NEW s \in Steps, s \notin {"idle", "prepare", "ready"},
           run[w].step # "idle", UNCHANGED attempt,
           Keeps \/ (Sets(w) /\ s \notin {"ready", "dispatch"}),
           s = "dispatch" => run[w].step \in {"ready", "dispatch"},
           s \in Busy => run[w].step \in Busy,
           Goes(w, s) \/ (s = "fail" /\ \E as \in {"failed", "attention"} : GoesFailing(w, as))
    PROVE  \E q : Runs(w, q)
<1>1. /\ run[w] \in Run /\ run[w].as \in {"failed", "attention"}
      /\ run[w].cancelled \in BOOLEAN
  BY DEF Typed, TypeOK, Run
<1>2. CASE Goes(w, s)
  <2>1. [run[w] EXCEPT !.step = s] =
        [run[w] EXCEPT !.step = s, !.as = run[w].as, !.cancelled = run[w].cancelled]
    BY <1>1 DEF Run
  <2>2. run' = [run EXCEPT ![w] = [run[w] EXCEPT !.step = s]]
    BY <1>2 DEF Goes
  <2> QED
    BY <1>1, <2>1, <2>2, Going
<1>3. ASSUME NEW as \in {"failed", "attention"}, GoesFailing(w, as), s = "fail"
      PROVE  \E q : Runs(w, q)
  <2>1. [run[w] EXCEPT !.step = s, !.as = as] =
        [run[w] EXCEPT !.step = s, !.as = as, !.cancelled = run[w].cancelled]
    BY <1>1 DEF Run
  <2>2. run' = [run EXCEPT ![w] = [run[w] EXCEPT !.step = s, !.as = as]]
    BY <1>3 DEF GoesFailing
  <2> QED
    BY <1>1, <2>1, <2>2, Going
<1> QED
  BY <1>2, <1>3

LEMMA Stopping ==
    ASSUME NEW w \in Workers, Stops(w), UNCHANGED attempt, Keeps
    PROVE  \E q : Runs(w, q)
<1>1. IdleRun \in Run
  BY DEF IdleRun, Run, Steps
<1> QED
  BY <1>1 DEF Stops, Runs

(* dispatch, persistResult and fail: what they set.                          *)
LEMMA DispatchSets ==
    ASSUME Typed, NEW w \in Workers, Dispatch(w)
    PROVE  Sets(w)
<1> DEFINE n == run[w].execution
           f == [executions[n] EXCEPT !.status = "calling", !.called = TRUE]
           s == IF turns[executions[n].turn] = "queued" THEN "running"
                ELSE turns[executions[n].turn]
<1>1. /\ run[w].step = "dispatch" /\ HoldsLease(w) /\ UNCHANGED <<objects, status, attempt>>
      /\ executions' = [executions EXCEPT ![n] = f]
      /\ turns' = [turns EXCEPT ![executions[n].turn] = s]
  BY DEF Dispatch, At, MayDispatch, Mine, item
<1>2. n \in DOMAIN executions /\ executions[n] \in Execution
      /\ executions[n].turn \in DOMAIN turns
  BY <1>1 DEF Typed, TypeOK, Located, Placed, Busy
<1>3. s \in TurnStatuses \ {"queued"}
  BY <1>2 DEF Typed, TypeOK, TurnStatuses
<1>4. /\ f \in Execution /\ f.turn = executions[n].turn /\ f.result = executions[n].result
      /\ f.status = "calling"
  BY <1>2 DEF Execution, ExecutionStatuses
<1> HIDE DEF f, s
<1> QED
  BY <1>1, <1>3, <1>4 DEF Sets, At, Busy

LEMMA RecordSets ==
    ASSUME Typed, NEW w \in Workers, At(w, "persist"), NEW seen \in {"seen", "unseen"},
           Records(w, seen), seen = "seen" => run'[w].step = "commit",
           UNCHANGED <<objects, status, attempt>>
    PROVE  Sets(w)
<1> DEFINE n == run[w].execution
           f == [executions[n] EXCEPT !.status = "completed", !.result = seen]
<1>1. /\ executions' = [executions EXCEPT ![n] = f]
      /\ turns' = [turns EXCEPT ![executions[n].turn] = "completed"]
  BY DEF Records, Mine
<1>2. n \in DOMAIN executions /\ executions[n] \in Execution
  BY DEF Typed, TypeOK, Located, Placed, Busy, At
<1>3. /\ f \in Execution /\ f.turn = executions[n].turn /\ f.called = executions[n].called
      /\ f.status = "completed" /\ f.result = seen
  BY <1>2 DEF Execution, ExecutionStatuses
<1>4. "completed" \in TurnStatuses \ {"queued"}
  BY DEF TurnStatuses
<1> HIDE DEF f
<1> QED
  BY <1>1, <1>3, <1>4 DEF Sets, At, Busy

LEMMA FailSets ==
    ASSUME Typed, NEW w \in Workers, Fail(w), ~ Keeps
    PROVE  Sets(w)
<1> DEFINE n == run[w].execution
           f == [executions[n] EXCEPT !.status = run[w].as]
<1>1. /\ run[w].step = "fail" /\ UNCHANGED <<objects, status, attempt>>
      /\ executions' = [executions EXCEPT ![n] = f]
      /\ turns' = [turns EXCEPT ![executions[n].turn] = run[w].as]
  BY DEF Fail, At, Mine, item, Keeps
<1>2. n \in DOMAIN executions /\ executions[n] \in Execution
  BY <1>1 DEF Typed, TypeOK, Located, Placed, Busy
<1>3. run[w].as \in {"failed", "attention"}
  BY DEF Typed, TypeOK, Run
<1>4. /\ f \in Execution /\ f.turn = executions[n].turn /\ f.called = executions[n].called
      /\ f.status = run[w].as /\ f.result = executions[n].result
  BY <1>2, <1>3 DEF Execution, ExecutionStatuses
<1>5. run[w].as \in TurnStatuses \ {"queued"} /\ run[w].as # "completed"
  BY <1>3 DEF TurnStatuses
<1> HIDE DEF f
<1> QED
  BY <1>1, <1>4, <1>5 DEF Sets, At, Busy

LEMMA Leased ==
    ASSUME NEW k \in Nat
    PROVE  LET q == [IdleRun EXCEPT !.step = "prepare", !.attempt = k]
           IN  q \in Run /\ q.step = "prepare" /\ q.attempt = k /\ q.execution = 0
<1>1. IdleRun \in Run /\ IdleRun.execution = 0
  BY DEF IdleRun, Run, Steps
<1> QED
  BY <1>1 DEF Run, Steps

LEMMA StepRuns ==
    ASSUME Typed, NEW w \in Workers, WorkerStep(w)
    PROVE  \E q : Runs(w, q)
<1> USE DEF Keeps, item
<1>1. /\ run \in [Workers -> Run] /\ attempt \in Nat /\ run[w] \in Run
      /\ executions \in Seq(Execution) /\ Len(executions) \in Nat
  BY DEF Typed, TypeOK
<1>2. CASE Lease(w)
  <2> DEFINE q == [IdleRun EXCEPT !.step = "prepare", !.attempt = attempt + 1]
  <2>1. /\ q \in Run /\ q.step = "prepare" /\ q.attempt = attempt + 1 /\ q.execution = 0
    <3>1. attempt + 1 \in Nat
      BY <1>1
    <3> QED
      BY <3>1, Leased
  <2>2. run' = [run EXCEPT ![w] = q] /\ attempt' = attempt + 1 /\ Keeps
    BY <1>2 DEF Lease
  <2> HIDE DEF q
  <2> QED
    BY <2>1, <2>2 DEF Runs
<1>3. CASE Prepare(w)
  <2> DEFINE q == [run[w] EXCEPT !.step = "ready", !.execution = Len(executions) + 1]
  <2>1. /\ q \in Run /\ q.step = "ready" /\ q.attempt = run[w].attempt
        /\ q.execution = Len(executions) + 1
    <3>1. Len(executions) + 1 \in Nat
      BY <1>1
    <3>2. run[w] \in Run
      BY <1>1
    <3> QED
      BY <3>1, <3>2 DEF Run, Steps
  <2>2. run' = [run EXCEPT ![w] = q] /\ Prepares(w)
    BY <1>3 DEF Prepare, Prepares, Fresh
  <2> HIDE DEF q
  <2> QED
    BY <2>1, <2>2 DEF Runs
<1>4. CASE PrepareLost(w) \/ Finish(w) \/ Crash(w)
  BY <1>4, Stopping DEF PrepareLost, Finish, Crash
<1>5. CASE PrepareFails(w)
  BY <1>5, GoesOn DEF PrepareFails, At, Steps, Busy
<1>6. CASE ReadsInputs(w)
  BY <1>6, GoesOn DEF ReadsInputs, At, Steps, Busy
<1>7. CASE Dispatch(w)
  <2>1. Sets(w) /\ Goes(w, "calling") /\ UNCHANGED attempt /\ run[w].step = "dispatch"
    BY <1>7, DispatchSets DEF Dispatch, At
  <2> QED
    BY <2>1, GoesOn DEF Steps, Busy
<1>8. CASE DispatchFails(w)
  BY <1>8, GoesOn DEF DispatchFails, At, Steps, Busy
<1>9. CASE ProviderAnswers(w)
  BY <1>9, GoesOn DEF ProviderAnswers, At, Steps, Busy
<1>10. CASE ClaimGenerated(w) \/ ClaimFails(w)
  BY <1>10, GoesOn DEF ClaimGenerated, ClaimFails, At, Steps, Busy
<1>11. CASE PersistResult(w)
  <2>1. /\ run[w].step = "persist" /\ Goes(w, "commit") /\ UNCHANGED <<objects, status, attempt>>
        /\ Records(w, "seen")
    BY <1>11 DEF PersistResult, At
  <2>2. run'[w].step = "commit"
    BY <1>1, <2>1 DEF Goes, Run
  <2>3. Sets(w)
    BY <2>1, <2>2, RecordSets DEF At
  <2> QED
    BY <2>1, <2>3, GoesOn DEF Steps, Busy
<1>12. CASE PersistFails(w)
  <2>1. /\ run[w].step = "persist" /\ Goes(w, "cleanup")
        /\ UNCHANGED <<objects, status, attempt>>
        /\ Keeps \/ Records(w, "unseen")
    BY <1>12 DEF PersistFails, At
  <2>2. Keeps \/ Sets(w)
    BY <2>1, RecordSets DEF At
  <2> QED
    BY <2>1, <2>2, GoesOn DEF Steps, Busy
<1>13. CASE CommitGenerated(w)
  BY <1>13, GoesOn DEF CommitGenerated, At, Steps, Busy
<1>14. CASE CommitFails(w) \/ CleanupGenerated(w)
  BY <1>14, GoesOn DEF CommitFails, CleansUp, CleanupGenerated, At, Steps, Busy
<1>15. CASE Fail(w)
  <2>1. run[w].step = "fail" /\ Goes(w, "failed") /\ UNCHANGED attempt
    BY <1>15 DEF Fail, At, Reports
  <2>2. Keeps \/ Sets(w)
    BY <1>15, FailSets
  <2> QED
    BY <2>1, <2>2, GoesOn DEF Steps, Busy
<1>16. CASE Cancel(w)
  <2>1. run[w].step \in Steps \ {"idle"} /\ UNCHANGED attempt /\ Keeps
    BY <1>1, <1>16 DEF Cancel, At, Run
  <2>2. [run[w] EXCEPT !.cancelled = TRUE] =
        [run[w] EXCEPT !.step = run[w].step, !.as = run[w].as, !.cancelled = TRUE]
    BY <1>1 DEF Run
  <2>3. run' = [run EXCEPT ![w] = [run[w] EXCEPT !.cancelled = TRUE]]
    BY <1>16 DEF Cancel
  <2>4. run[w].as \in {"failed", "attention"}
    BY <1>1 DEF Run
  <2> QED
    BY <2>1, <2>2, <2>3, <2>4, Going
<1> QED
  BY <1>2, <1>3, <1>4, <1>5, <1>6, <1>7, <1>8, <1>9, <1>10, <1>11, <1>12, <1>13, <1>14,
     <1>15, <1>16 DEF WorkerStep

-----------------------------------------------------------------------------
(* Types, places and the one turn that waits. *)

(* The rows stay typed, and each execution keeps a turn that is there.       *)
LEMMA RowsType ==
    ASSUME Typed, NEW w \in Workers, NEW q, Runs(w, q)
    PROVE  /\ executions' \in Seq(Execution) /\ turns' \in Seq(TurnStatuses)
           /\ DOMAIN executions' = 1..Len(executions')
           /\ Len(executions) \in Nat /\ Len(executions') \in Nat
           /\ Len(executions') = IF Prepares(w) THEN Len(executions) + 1 ELSE Len(executions)
           /\ Len(turns') - Len(turns) <= Len(executions') - Len(executions)
           /\ DOMAIN turns \subseteq DOMAIN turns'
           /\ \A n \in DOMAIN executions' : executions'[n].turn \in DOMAIN turns'
           /\ \A t, u \in DOMAIN turns' : turns'[t] = "queued" /\ turns'[u] = "queued" => t = u
<1>1. /\ executions \in Seq(Execution) /\ turns \in Seq(TurnStatuses)
      /\ Len(executions) \in Nat /\ Len(turns) \in Nat
      /\ DOMAIN executions = 1..Len(executions)
      /\ \A n \in DOMAIN executions : executions[n].turn \in DOMAIN turns
      /\ \A t, u \in DOMAIN turns : turns[t] = "queued" /\ turns[u] = "queued" => t = u
  BY DEF Typed, TypeOK, OneWaits, QueuedTurns
<1>2. CASE Prepares(w)
  <2>1. \A n \in 1..(Len(executions) + 1) : executions'[n].turn \in DOMAIN turns'
    <3> SUFFICES ASSUME NEW n \in 1..(Len(executions) + 1)
                 PROVE  executions'[n].turn \in DOMAIN turns'
      OBVIOUS
    <3>1. /\ executions'[n] = IF n = Len(executions) + 1 THEN Fresh ELSE executions[n]
          /\ Turn \in DOMAIN turns' /\ DOMAIN turns \subseteq DOMAIN turns'
      BY <1>2, PrepareRows
    <3>2. CASE n = Len(executions) + 1
      BY <3>1, <3>2 DEF Fresh
    <3>3. CASE n # Len(executions) + 1
      <4>1. n \in DOMAIN executions
        BY <1>1, <3>3
      <4> QED
        BY <1>1, <3>1, <3>3, <4>1
    <3> QED
      BY <3>2, <3>3
  <2>2. \A t, u \in DOMAIN turns' : turns'[t] = "queued" /\ turns'[u] = "queued" => t = u
    <3>1. \A t \in DOMAIN turns' : turns'[t] = "queued" => t = Turn
      <4> SUFFICES ASSUME NEW t \in DOMAIN turns', turns'[t] = "queued", t # Turn PROVE FALSE
        OBVIOUS
      <4>1. t \in QueuedTurns
        BY <1>2, PrepareRows DEF QueuedTurns
      <4>2. Turn \in QueuedTurns
        BY <4>1, TurnFacts
      <4> QED
        BY <4>1, <4>2 DEF Typed, OneWaits
    <3> QED
      BY <3>1
  <2>3. /\ executions' \in Seq(Execution) /\ turns' \in Seq(TurnStatuses)
        /\ Len(executions') = Len(executions) + 1
        /\ DOMAIN executions' = 1..(Len(executions) + 1)
        /\ DOMAIN turns \subseteq DOMAIN turns'
        /\ Len(turns') = Len(turns) \/ Len(turns') = Len(turns) + 1
    BY <1>2, PrepareRows
  <2>4. Len(turns') - Len(turns) <= Len(executions') - Len(executions)
    BY <1>1, <2>3
  <2> QED
    BY <1>1, <1>2, <2>1, <2>2, <2>3, <2>4
<1>3. CASE ~ Prepares(w) /\ Keeps
  BY <1>1, <1>3 DEF Keeps
<1>4. CASE ~ Prepares(w) /\ Sets(w)
  <2>1. /\ executions' \in Seq(Execution) /\ turns' \in Seq(TurnStatuses)
        /\ Len(executions') = Len(executions) /\ DOMAIN executions' = DOMAIN executions
        /\ Len(turns') = Len(turns) /\ DOMAIN turns' = DOMAIN turns
    BY <1>4, SetRows
  <2>2. \A n \in DOMAIN executions : executions'[n].turn = executions[n].turn
    BY <1>4, SetRows
  <2>3. \A t \in DOMAIN turns : turns'[t] = "queued" => turns[t] = "queued"
    BY <1>4, SetRows
  <2> QED
    BY <1>1, <1>4, <2>1, <2>2, <2>3
<1> QED
  BY <1>2, <1>3, <1>4 DEF Runs

(* Every run stays typed and at its place, apart from the others.            *)
LEMMA PlacesStep ==
    ASSUME Typed, NEW w \in Workers, NEW q, Runs(w, q)
    PROVE  /\ run' \in [Workers -> Run] /\ attempt' \in Nat
           /\ \A v \in Workers : run'[v].execution \in 0..Len(executions')
           /\ Located' /\ Apart'
<1>1. /\ run \in [Workers -> Run] /\ attempt \in Nat
      /\ \A v \in Workers : /\ run[v].execution \in 0..Len(executions)
                            /\ Placed(run[v], attempt, Len(executions))
  BY DEF Typed, TypeOK, Located
<1>2. q \in Run /\ run' \in [Workers -> Run]
      /\ \A v \in Workers : run'[v] = IF v = w THEN q ELSE run[v]
  BY <1>1 DEF Runs
<1>3. Len(executions) \in Nat /\ Len(executions')
          = IF Prepares(w) THEN Len(executions) + 1 ELSE Len(executions)
  BY RowsType
<1>4. ASSUME NEW v \in Workers, NEW u \in Workers, u # v
      PROVE  /\ run[v].execution # 0 => run[v].execution # run[u].execution
             /\ (run[v].step # "idle" /\ run[u].step # "idle")
                    => run[v].attempt # run[u].attempt
  BY <1>4 DEF Typed, Apart
<1>5. CASE /\ q.step = "prepare" /\ q.execution = 0
           /\ q.attempt = attempt + 1 /\ attempt' = attempt + 1 /\ Keeps
  <2>1. Len(executions') = Len(executions)
    BY <1>5 DEF Keeps
  <2>2. \A v \in Workers : Placed(run'[v], attempt', Len(executions'))
                             /\ run'[v].execution \in 0..Len(executions')
    BY <1>1, <1>2, <1>3, <1>5, <2>1 DEF Placed, Busy, Run
  <2>3. \A v \in Workers : run[v].step # "idle" => run[v].attempt # attempt + 1
    BY <1>1 DEF Placed, Run
  <2>4. Apart'
    BY <1>2, <1>4, <1>5, <2>3 DEF Apart
  <2> QED
    BY <1>1, <1>2, <1>5, <2>2, <2>4 DEF Located
<1>6. CASE q = IdleRun /\ UNCHANGED attempt /\ Keeps
  <2>1. q.step = "idle" /\ q.execution = 0
    BY <1>6 DEF IdleRun
  <2>2. Len(executions') = Len(executions)
    BY <1>6 DEF Keeps
  <2>3. \A v \in Workers : Placed(run'[v], attempt', Len(executions'))
                             /\ run'[v].execution \in 0..Len(executions')
    BY <1>1, <1>2, <1>3, <1>6, <2>1, <2>2 DEF Placed, Busy
  <2>4. Apart'
    BY <1>2, <1>4, <2>1 DEF Apart
  <2> QED
    BY <1>1, <1>2, <1>6, <2>3, <2>4 DEF Located
<1>7. CASE /\ q.step = "ready" /\ q.execution = Len(executions) + 1
           /\ q.attempt = run[w].attempt /\ Prepares(w)
  <2>1. run[w].attempt = attempt /\ run[w].step = "prepare" /\ attempt' = attempt
        /\ Len(executions') = Len(executions) + 1
    BY <1>3, <1>7 DEF Prepares, HoldsLease, At
  <2>2. \A v \in Workers \ {w} : run[v].step # "idle" => run[v].attempt # attempt
    BY <1>4, <2>1
  <2>3. \A v \in Workers : Placed(run'[v], attempt', Len(executions'))
                             /\ run'[v].execution \in 0..Len(executions')
    BY <1>1, <1>2, <1>3, <1>7, <2>1, <2>2 DEF Placed, Busy
  <2>4. \A v \in Workers : run[v].execution # Len(executions) + 1
    BY <1>1, <1>3
  <2>5. Apart'
    BY <1>2, <1>4, <1>7, <2>1, <2>4 DEF Apart
  <2> QED
    BY <1>1, <1>2, <2>1, <2>3, <2>5 DEF Located
<1>8. CASE Moves(w, q) /\ UNCHANGED attempt /\ (Keeps \/ Sets(w))
  <2>1. Len(executions') = Len(executions)
    BY <1>8, SetRows DEF Keeps
  <2>2. \A v \in Workers : Placed(run'[v], attempt', Len(executions'))
                             /\ run'[v].execution \in 0..Len(executions')
    BY <1>1, <1>2, <1>3, <1>8, <2>1 DEF Moves, Placed, Busy
  <2>3. Apart'
    BY <1>2, <1>4, <1>8 DEF Apart, Moves
  <2> QED
    BY <1>1, <1>2, <1>8, <2>2, <2>3 DEF Located
<1> QED
  BY <1>5, <1>6, <1>7, <1>8 DEF Runs

LEMMA RowsGrow ==
    ASSUME Typed, NEW w \in Workers, NEW q, Runs(w, q)
    PROVE  DOMAIN executions \subseteq DOMAIN executions'
<1>1. executions \in Seq(Execution)
  BY DEF Typed, TypeOK
<1>2. DOMAIN executions = 1..Len(executions)
  BY <1>1
<1>3. /\ DOMAIN executions' = 1..Len(executions') /\ Len(executions) \in Nat
      /\ Len(executions') \in Nat
      /\ Len(executions') = Len(executions) \/ Len(executions') = Len(executions) + 1
  BY RowsType
<1> DEFINE n == Len(executions)
           m == Len(executions')
<1> HIDE DEF n, m
<1>4. n \in Nat /\ m \in Nat /\ (m = n \/ m = n + 1)
  BY <1>3 DEF n, m
<1>5. 1..n \subseteq 1..m
  BY <1>4
<1> QED
  BY <1>2, <1>3, <1>5 DEF n, m

(* The item and the counters stay typed.                                     *)
LEMMA ItemType ==
    ASSUME Typed, [Next]_vars
    PROVE  /\ status' \in ItemStatuses /\ live' \in BOOLEAN
           /\ live' => status' = "running"
           /\ faults' \in 0..MaxFaults /\ regenerations' \in 0..MaxRegenerations
           /\ revisions' \in 0..MaxRevisions
           /\ objects' \subseteq DOMAIN executions'
<1> USE ImageBoundsAssumption DEF Typed, TypeOK, ItemStatuses, Fault
<1>1. ASSUME NEW w \in Workers, WorkerStep(w)
      PROVE  /\ status' \in ItemStatuses /\ live' \in BOOLEAN
             /\ live' => status' = "running"
             /\ UNCHANGED <<regenerations, revisions>>
             /\ faults' \in 0..MaxFaults
  <2>1. CASE Lease(w)
    BY <2>1 DEF Lease, asked
  <2>2. CASE Finish(w)
    <3>1. UNCHANGED <<faults, regenerations, revisions>>
      BY <2>2 DEF Finish, asked
    <3>2. CASE status' = Outcome(w) /\ live' = FALSE
      <4>1. status' \in ItemStatuses
        BY <3>2 DEF Outcome
      <4>2. live' \in BOOLEAN /\ ~ live'
        BY <3>2, Zenon
      <4> QED
        BY <3>1, <4>1, <4>2
    <3>3. CASE UNCHANGED <<status, live>>
      BY <3>1, <3>3
    <3>4. (status' = Outcome(w) /\ live' = FALSE) \/ UNCHANGED <<status, live>>
      BY <2>2, Zenon DEF Finish
    <3> QED
      BY <3>2, <3>3, <3>4
  <2>3. ASSUME ~ Lease(w), ~ Finish(w)
        PROVE  UNCHANGED <<status, live, regenerations, revisions>> /\ faults' \in 0..MaxFaults
    BY <1>1, <2>3 DEF WorkerStep, item, asked, CallFails, Prepare, PrepareLost, PrepareFails,
       ReadsInputs, Dispatch, DispatchFails, ProviderAnswers, ClaimGenerated, ClaimFails,
       PersistResult, PersistFails, CommitGenerated, CommitFails, CleanupGenerated, Fail,
       Cancel, Crash
  <2> QED
    BY <2>1, <2>2, <2>3
<1>2. ASSUME NEW w \in Workers, WorkerStep(w)
      PROVE  objects' \subseteq DOMAIN executions'
  <2>1. DOMAIN executions \subseteq DOMAIN executions'
    BY <1>2, StepRuns, RowsGrow
  <2>2. objects' \subseteq objects \cup {run[w].execution} /\
        (run[w].step # "claim" => objects' \subseteq objects)
    BY <1>2 DEF WorkerStep, Lease, Prepare, PrepareLost, PrepareFails,
       ReadsInputs, Dispatch, DispatchFails, ProviderAnswers, ClaimGenerated, ClaimFails,
       PersistResult, PersistFails, CommitGenerated, CommitFails, CleanupGenerated, Fail,
       Finish, Cancel, Crash, At
  <2>3. run[w].step = "claim" => run[w].execution \in DOMAIN executions
    BY DEF Located, Placed, Busy
  <2> QED
    BY <2>1, <2>2, <2>3
<1>3. CASE Expire
  <2>1. faults' \in 0..MaxFaults
    <3>1. (faults < MaxFaults /\ faults' = faults + 1) \/ faults' = faults
      BY <1>3 DEF Expire
    <3> QED
      BY <3>1
  <2>2. live' \in BOOLEAN /\ ~ live'
    BY <1>3, Zenon DEF Expire
  <2>3. UNCHANGED <<status, executions, objects, asked>>
    BY <1>3 DEF Expire
  <2> QED
    BY <2>1, <2>2, <2>3 DEF asked
<1>4. CASE RegenerateItem
  BY <1>4 DEF RegenerateItem
<1>5. CASE CreateTurn
  <2>1. live' \in BOOLEAN /\ ~ live'
    BY <1>5, Zenon DEF CreateTurn, Requeues
  <2> QED
    BY <1>5, <2>1 DEF CreateTurn, Requeues
<1>6. CASE UNCHANGED vars
  BY <1>6 DEF vars
<1> QED
  BY <1>1, <1>2, <1>3, <1>4, <1>5, <1>6 DEF Next

(* What a user adds waits alone: no other turn is active.                    *)
LEMMA CreateRows ==
    ASSUME Typed, CreateTurn
    PROVE  /\ turns' \in Seq(TurnStatuses) /\ Len(turns') = Len(turns) + 1 /\ Len(turns) \in Nat
           /\ DOMAIN turns \subseteq DOMAIN turns'
           /\ \A t \in DOMAIN turns : turns'[t] = turns[t] /\ turns[t] # "queued"
           /\ \A t \in DOMAIN turns' : turns'[t] = "queued" => t = Len(turns) + 1
<1>1. turns \in Seq(TurnStatuses) /\ turns' = Append(turns, "queued")
      /\ "queued" \in TurnStatuses
  BY DEF Typed, TypeOK, CreateTurn, TurnStatuses
<1>2. \A t \in DOMAIN turns : turns[t] # "queued"
  BY DEF CreateTurn, MayRevise, ActiveTurns
<1>3. /\ turns' \in Seq(TurnStatuses) /\ Len(turns') = Len(turns) + 1
      /\ DOMAIN turns = 1..Len(turns) /\ Len(turns) \in Nat
      /\ DOMAIN turns' = 1..(Len(turns) + 1)
      /\ \A t \in 1..(Len(turns) + 1) :
             turns'[t] = IF t = Len(turns) + 1 THEN "queued" ELSE turns[t]
  BY <1>1, Appending
<1> QED
  BY <1>2, <1>3

LEMMA TypedStep ==
    ASSUME Typed, [Next]_vars
    PROVE  Typed'
<1>1. ASSUME NEW w \in Workers, WorkerStep(w) PROVE Typed'
  <2>1. PICK q : Runs(w, q)
    BY <1>1, StepRuns
  <2>2. UNCHANGED revisions
    BY <1>1 DEF WorkerStep, asked, Lease, Prepare, PrepareLost, PrepareFails,
       ReadsInputs, Dispatch, DispatchFails, ProviderAnswers, ClaimGenerated, ClaimFails,
       PersistResult, PersistFails, CommitGenerated, CommitFails, CleanupGenerated, Fail,
       Finish, Cancel, Crash
  <2>3. Len(turns') <= Len(executions') + revisions'
    <3>1. /\ Len(turns) <= Len(executions) + revisions
          /\ Len(turns) \in Nat /\ Len(executions) \in Nat /\ revisions \in Nat
      BY ImageBoundsAssumption DEF Typed, TypeOK
    <3>2. /\ Len(turns') - Len(turns) <= Len(executions') - Len(executions)
          /\ turns' \in Seq(TurnStatuses) /\ Len(executions') \in Nat
      BY <2>1, RowsType
    <3>3. Len(turns') \in Nat
      BY <3>2
    <3> QED
      BY <2>2, <3>1, <3>2, <3>3
  <2>4. TypeOK'
    BY <2>1, <2>3, RowsType, PlacesStep, ItemType DEF TypeOK
  <2>5. OneWaits'
    BY <2>1, RowsType DEF OneWaits, QueuedTurns
  <2> QED
    BY <2>1, <2>4, <2>5, PlacesStep DEF Typed
<1>2. CASE CreateTurn
  <2>1. UNCHANGED <<attempt, executions, run>> /\ revisions' = revisions + 1
    BY <1>2 DEF CreateTurn
  <2>2. Located' /\ Apart'
    BY <2>1 DEF Typed, Located, Apart
  <2>3. OneWaits'
    BY <1>2, CreateRows DEF OneWaits, QueuedTurns
  <2>4. Len(turns') <= Len(executions') + revisions'
    <3>1. /\ Len(turns) <= Len(executions) + revisions
          /\ Len(turns) \in Nat /\ Len(executions) \in Nat /\ revisions \in Nat
      BY ImageBoundsAssumption DEF Typed, TypeOK
    <3>2. Len(turns') = Len(turns) + 1
      BY <1>2, CreateRows
    <3> QED
      BY <2>1, <3>1, <3>2
  <2>5. \A n \in DOMAIN executions' : executions'[n].turn \in DOMAIN turns'
    BY <1>2, <2>1, CreateRows DEF Typed, TypeOK
  <2>6. TypeOK'
    BY <1>2, <2>1, <2>4, <2>5, CreateRows, ItemType DEF Typed, TypeOK
  <2> QED
    BY <2>2, <2>3, <2>6 DEF Typed
<1>3. CASE Expire \/ RegenerateItem \/ UNCHANGED vars
  <2>1. UNCHANGED <<attempt, turns, executions, run, revisions>>
    BY <1>3 DEF Expire, RegenerateItem, vars, asked
  <2>2. Located' /\ Apart' /\ OneWaits'
    BY <2>1 DEF Typed, Located, Apart, OneWaits, QueuedTurns
  <2>3. TypeOK'
    BY <2>1, ItemType DEF Typed, TypeOK
  <2> QED
    BY <2>2, <2>3 DEF Typed
<1> QED
  BY <1>1, <1>2, <1>3 DEF Next

-----------------------------------------------------------------------------
(* Images. *)

(* A step leaves the images of other executions where they are.              *)
LEMMA ObjectsStep ==
    ASSUME NEW w \in Workers, WorkerStep(w)
    PROVE  /\ \A n : n # run[w].execution => (n \in objects' <=> n \in objects)
           /\ run[w].step # "cleanup" => objects \subseteq objects'
           /\ run[w].step = "cleanup" => Keeps
  BY DEF WorkerStep, item, Keeps, Lease, Prepare, PrepareLost, PrepareFails,
     ReadsInputs, Dispatch, DispatchFails, ProviderAnswers, ClaimGenerated, ClaimFails,
     PersistResult, PersistFails, CommitGenerated, CommitFails, CleanupGenerated, Fail,
     Finish, Cancel, Crash, At

(* Where a run goes, it takes its execution along.                           *)
LEMMA Taken ==
    ASSUME Typed, NEW w \in Workers
    PROVE  /\ \A s : Goes(w, s) =>
                  run'[w].step = s /\ run'[w].execution = run[w].execution
           /\ \A as : GoesFailing(w, as) => run'[w].step = "fail"
           /\ Stops(w) => run'[w].step = "idle"
<1>1. run \in [Workers -> Run]
  BY DEF Typed, TypeOK
<1> QED
  BY <1>1 DEF Goes, GoesFailing, Stops, IdleRun, Run

LEMMA OwnKept ==
    ASSUME Typed, Stored, NEW w \in Workers, WorkerStep(w)
    PROVE  Kept(run'[w], executions', objects')
<1> DEFINE n == run[w].execution
<1>1. Kept(run[w], executions, objects)
  BY DEF Stored
<1>2. run \in [Workers -> Run]
  BY DEF Typed, TypeOK
<1>3. CASE run'[w].step \in {"idle", "prepare", "fail", "failed"}
  BY <1>3 DEF Kept
<1>4. CASE Lease(w)
  <2>1. run'[w].step = "prepare"
    BY <1>2, <1>4 DEF Lease, IdleRun, Run
  <2> QED
    BY <1>3, <2>1
<1>5. CASE Prepare(w)
  <2>1. run'[w].step = "ready" /\ run'[w].execution = Len(executions) + 1
    BY <1>2, <1>5 DEF Prepare, Run
  <2>2. Prepares(w)
    BY <1>5 DEF Prepare, Prepares, Fresh, item
  <2>3. executions'[Len(executions) + 1] = Fresh
    BY <2>2, PrepareRows
  <2> QED
    BY <2>1, <2>3 DEF Kept, Fresh
<1>6. CASE ReadsInputs(w) \/ ProviderAnswers(w) \/ CommitGenerated(w)
  BY <1>1, <1>6, Taken DEF ReadsInputs, ProviderAnswers, CommitGenerated, Kept, At
<1>7. CASE Dispatch(w)
  <2>1. Sets(w) /\ run[w].step = "dispatch" /\ Goes(w, "calling") /\ objects' = objects
    BY <1>7, DispatchSets DEF Dispatch, At
  <2>2. executions'[n].result = executions[n].result
    BY <2>1, SetRows DEF At
  <2> QED
    BY <1>1, <2>1, <2>2, Taken DEF Kept
<1>8. CASE ClaimGenerated(w)
  BY <1>1, <1>8, Taken DEF ClaimGenerated, Kept, At
<1>9. CASE PersistResult(w)
  <2>1. /\ run[w].step = "persist" /\ Goes(w, "commit") /\ UNCHANGED objects
        /\ executions' = [executions EXCEPT ![n].status = "completed", ![n].result = "seen"]
    BY <1>9 DEF PersistResult, Records, At
  <2>2. n \in DOMAIN executions /\ executions[n] \in Execution
    BY <2>1 DEF Typed, TypeOK, Located, Placed, Busy
  <2>3. executions'[n].result = "seen"
    BY <2>1, <2>2 DEF Execution
  <2>4. run'[w].step = "commit" /\ run'[w].execution = n
    BY <2>1, Taken
  <2>5. n \in objects'
    BY <1>1, <2>1 DEF Kept
  <2> QED
    BY <2>3, <2>4, <2>5 DEF Kept
<1>10. CASE PersistFails(w)
  <2>1. run[w].step = "persist" /\ Goes(w, "cleanup") /\ UNCHANGED objects
        /\ (Keeps \/ Records(w, "unseen"))
    BY <1>10 DEF PersistFails, At, Keeps
  <2>2. n \in DOMAIN executions /\ executions[n] \in Execution
    BY <2>1 DEF Typed, TypeOK, Located, Placed, Busy
  <2>3. executions'[n].result # "seen"
    <3>1. CASE Keeps
      BY <1>1, <2>1, <3>1 DEF Keeps, Kept
    <3>2. CASE Records(w, "unseen")
      <4>1. executions' = [executions EXCEPT ![n].status = "completed", ![n].result = "unseen"]
        BY <3>2 DEF Records
      <4> QED
        BY <2>2, <4>1 DEF Execution
    <3> QED
      BY <2>1, <3>1, <3>2
  <2> QED
    BY <2>1, <2>3, Taken DEF Kept
<1>11. CASE Cancel(w)
  <2>1. /\ run'[w].step = run[w].step /\ run'[w].execution = n
        /\ UNCHANGED <<executions, objects>>
    BY <1>2, <1>11 DEF Cancel, Run
  <2> QED
    BY <1>1, <2>1 DEF Kept
<1>12. ASSUME Goes(w, "failed") \/ (\E as : GoesFailing(w, as)) \/ Stops(w)
       PROVE  Kept(run'[w], executions', objects')
  BY <1>3, <1>12, Taken
<1>13. CASE PrepareLost(w) \/ PrepareFails(w) \/ DispatchFails(w) \/ ClaimFails(w)
         \/ CommitFails(w) \/ CleanupGenerated(w) \/ Fail(w) \/ Finish(w) \/ Crash(w)
  BY <1>12, <1>13 DEF PrepareLost, PrepareFails, DispatchFails, ClaimFails, CommitFails,
     CleansUp, CleanupGenerated, Fail, Reports, Finish, Crash
<1> QED
  BY <1>4, <1>5, <1>6, <1>7, <1>8, <1>9, <1>10, <1>11, <1>13 DEF WorkerStep

(* What the rows of other executions say stays.                              *)
LEMMA OthersStay ==
    ASSUME Typed, NEW w \in Workers, NEW q, Runs(w, q), NEW n \in DOMAIN executions,
           n # run[w].execution
    PROVE  executions'[n] = executions[n]
<1>1. executions \in Seq(Execution)
  BY DEF Typed, TypeOK
<1>2. n \in 1..Len(executions) /\ Len(executions) \in Nat
  BY <1>1
<1>3. CASE Prepares(w)
  <2>1. n \in 1..(Len(executions) + 1) /\ n # Len(executions) + 1
    BY <1>2
  <2> QED
    BY <1>3, <2>1, PrepareRows
<1> QED
  BY <1>3, SetRows DEF Runs, Keeps

(* An image that was recorded stays, and what counts as completed has one.   *)
LEMMA RecordedStay ==
    ASSUME Typed, Stored, NEW w \in Workers, WorkerStep(w)
    PROVE  /\ \A n \in DOMAIN executions' :
                  /\ executions'[n].status = "completed" => executions'[n].result # "none"
                  /\ executions'[n].result = "seen" => n \in objects'
           /\ \A n \in DOMAIN executions :
                  executions[n].result # "none" => executions'[n].result # "none"
<1>1. PICK q : Runs(w, q)
  BY StepRuns
<1>2. /\ \A n \in DOMAIN executions :
             /\ executions[n].status = "completed" => executions[n].result # "none"
             /\ executions[n].result = "seen" => n \in objects
      /\ Kept(run[w], executions, objects)
  BY DEF Stored, ResultsHaveImages, ReferencedImagesExist
<1>3. CASE Prepares(w)
  <2>1. run[w].step = "prepare" /\ UNCHANGED objects
    BY <1>3 DEF Prepares, At
  <2>2. /\ DOMAIN executions = 1..Len(executions) /\ Len(executions) \in Nat
        /\ DOMAIN executions' = 1..(Len(executions) + 1)
        /\ \A n \in 1..(Len(executions) + 1) :
               executions'[n] = IF n = Len(executions) + 1 THEN Fresh ELSE executions[n]
    BY <1>3, PrepareRows
  <2>3. Fresh.status = "preparing" /\ Fresh.result = "none"
    BY DEF Fresh
  <2> HIDE DEF Fresh
  <2> QED
    BY <1>2, <2>1, <2>2, <2>3
<1>4. CASE Keeps
  <2>1. \A n \in DOMAIN executions : executions[n].result = "seen" => n \in objects'
    BY <1>2, ObjectsStep DEF Kept
  <2> QED
    BY <1>2, <1>4, <2>1 DEF Keeps
<1>5. CASE Sets(w)
  <2> DEFINE m == run[w].execution
  <2>1. /\ m \in DOMAIN executions /\ DOMAIN executions' = DOMAIN executions
        /\ executions'[m].status = "completed" => executions'[m].result # "none"
        /\ \/ executions'[m].result = executions[m].result
           \/ run[w].step = "persist" /\ executions'[m].result # "none"
    BY <1>5, SetRows DEF At
  <2>2. objects' = objects
    BY <1>5 DEF Sets
  <2>3. \A n \in DOMAIN executions : n # m => executions'[n] = executions[n]
    BY <1>1, OthersStay
  <2>4. executions'[m].result = "seen" => m \in objects
    BY <1>2, <2>1 DEF Kept
  <2> QED
    BY <1>2, <2>1, <2>2, <2>3, <2>4
<1> QED
  BY <1>1, <1>3, <1>4, <1>5 DEF Runs

(* An item is completed by its newest attempt, for an image of its newest    *)
(* execution.                                                                *)
LEMMA CompletedStep ==
    ASSUME Typed, Stored, NEW w \in Workers, WorkerStep(w)
    PROVE  CompletedHasImage'
<1>1. PICK q : Runs(w, q)
  BY StepRuns
<1>2. executions \in Seq(Execution) /\ Len(executions) \in Nat
      /\ DOMAIN executions = 1..Len(executions)
  BY DEF Typed, TypeOK
<1>3. CASE UNCHANGED status
  <2> SUFFICES ASSUME status = "completed" PROVE CompletedHasImage'
    BY <1>3 DEF CompletedHasImage
  <2>1. executions # <<>> /\ executions[Len(executions)].result # "none"
    BY DEF Stored, ResultsHaveImages, CompletedHasImage
  <2>2. ~ Prepares(w)
    BY DEF Prepares, HoldsLease
  <2>3. Len(executions') = Len(executions)
    BY <1>1, <2>2, RowsType
  <2>4. Len(executions) \in DOMAIN executions
    BY <1>2, <2>1
  <2>5. executions'[Len(executions)].result # "none"
    BY <2>1, <2>4, RecordedStay
  <2>6. executions' # <<>>
    BY <1>2, <2>3, <2>4
  <2> QED
    BY <2>3, <2>5, <2>6 DEF CompletedHasImage
<1>4. CASE Lease(w)
  BY <1>4 DEF Lease, CompletedHasImage
<1>5. CASE Finish(w) /\ status' # status
  <2>1. HoldsLease(w) /\ status' = Outcome(w) /\ UNCHANGED executions
    BY <1>5 DEF Finish
  <2>2. CASE At(w, "succeeded")
    <3>1. /\ run[w].execution # 0 /\ run[w].execution = Len(executions)
          /\ executions[run[w].execution].result = "seen"
      BY <2>1, <2>2 DEF Typed, Located, Placed, Busy, Stored, Kept, HoldsLease, At
    <3>2. executions # <<>>
      BY <1>2, <3>1
    <3> QED
      BY <2>1, <3>1, <3>2 DEF CompletedHasImage
  <2>3. CASE executions # <<>> /\ executions[Len(executions)].status = "completed"
    <3>1. Len(executions) \in DOMAIN executions
      BY <1>2, <2>3
    <3> QED
      BY <2>1, <2>3, <3>1 DEF CompletedHasImage, Stored
  <2> QED
    BY <2>1, <2>2, <2>3 DEF Outcome, CompletedHasImage
<1>6. ASSUME ~ Lease(w), ~ Finish(w) PROVE UNCHANGED status
  BY <1>6 DEF WorkerStep, item, Prepare, PrepareLost, PrepareFails,
     ReadsInputs, Dispatch, DispatchFails, ProviderAnswers, ClaimGenerated, ClaimFails,
     PersistResult, PersistFails, CommitGenerated, CommitFails, CleanupGenerated, Fail,
     Cancel, Crash
<1> QED
  BY <1>3, <1>4, <1>5, <1>6

LEMMA StoredStep ==
    ASSUME Typed, Stored, [Next]_vars
    PROVE  Stored'
<1>1. ASSUME NEW w \in Workers, WorkerStep(w) PROVE Stored'
  <2>1. PICK q : Runs(w, q)
    BY <1>1, StepRuns
  <2>2. ASSUME NEW v \in Workers, v # w
        PROVE  Kept(run'[v], executions', objects')
    <3>1. run'[v] = run[v] /\ Kept(run[v], executions, objects)
          /\ run[v].execution \in 0..Len(executions)
      BY <2>1, <2>2 DEF Runs, Stored, Typed, TypeOK
    <3>2. CASE run[v].execution = 0
      BY <3>1, <3>2 DEF Typed, Located, Placed, Busy, Kept
    <3>3. CASE run[v].execution # 0
      <4>1. run[v].execution # run[w].execution
        BY <2>2, <3>3 DEF Typed, Apart
      <4>2. run[v].execution \in DOMAIN executions
        <5>1. executions \in Seq(Execution)
          BY DEF Typed, TypeOK
        <5> QED
          BY <3>1, <3>3, <5>1
      <4>3. /\ executions'[run[v].execution] = executions[run[v].execution]
            /\ run[v].execution \in objects' <=> run[v].execution \in objects
        BY <1>1, <2>1, <4>1, <4>2, OthersStay, ObjectsStep
      <4> QED
        BY <3>1, <4>3 DEF Kept
    <3> QED
      BY <3>2, <3>3
  <2>3. Kept(run'[w], executions', objects')
    BY <1>1, OwnKept
  <2>4. CompletedHasImage' /\ ReferencedImagesExist'
    BY <1>1, CompletedStep, RecordedStay DEF ReferencedImagesExist
  <2> QED
    BY <1>1, <2>2, <2>3, <2>4, RecordedStay DEF Stored, ResultsHaveImages
<1>2. CASE Expire \/ RegenerateItem \/ CreateTurn \/ UNCHANGED vars
  <2>1. /\ UNCHANGED <<executions, objects, run>>
        /\ status' = "completed" => status = "completed"
    BY <1>2 DEF Expire, RegenerateItem, CreateTurn, Requeues, vars, asked
  <2> QED
    BY <2>1 DEF Stored, ResultsHaveImages, ReferencedImagesExist, CompletedHasImage
<1> QED
  BY <1>1, <1>2 DEF Next

-----------------------------------------------------------------------------
(* Turns. *)

(* What no step but a dispatch does: the turns that were sent stay sent, and *)
(* no other joins them.                                                      *)
LEMMA UnsentKeeps ==
    ASSUME Typed, Unsent, NEW w \in Workers, NEW q, Runs(w, q), Keeps
    PROVE  Unsent'
<1>1. UNCHANGED <<executions, turns>>
  BY DEF Keeps
<1>2. \A v \in Workers : run'[v] = IF v = w THEN q ELSE run[v]
  BY DEF Runs, Typed, TypeOK
<1>3. ASSUME NEW v \in Workers, NEW n \in DOMAIN executions,
             run'[v].step \in {"ready", "dispatch"}, run'[v].attempt = attempt',
             executions[n].turn = executions[run'[v].execution].turn
      PROVE  ~ executions[n].called
  <2>1. CASE v = w
    <3>1. ~ Prepares(w)
      <4>1. executions \in Seq(Execution)
        BY DEF Typed, TypeOK
      <4> QED
        BY <1>1, <4>1, PrepareRows
    <3>2. Moves(w, q) /\ UNCHANGED attempt
      BY <1>2, <1>3, <2>1, <3>1 DEF Runs, IdleRun
    <3>3. /\ run[w].step \in {"ready", "dispatch"} /\ run[w].attempt = attempt
          /\ executions[n].turn = executions[run[w].execution].turn
      BY <1>2, <1>3, <2>1, <3>2 DEF Moves
    <3> QED
      BY <3>3 DEF Unsent
  <2>2. CASE v # w
    <3>1. run'[v] = run[v] /\ run[v].attempt \in Nat /\ attempt \in Nat
          /\ run[v].attempt <= attempt
      BY <1>2, <1>3, <2>2 DEF Typed, TypeOK, Run, Located, Placed
    <3>2. attempt' = attempt
      BY <1>3, <3>1 DEF Runs, Prepares
    <3> QED
      BY <1>3, <3>1, <3>2 DEF Unsent
  <2> QED
    BY <2>1, <2>2
<1> QED
  BY <1>1, <1>3 DEF Unsent, TurnCalledOnce

(* The turn that prepare takes was not sent.                                 *)
LEMMA UnsentPrepares ==
    ASSUME Typed, Unsent, NEW w \in Workers, NEW q, Runs(w, q), Prepares(w)
    PROVE  Unsent'
<1> DEFINE N == Len(executions) + 1
<1>1. /\ N - 1 \in Nat /\ DOMAIN executions = 1..(N - 1) /\ DOMAIN executions' = 1..N
      /\ \A n \in 1..N : executions'[n] = IF n = N THEN Fresh ELSE executions[n]
      /\ \A t \in DOMAIN turns' : turns'[t] = IF t = Turn THEN "queued" ELSE turns[t]
      /\ DOMAIN turns \subseteq DOMAIN turns'
  BY PrepareRows
<1>2. \A n \in DOMAIN executions : executions[n].turn = Turn => ~ executions[n].called
  <2> SUFFICES ASSUME NEW n \in DOMAIN executions, executions[n].turn = Turn
               PROVE  ~ executions[n].called
    OBVIOUS
  <2>1. Turn \in DOMAIN turns
    BY DEF Typed, TypeOK
  <2>2. turns[Turn] = "queued"
    BY <2>1, TurnFacts DEF QueuedTurns
  <2> QED
    BY <2>2 DEF Unsent
<1>3. Fresh.turn = Turn /\ ~ Fresh.called
  BY DEF Fresh
<1>4. \A n \in DOMAIN executions' : executions'[n].called =>
          n \in DOMAIN executions /\ executions[n].called /\ executions'[n] = executions[n]
  <2> HIDE DEF Fresh
  <2> QED
    BY <1>1, <1>3
<1>5. \A n \in DOMAIN executions' : executions'[n].called =>
          turns'[executions'[n].turn] # "queued"
  <2> SUFFICES ASSUME NEW n \in DOMAIN executions', executions'[n].called
               PROVE  turns'[executions'[n].turn] # "queued"
    OBVIOUS
  <2>1. n \in DOMAIN executions /\ executions[n].called /\ executions'[n] = executions[n]
    BY <1>4
  <2>2. executions[n].turn # Turn /\ executions[n].turn \in DOMAIN turns
        /\ turns[executions[n].turn] # "queued"
    BY <1>2, <2>1 DEF Unsent, Typed, TypeOK
  <2> QED
    BY <1>1, <2>1, <2>2
<1>6. ASSUME NEW v \in Workers, NEW n \in DOMAIN executions',
             run'[v].step \in {"ready", "dispatch"}, run'[v].attempt = attempt',
             executions'[n].turn = executions'[run'[v].execution].turn,
             executions'[n].called
      PROVE  FALSE
  <2>1. run[w].step = "prepare" /\ run[w].attempt = attempt /\ attempt' = attempt
    BY DEF Prepares, At, HoldsLease
  <2>2. \A u \in Workers : run'[u] = IF u = w THEN q ELSE run[u]
    BY DEF Runs, Typed, TypeOK
  <2>3. v = w
    BY <1>6, <2>1, <2>2 DEF Typed, Apart
  <2>4. q.execution = N
    <3>1. q.step \in {"ready", "dispatch"}
      BY <1>6, <2>2, <2>3
    <3>2. ~ Keeps
      <4>1. executions \in Seq(Execution) /\ Len(executions') = Len(executions) + 1
        BY PrepareRows DEF Typed, TypeOK
      <4> QED
        BY <4>1 DEF Keeps
    <3> QED
      BY <2>1, <3>1, <3>2 DEF Runs, Moves
  <2>5. executions'[run'[v].execution].turn = Turn
    BY <1>1, <1>3, <2>2, <2>3, <2>4
  <2> QED
    BY <1>2, <1>4, <1>6, <2>5
<1>7. TurnCalledOnce'
  BY <1>4 DEF Unsent, TurnCalledOnce
<1> QED
  BY <1>5, <1>6, <1>7 DEF Unsent

(* A dispatch under the lease is the first of its turn.                      *)
LEMMA UnsentSets ==
    ASSUME Typed, Unsent, NEW w \in Workers, NEW q, Runs(w, q), Sets(w), ~ Keeps
    PROVE  Unsent'
<1> DEFINE m == run[w].execution
           t == executions[m].turn
<1>1. /\ m \in DOMAIN executions /\ DOMAIN executions' = DOMAIN executions
      /\ \A n \in DOMAIN executions : executions'[n].turn = executions[n].turn
      /\ \A u \in DOMAIN turns : turns'[u] = "queued" => u # t /\ turns[u] = "queued"
      /\ executions'[m].called => executions[m].called \/ (At(w, "dispatch") /\ HoldsLease(w))
  BY SetRows
<1>2. \A n \in DOMAIN executions : n # m => executions'[n] = executions[n]
  BY OthersStay
<1>3. \A v \in Workers : run'[v] = IF v = w THEN q ELSE run[v]
  BY DEF Runs, Typed, TypeOK
<1>4. ASSUME NEW n \in DOMAIN executions, executions'[n].called
      PROVE  \/ executions[n].called
             \/ n = m /\ run[w].step = "dispatch" /\ run[w].attempt = attempt
  BY <1>1, <1>2, <1>4 DEF At, HoldsLease
<1>5. ASSUME NEW n \in DOMAIN executions, executions'[n].called
      PROVE  turns'[executions'[n].turn] # "queued"
  <2>1. executions[n].turn \in DOMAIN turns
    BY DEF Typed, TypeOK
  <2>2. CASE executions[n].called
    BY <1>1, <2>1, <2>2 DEF Unsent
  <2>3. CASE n = m
    BY <1>1, <2>1, <2>3
  <2> QED
    BY <1>4, <1>5, <2>2, <2>3
<1>6. ASSUME NEW v \in Workers, NEW n \in DOMAIN executions,
             run'[v].step \in {"ready", "dispatch"}, run'[v].attempt = attempt',
             executions'[n].turn = executions'[run'[v].execution].turn,
             executions'[n].called
      PROVE  FALSE
  <2>1. v # w /\ attempt' = attempt
    <3>1. ~ Prepares(w)
      BY DEF Prepares, Sets, At, Busy
    <3> QED
      BY <1>3, <1>6, <3>1 DEF Runs
  <2>2. run'[v] = run[v] /\ run[v].execution \in DOMAIN executions
    <3>1. run'[v] = run[v]
      BY <1>3, <2>1
    <3>2. run[v].execution # 0 /\ run[v].execution \in 0..Len(executions)
      BY <1>6, <3>1 DEF Typed, TypeOK, Located, Placed, Busy
    <3>3. executions \in Seq(Execution)
      BY DEF Typed, TypeOK
    <3> QED
      BY <3>1, <3>2, <3>3
  <2>3. executions[n].turn = executions[run[v].execution].turn
    BY <1>1, <1>6, <2>2
  <2>4. ~ executions[n].called
    BY <1>6, <2>1, <2>2, <2>3 DEF Unsent
  <2>5. run[w].step = "dispatch" /\ run[w].attempt = attempt
    BY <1>4, <1>6, <2>4
  <2> QED
    BY <1>6, <2>1, <2>2, <2>5 DEF Typed, Apart
<1>7. TurnCalledOnce'
  <2> SUFFICES ASSUME NEW k \in DOMAIN executions, NEW n \in DOMAIN executions,
                      executions'[k].called, executions'[n].called,
                      executions'[k].turn = executions'[n].turn
               PROVE  k = n
    BY <1>1 DEF TurnCalledOnce
  <2>1. executions[k].turn = executions[n].turn
    BY <1>1
  <2>2. CASE executions[k].called /\ executions[n].called
    BY <2>1, <2>2 DEF Unsent, TurnCalledOnce
  <2>3. CASE ~ executions[k].called
    <3>1. k = m /\ run[w].step = "dispatch" /\ run[w].attempt = attempt
      BY <1>4, <2>3
    <3>2. ~ executions[n].called
      BY <2>1, <3>1 DEF Unsent
    <3> QED
      BY <1>4, <3>1, <3>2
  <2>4. CASE ~ executions[n].called
    <3>1. n = m /\ run[w].step = "dispatch" /\ run[w].attempt = attempt
      BY <1>4, <2>4
    <3>2. ~ executions[k].called
      BY <2>1, <3>1 DEF Unsent
    <3> QED
      BY <1>4, <3>1, <3>2
  <2> QED
    BY <2>2, <2>3, <2>4
<1> QED
  BY <1>1, <1>5, <1>6, <1>7 DEF Unsent

LEMMA UnsentStep ==
    ASSUME Typed, Unsent, [Next]_vars
    PROVE  Unsent'
<1>1. ASSUME NEW w \in Workers, WorkerStep(w) PROVE Unsent'
  <2>1. PICK q : Runs(w, q)
    BY <1>1, StepRuns
  <2> QED
    BY <2>1, UnsentKeeps, UnsentPrepares, UnsentSets DEF Runs
<1>2. CASE CreateTurn
  <2>1. UNCHANGED <<attempt, executions, run>>
    BY <1>2 DEF CreateTurn
  <2>2. \A n \in DOMAIN executions :
            turns'[executions[n].turn] = turns[executions[n].turn]
    BY <1>2, CreateRows DEF Typed, TypeOK
  <2> QED
    BY <2>1, <2>2 DEF Unsent, TurnCalledOnce
<1>3. CASE Expire \/ RegenerateItem \/ UNCHANGED vars
  <2>1. UNCHANGED <<attempt, turns, executions, run>>
    BY <1>3 DEF Expire, RegenerateItem, vars, asked
  <2> QED
    BY <2>1 DEF Unsent, TurnCalledOnce
<1> QED
  BY <1>1, <1>2, <1>3 DEF Next

-----------------------------------------------------------------------------
LEMMA Invariant == Spec => []IInv
<1>1. Init => IInv
  <2> SUFFICES ASSUME Init PROVE IInv
    OBVIOUS
  <2>1. /\ executions = <<>> /\ turns = <<>> /\ DOMAIN executions = {} /\ DOMAIN turns = {}
        /\ Len(executions) = 0 /\ Len(turns) = 0
        /\ executions \in Seq(Execution) /\ turns \in Seq(TurnStatuses)
        /\ status = "queued" /\ objects = {}
    BY DEF Init
  <2>2. IdleRun \in Run /\ IdleRun.step = "idle" /\ IdleRun.execution = 0
    BY DEF IdleRun, Run, Steps
  <2>3. run = [w \in Workers |-> IdleRun]
    BY DEF Init
  <2>4. live \in BOOLEAN /\ ~ live
    BY Zenon DEF Init
  <2>5. TypeOK
    BY <2>1, <2>2, <2>3, <2>4, ImageBoundsAssumption DEF Init, TypeOK, ItemStatuses
  <2>6. Located /\ Apart /\ OneWaits
    BY <2>1, <2>2, <2>3 DEF Located, Placed, Busy, Apart, OneWaits, QueuedTurns
  <2>7. Stored
    BY <2>1, <2>2, <2>3 DEF Stored, Kept, ResultsHaveImages, ReferencedImagesExist,
       CompletedHasImage
  <2>8. Unsent
    BY <2>1 DEF Unsent, TurnCalledOnce
  <2> QED
    BY <2>5, <2>6, <2>7, <2>8 DEF IInv, Typed
<1>2. IInv /\ [Next]_vars => IInv'
  BY TypedStep, StoredStep, UnsentStep DEF IInv
<1> QED
  BY <1>1, <1>2, PTL DEF Spec

(* The rows and the runs of image execution stay well formed, and every turn *)
(* beyond the revisions was made for an execution (image_executor.go         *)
(* prepare, image_turns.go CreateTurn).                                      *)
THEOREM TypeCorrect == Spec => []TypeOK
<1>1. IInv => TypeOK
  BY DEF IInv, Typed
<1> QED
  BY <1>1, Invariant, PTL

(* Whatever fails while an image is stored, a result that users see has its  *)
(* image, and an item that is completed has a result (image_executor.go      *)
(* storeGenerated, persistResult, cleanup; worker.go finish).                *)
THEOREM ImagesStand == Spec => []ResultsHaveImages
<1>1. IInv => ResultsHaveImages
  BY DEF IInv, Stored
<1> QED
  BY <1>1, Invariant, PTL

(* One turn waits at most, and each is sent to the provider once, however    *)
(* workers take over and users ask for revisions (image_executor.go prepare, *)
(* dispatch, image_turns.go CreateTurn).                                     *)
THEOREM TurnsStaySingle == Spec => []TurnsAreSingle
<1>1. IInv => TurnsAreSingle
  <2> SUFFICES ASSUME IInv PROVE TurnsAreSingle
    OBVIOUS
  <2>1. \A t, u \in QueuedTurns : t = u
    BY DEF IInv, Typed, OneWaits
  <2>2. CASE QueuedTurns = {}
    BY <2>2, FS_EmptySet DEF IInv, Unsent, TurnsAreSingle, OneQueuedTurn
  <2>3. ASSUME NEW t \in QueuedTurns PROVE Cardinality(QueuedTurns) <= 1
    <3>1. QueuedTurns = {t}
      BY <2>1
    <3>2. Cardinality({t}) = 1
      BY FS_Singleton
    <3> QED
      BY <3>1, <3>2
  <2> QED
    BY <2>2, <2>3 DEF IInv, Unsent, TurnsAreSingle, OneQueuedTurn
<1> QED
  BY <1>1, Invariant, PTL
=============================================================================
