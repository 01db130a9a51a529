--------------------------- MODULE JobQueueProofs ---------------------------
(***************************************************************************)
(* What JobQueue.tla does for any number of jobs, items and workers, any    *)
(* lease duration, any clock delay and any bounds.                          *)
(*                                                                         *)
(* The inductive invariant is built in layers, each preserved on top of the *)
(* first: every lease a worker holds was issued (Issued), no two workers    *)
(* hold the same one (LeaseExclusive), executions and outcomes agree        *)
(* (Executed), and job rows are the aggregate of their items, or queued     *)
(* since a picture was asked for again (Projected).  On top of the types    *)
(* stands Limited.                                                          *)
(*                                                                         *)
(* At the end, what WorkerPool.tla does for pools of any size: the process  *)
(* that the workers of the queue run in.                                    *)
(***************************************************************************)
EXTENDS JobQueue, WorkerPool, FiniteSetTheorems, TLAPS

(* A busy worker holds a lease on some item under an attempt number that the *)
(* item has reached; an idle one holds none.                                 *)
LeasesIssued ==
    \A w \in Workers :
        /\ stage[w] = "idle" => lease[w] = NoLease
        /\ stage[w] # "idle" => /\ lease[w].item \in Items
                                /\ lease[w].attempt > 0
                                /\ lease[w].attempt <= attempt[lease[w].item]

Issued == TypeOK /\ LeasesIssued

(* A worker whose executor succeeded left an execution behind. *)
Executed ==
    /\ OutcomeMatchesExecutions
    /\ \A w \in Workers :
          stage[w] = "succeeded" => <<lease[w].item, lease[w].attempt>> \in executions

(* A picture that was tried before waits: CreateTurn may have asked for it.  *)
PictureWaits(j) ==
    \E i \in ItemsOf(j) \cap Pictures : status[i] = "queued" /\ attempt[i] > 0

Projected ==
    /\ \A j \in Jobs : \/ job[j] = Aggregate(j, status)
                       \/ job[j] = "queued" /\ PictureWaits(j)
    /\ \A i \in Items : status[i] # "cancelled"

IInv == Issued /\ LeaseExclusive /\ Executed /\ Projected

-----------------------------------------------------------------------------
(* Every status the switch of aggregateJob yields is a job status. *)
LEMMA AggregateType == \A j, st : Aggregate(j, st) \in JobStatuses
  BY DEF Aggregate, JobStatuses, ItemStatuses

(* The aggregate of a job depends on its own items only. *)
LEMMA AggregateLocal ==
    ASSUME NEW j, NEW s, NEW t, \A i \in ItemsOf(j) : s[i] = t[i]
    PROVE  Aggregate(j, s) = Aggregate(j, t)
<1>1. {s[i] : i \in ItemsOf(j)} = {t[i] : i \in ItemsOf(j)}
  OBVIOUS
<1> QED
  BY <1>1 DEF Aggregate

(* The statuses aggregateJob reads off uncancelled items say what            *)
(* JobShowsItems says of a job.                                              *)
LEMMA AggregateMeaning ==
    ASSUME NEW j \in Jobs, NEW st,
           \A i \in ItemsOf(j) : st[i] \in {"queued", "running", "completed", "failed"}
    PROVE  /\ Aggregate(j, st) = "queued" <=> \A i \in ItemsOf(j) : st[i] = "queued"
           /\ Aggregate(j, st) = "completed" <=>
                \A i \in ItemsOf(j) : st[i] = "completed"
           /\ Aggregate(j, st) = "failed" <=> \A i \in ItemsOf(j) : st[i] = "failed"
           /\ Aggregate(j, st) = "partial" <=>
                /\ \A i \in ItemsOf(j) : st[i] \in {"completed", "failed"}
                /\ \E i \in ItemsOf(j) : st[i] = "completed"
                /\ \E i \in ItemsOf(j) : st[i] = "failed"
           /\ Aggregate(j, st) = "running" =>
                \E i \in ItemsOf(j) : st[i] \in {"queued", "running"}
           /\ Aggregate(j, st) # "cancelled"
<1> DEFINE kinds == {st[i] : i \in ItemsOf(j)}
<1>1. PICK i0 \in ItemsOf(j) : TRUE
  BY JobsAssumption DEF ItemsOf
<1>2. st[i0] \in kinds /\ kinds \subseteq {"queued", "running", "completed", "failed"}
  BY <1>1
<1>3. \A s : s \in kinds <=> \E i \in ItemsOf(j) : st[i] = s
  OBVIOUS
<1>4. \A s : kinds = {s} <=> \A i \in ItemsOf(j) : st[i] = s
  BY <1>1, <1>3
<1>5. kinds \cap {"queued", "running"} # {} <=>
        \E i \in ItemsOf(j) : st[i] \in {"queued", "running"}
  OBVIOUS
<1> HIDE DEF kinds
<1>6. Aggregate(j, st) =
        IF kinds = {"queued"} THEN "queued"
        ELSE IF kinds \cap {"queued", "running"} # {} THEN "running"
        ELSE IF kinds = {"completed"} THEN "completed"
        ELSE IF kinds = {"failed"} THEN "failed"
        ELSE IF kinds = {"cancelled"} THEN "cancelled"
        ELSE IF "completed" \in kinds THEN "partial"
        ELSE "failed"
  BY DEF Aggregate, kinds
<1>7. kinds # {"cancelled"}
  BY <1>2
<1> QED
  BY <1>1, <1>2, <1>3, <1>4, <1>5, <1>6, <1>7

-----------------------------------------------------------------------------
(* Layer 1: types, and leases that were issued. *)
LEMMA IssuedInit == Init => Issued
  BY TimeAssumption, BoundsAssumption
  DEF Init, Issued, TypeOK, LeasesIssued, ItemStatuses, JobStatuses, Stages, NoLease

(* Every action of a worker, a user or the clock keeps the layer Issued: types, *)
(* and that whoever holds a lease got it from LeaseNext with this attempt. *)
LEMMA IssuedStep == Issued /\ [Next]_vars => Issued'
<1> SUFFICES ASSUME Issued, [Next]_vars PROVE Issued'
  OBVIOUS
<1> USE DEF Issued, TypeOK, LeasesIssued, ItemStatuses, Stages, NoLease, rows
<1>1. ASSUME NEW w \in Workers, NEW i \in Items, NEW k \in 0..Lag, LeaseNext(w, i, k)
      PROVE  Issued'
  <2>1. /\ Expiry(k) \in -Lag..TTL
        /\ NextAttempt(i) = attempt[i] + 1
    BY TimeAssumption DEF Expiry, NextAttempt
  <2>2. job' \in [Jobs -> JobStatuses]
    BY <1>1, AggregateType DEF LeaseNext, AggregateJob
  <2> QED
    BY <1>1, <2>1, <2>2, NamesAssumption DEF LeaseNext
<1>2. ASSUME NEW w \in Workers, NEW k \in 0..Lag, Heartbeat(w, k)
      PROVE  Issued'
  <2>1. Expiry(k) \in -Lag..TTL
    BY TimeAssumption DEF Expiry
  <2> QED
    BY <1>2, <2>1 DEF Heartbeat
<1>3. ASSUME NEW w \in Workers, CancelsExecutor(w), UNCHANGED <<rows, executions>>,
             faults' \in 0..MaxFaults, UNCHANGED <<requests, late>>
      PROVE  Issued'
  <2>1. CASE stage[w] = "executing"
    <3>1. stage' = [stage EXCEPT ![w] = "draining"] /\ UNCHANGED lease
      BY <1>3, <2>1 DEF CancelsExecutor
    <3> QED
      BY <1>3, <2>1, <3>1
  <2>2. CASE stage[w] \in {"succeeded", "failed"}
    <3>1. ReturnsIdle(w)
      BY <1>3, <2>2 DEF CancelsExecutor
    <3> QED
      BY <1>3, <3>1 DEF ReturnsIdle
  <2> QED
    BY <1>3, <2>1, <2>2 DEF CancelsExecutor
<1>4. ASSUME NEW w \in Workers,
             HeartbeatError(w) \/ \E k \in 0..Lag : HeartbeatLost(w, k)
      PROVE  Issued'
  BY <1>3, <1>4, BoundsAssumption DEF HeartbeatError, HeartbeatLost
<1>5. ASSUME NEW w \in Workers, NEW k \in 0..Lag, stage[w] # "idle",
             RecordsExecution(w, k) \/ UNCHANGED executions
      PROVE  executions' \subseteq (Items \X Nat)
  BY <1>5 DEF RecordsExecution
<1>6. ASSUME NEW w \in Workers, NEW k \in 0..Lag,
             ExecutorSucceeds(w, k) \/ ExecutorFails(w, k)
      PROVE  Issued'
  BY <1>5, <1>6 DEF ExecutorSucceeds, ExecutorFails
<1>7. ASSUME NEW w \in Workers, NEW k \in 0..Lag,
             ExecutorLosesLease(w, k) \/ FinishRejected(w, k)
      PROVE  Issued'
  BY <1>7 DEF ExecutorLosesLease, FinishRejected, ReturnsIdle
<1>8. ASSUME NEW w \in Workers, NEW k \in 0..Lag, Drained(w, k)
      PROVE  Issued'
  BY <1>5, <1>8 DEF Drained, ReturnsIdle
<1>9. ASSUME NEW w \in Workers, NEW k \in 0..Lag, Finish(w, k)
      PROVE  Issued'
  <2>1. Outcome(w) \in {"completed", "failed"} /\ -Lag \in -Lag..TTL
    BY TimeAssumption DEF Outcome
  <2>2. job' \in [Jobs -> JobStatuses]
    BY <1>9, AggregateType DEF Finish, AggregateJob
  <2> QED
    BY <1>9, <2>1, <2>2 DEF Finish, ReturnsIdle
<1>10. ASSUME NEW w \in Workers, Crash(w)
       PROVE  Issued'
  BY <1>10, BoundsAssumption DEF Crash, ReturnsIdle
<1>11. ASSUME NEW i \in Items, RegenerateItem(i)
       PROVE  Issued'
  <2>1. -Lag \in -Lag..TTL
    BY TimeAssumption
  <2>2. job' \in [Jobs -> JobStatuses]
    BY <1>11, AggregateType DEF RegenerateItem, AggregateJob
  <2> QED
    BY <1>11, <2>1, <2>2, BoundsAssumption DEF RegenerateItem, Asked
<1>14. ASSUME NEW i \in Items, CreateTurn(i)
       PROVE  Issued'
  <2>1. -Lag \in -Lag..TTL
    BY TimeAssumption
  <2>2. job' \in [Jobs -> JobStatuses]
    BY <1>14 DEF CreateTurn, JobStatuses
  <2> QED
    BY <1>14, <2>1, <2>2, BoundsAssumption DEF CreateTurn, Asked
<1>12. CASE Tick
  <2>1. left' \in [Items -> -Lag..TTL]
    BY <1>12, TimeAssumption DEF Tick
  <2>2. faults' \in 0..MaxFaults
    BY <1>12, BoundsAssumption DEF Tick
  <2> QED
    BY <1>12, <2>1, <2>2 DEF Tick
<1>13. CASE UNCHANGED vars
  BY <1>13 DEF vars
<1> QED
  BY <1>1, <1>2, <1>4, <1>6, <1>7, <1>8, <1>9, <1>10, <1>11, <1>12, <1>13, <1>14
  DEF Next, WorkerStep

-----------------------------------------------------------------------------
(* Layer 2: a step either issues a lease under a number nobody has, or takes *)
(* leases away.                                                              *)
LEMMA LeaseChange ==
    ASSUME [Next]_vars
    PROVE  \/ \E w \in Workers, i \in Items :
                 /\ lease' = [lease EXCEPT ![w] = [item |-> i, attempt |-> attempt[i] + 1]]
                 /\ attempt' = [attempt EXCEPT ![i] = attempt[i] + 1]
           \/ \E w \in Workers : lease' = [lease EXCEPT ![w] = NoLease]
           \/ UNCHANGED lease
<1> USE DEF ReturnsIdle
<1>1. ASSUME NEW w \in Workers, NEW i \in Items, NEW k \in 0..Lag, LeaseNext(w, i, k)
      PROVE  /\ lease' = [lease EXCEPT ![w] = [item |-> i, attempt |-> attempt[i] + 1]]
             /\ attempt' = [attempt EXCEPT ![i] = attempt[i] + 1]
  BY <1>1 DEF LeaseNext, NextAttempt
<1>2. ASSUME NEW w \in Workers, WorkerStep(w),
             ~ \E i \in Items, k \in 0..Lag : LeaseNext(w, i, k)
      PROVE  lease' = [lease EXCEPT ![w] = NoLease] \/ UNCHANGED lease
  BY <1>2 DEF WorkerStep, Heartbeat, HeartbeatLost, HeartbeatError, CancelsExecutor,
              ExecutorSucceeds, ExecutorFails, ExecutorLosesLease, Drained,
              Finish, FinishRejected, Crash
<1>3. ASSUME \/ Tick \/ UNCHANGED vars
             \/ \E i \in Items : RegenerateItem(i) \/ CreateTurn(i)
      PROVE  UNCHANGED lease
  BY <1>3 DEF Tick, vars, RegenerateItem, CreateTurn
<1> QED
  BY <1>1, <1>2, <1>3 DEF Next

(* Given that leases were issued, no step gives two workers the same item and  *)
(* attempt: LeaseNext counts the attempt up, and nothing else hands out leases. *)
LEMMA ExclusiveStep == Issued /\ LeaseExclusive /\ [Next]_vars => LeaseExclusive'
<1> SUFFICES ASSUME Issued, LeaseExclusive, [Next]_vars,
                    NEW v \in Workers, NEW w \in Workers, v # w,
                    lease'[v] = lease'[w]
             PROVE  lease'[v] = NoLease
  BY DEF LeaseExclusive, NoLease
<1>1. lease \in [Workers -> [item : Items \cup {NoItem}, attempt : Nat]]
  BY DEF Issued, TypeOK
<1>2. ASSUME NEW u \in Workers, NEW i \in Items,
             lease' = [lease EXCEPT ![u] = [item |-> i, attempt |-> attempt[i] + 1]]
      PROVE  \A x \in Workers \ {u} : lease'[x] # lease'[u]
  <2> SUFFICES ASSUME NEW x \in Workers \ {u}, lease'[x] = lease'[u] PROVE FALSE
    OBVIOUS
  <2>1. lease[x] = [item |-> i, attempt |-> attempt[i] + 1]
    BY <1>1, <1>2
  <2>2. lease[x] # NoLease
    BY <2>1, NamesAssumption DEF NoLease
  <2>3. lease[x].attempt <= attempt[lease[x].item]
    BY <2>2 DEF Issued, LeasesIssued
  <2>4. attempt[i] \in Nat
    BY DEF Issued, TypeOK
  <2> QED
    BY <2>1, <2>3, <2>4
<1> QED
  BY <1>1, <1>2, LeaseChange DEF LeaseExclusive

-----------------------------------------------------------------------------
(* Layer 3: executions are recorded for a running item only, so an item that *)
(* ends failed has none, and finish consults them.                           *)
LEMMA ExecutedStep == Issued /\ Executed /\ [Next]_vars => Executed'
<1> SUFFICES ASSUME Issued, Executed, [Next]_vars PROVE Executed'
  OBVIOUS
<1> USE DEF Issued, TypeOK, LeasesIssued, Executed, OutcomeMatchesExecutions,
            ItemStatuses, Stages, NoLease, rows
<1>1. ASSUME NEW w \in Workers, NEW i \in Items, NEW k \in 0..Lag, LeaseNext(w, i, k)
      PROVE  Executed'
  BY <1>1 DEF LeaseNext
<1>2. ASSUME NEW w \in Workers, NEW k \in 0..Lag, Heartbeat(w, k)
      PROVE  Executed'
  BY <1>2 DEF Heartbeat
<1>3. ASSUME NEW w \in Workers, CancelsExecutor(w), UNCHANGED <<rows, executions>>
      PROVE  Executed'
  <2>1. \A v \in Workers : stage'[v] = "succeeded" =>
                            stage[v] = "succeeded" /\ lease'[v] = lease[v]
    BY <1>3 DEF CancelsExecutor, ReturnsIdle
  <2> QED
    BY <1>3, <2>1
<1>4. ASSUME NEW w \in Workers,
             HeartbeatError(w) \/ \E k \in 0..Lag : HeartbeatLost(w, k)
      PROVE  Executed'
  BY <1>3, <1>4 DEF HeartbeatError, HeartbeatLost
<1>5. ASSUME NEW w \in Workers, NEW k \in 0..Lag, stage[w] # "idle",
             RecordsExecution(w, k) \/ UNCHANGED executions, UNCHANGED status
      PROVE  OutcomeMatchesExecutions' /\ executions \subseteq executions'
  <2>1. CASE RecordsExecution(w, k)
    <3>1. status[lease[w].item] = "running"
      BY <2>1 DEF RecordsExecution, HoldsLease
    <3>2. executions' = executions \cup {<<lease[w].item, lease[w].attempt>>}
      BY <2>1 DEF RecordsExecution
    <3>3. \A i \in Items : status[i] # "running" =>
             (\E e \in executions' : e[1] = i) <=> (\E e \in executions : e[1] = i)
      BY <3>1, <3>2
    <3> QED
      BY <1>5, <3>2, <3>3
  <2>2. CASE UNCHANGED executions
    BY <1>5, <2>2
  <2> QED
    BY <1>5, <2>1, <2>2
<1>6. ASSUME NEW w \in Workers, NEW k \in 0..Lag, ExecutorSucceeds(w, k)
      PROVE  Executed'
  <2>1. OutcomeMatchesExecutions' /\ executions \subseteq executions'
    BY <1>5, <1>6 DEF ExecutorSucceeds
  <2>2. <<lease[w].item, lease[w].attempt>> \in executions'
    BY <1>6 DEF ExecutorSucceeds, RecordsExecution
  <2> QED
    BY <1>6, <2>1, <2>2 DEF ExecutorSucceeds
<1>7. ASSUME NEW w \in Workers, NEW k \in 0..Lag, ExecutorFails(w, k) \/ Drained(w, k)
      PROVE  Executed'
  <2>1. OutcomeMatchesExecutions' /\ executions \subseteq executions'
    BY <1>5, <1>7 DEF ExecutorFails, Drained
  <2>2. \A v \in Workers : stage'[v] = "succeeded" =>
                            stage[v] = "succeeded" /\ lease'[v] = lease[v]
    BY <1>7 DEF ExecutorFails, Drained, ReturnsIdle
  <2> QED
    BY <2>1, <2>2
<1>8. ASSUME NEW w \in Workers, NEW k \in 0..Lag,
             ExecutorLosesLease(w, k) \/ FinishRejected(w, k)
      PROVE  Executed'
  BY <1>8 DEF ExecutorLosesLease, FinishRejected, ReturnsIdle
<1>9. ASSUME NEW w \in Workers, NEW k \in 0..Lag, Finish(w, k)
      PROVE  Executed'
  <2> DEFINE i == lease[w].item
  <2>1. i \in Items /\ status' = [status EXCEPT ![i] = Outcome(w)] /\ UNCHANGED executions
    BY <1>9 DEF Finish
  <2>2. Outcome(w) = "completed" <=> \E e \in executions : e[1] = i
    <3>1. stage[w] = "succeeded" => \E e \in executions : e[1] = i
      OBVIOUS
    <3> QED
      BY <3>1 DEF Outcome
  <2>3. OutcomeMatchesExecutions'
    BY <2>1, <2>2 DEF Outcome
  <2> QED
    BY <1>9, <2>3 DEF Finish, ReturnsIdle
<1>10. ASSUME NEW w \in Workers, Crash(w)
       PROVE  Executed'
  BY <1>10 DEF Crash, ReturnsIdle
<1>11. ASSUME NEW i \in Items, RegenerateItem(i)
       PROVE  Executed'
  BY <1>11 DEF RegenerateItem
<1>14. ASSUME NEW i \in Items, CreateTurn(i)
       PROVE  Executed'
  BY <1>14 DEF CreateTurn
<1>12. CASE Tick
  BY <1>12 DEF Tick
<1>13. CASE UNCHANGED vars
  BY <1>13 DEF vars
<1> QED
  BY <1>1, <1>2, <1>4, <1>6, <1>7, <1>8, <1>9, <1>10, <1>11, <1>12, <1>13, <1>14
  DEF Next, WorkerStep

-----------------------------------------------------------------------------
(* Layer 4: every step that moves an item aggregates its job, but for the    *)
(* request to revise a picture, which sets the job to queued.                *)
LEMMA StatusChange ==
    ASSUME Issued, [Next]_vars
    PROVE  \/ \E i \in Items, s \in {"queued", "running", "completed", "failed"} :
                 /\ status' = [status EXCEPT ![i] = s] /\ AggregateJob(i, status')
                 /\ \A x \in Items \ {i} : attempt'[x] = attempt[x]
           \/ \E i \in Pictures :
                 /\ status' = [status EXCEPT ![i] = "queued"] /\ attempt[i] > 0
                 /\ job' = [job EXCEPT ![JobOf[i]] = "queued"] /\ attempt' = attempt
           \/ UNCHANGED <<status, job, attempt>>
<1> USE DEF Issued, TypeOK
<1>1. ASSUME NEW w \in Workers, NEW i \in Items, NEW k \in 0..Lag, LeaseNext(w, i, k)
      PROVE  /\ status' = [status EXCEPT ![i] = "running"] /\ AggregateJob(i, status')
             /\ \A x \in Items \ {i} : attempt'[x] = attempt[x]
  BY <1>1 DEF LeaseNext
<1>2. ASSUME NEW i \in Items, RegenerateItem(i)
      PROVE  /\ status' = [status EXCEPT ![i] = "queued"] /\ AggregateJob(i, status')
             /\ \A x \in Items \ {i} : attempt'[x] = attempt[x]
  BY <1>2 DEF RegenerateItem
<1>3. ASSUME NEW w \in Workers, NEW k \in 0..Lag, Finish(w, k)
      PROVE  \E i \in Items, s \in {"completed", "failed"} :
               /\ status' = [status EXCEPT ![i] = s] /\ AggregateJob(i, status')
               /\ \A x \in Items \ {i} : attempt'[x] = attempt[x]
  <2>1. lease[w].item \in Items
    BY <1>3 DEF Finish, LeasesIssued
  <2>2. Outcome(w) \in {"completed", "failed"}
    BY DEF Outcome
  <2> QED
    BY <1>3, <2>1, <2>2 DEF Finish
<1>4. ASSUME NEW w \in Workers, WorkerStep(w),
             ~ \E i \in Items, k \in 0..Lag : LeaseNext(w, i, k),
             ~ \E k \in 0..Lag : Finish(w, k)
      PROVE  UNCHANGED <<status, job, attempt>>
  BY <1>4 DEF WorkerStep, Heartbeat, HeartbeatLost, HeartbeatError, ExecutorSucceeds,
              ExecutorFails, ExecutorLosesLease, Drained, FinishRejected, Crash, rows
<1>5. ASSUME Tick \/ UNCHANGED vars
      PROVE  UNCHANGED <<status, job, attempt>>
  BY <1>5 DEF Tick, vars
<1>6. ASSUME NEW i \in Items, CreateTurn(i)
      PROVE  /\ i \in Pictures /\ attempt[i] > 0 /\ attempt' = attempt
             /\ status' = [status EXCEPT ![i] = "queued"]
             /\ job' = [job EXCEPT ![JobOf[i]] = "queued"]
  BY <1>6 DEF CreateTurn
<1> QED
  BY <1>1, <1>2, <1>3, <1>4, <1>5, <1>6 DEF Next

(* A step that leaves the items of a job alone leaves what its row may say   *)
(* alone as well.                                                            *)
LEMMA OtherJobsShow ==
    ASSUME Projected, NEW j \in Jobs, job'[j] = job[j],
           \A x \in ItemsOf(j) : status'[x] = status[x] /\ attempt'[x] = attempt[x]
    PROVE  \/ job'[j] = Aggregate(j, status')
           \/ job'[j] = "queued" /\ PictureWaits(j)'
<1>1. Aggregate(j, status') = Aggregate(j, status)
  BY AggregateLocal
<1>2. PictureWaits(j) => PictureWaits(j)'
  BY DEF PictureWaits, ItemsOf
<1> QED
  BY <1>1, <1>2 DEF Projected

(* The job row stays the projection of its items: whatever changes an item's    *)
(* status calls aggregateJob in the same transaction, or asks for a picture     *)
(* again and says that the job is queued. *)
LEMMA ProjectedStep == Issued /\ Projected /\ [Next]_vars => Projected'
<1> SUFFICES ASSUME Issued, Projected, [Next]_vars PROVE Projected'
  OBVIOUS
<1>1. status \in [Items -> ItemStatuses] /\ job \in [Jobs -> JobStatuses]
  BY DEF Issued, TypeOK
<1>2. ASSUME NEW i \in Items, NEW s \in {"queued", "running", "completed", "failed"},
             status' = [status EXCEPT ![i] = s],
             \A j \in Jobs : j # JobOf[i] => job'[j] = job[j],
             \A x \in Items \ {i} : attempt'[x] = attempt[x],
             \/ job'[JobOf[i]] = Aggregate(JobOf[i], status')
             \/ job'[JobOf[i]] = "queued" /\ PictureWaits(JobOf[i])'
      PROVE  Projected'
  <2>1. ASSUME NEW j \in Jobs, j # JobOf[i]
        PROVE  \/ job'[j] = Aggregate(j, status')
               \/ job'[j] = "queued" /\ PictureWaits(j)'
    <3>1. \A x \in ItemsOf(j) : x \in Items \ {i}
      BY <2>1 DEF ItemsOf
    <3>2. \A x \in ItemsOf(j) : status'[x] = status[x] /\ attempt'[x] = attempt[x]
      BY <1>1, <1>2, <3>1
    <3> QED
      BY <1>2, <2>1, <3>2, OtherJobsShow
  <2>2. \A x \in Items : status'[x] # "cancelled"
    BY <1>1, <1>2 DEF Projected
  <2> QED
    BY <1>2, <2>1, <2>2 DEF Projected
<1>3. ASSUME NEW i \in Items, NEW s \in {"queued", "running", "completed", "failed"},
             status' = [status EXCEPT ![i] = s], AggregateJob(i, status'),
             \A x \in Items \ {i} : attempt'[x] = attempt[x]
      PROVE  Projected'
  <2>1. job'[JobOf[i]] = Aggregate(JobOf[i], status')
    BY <1>1, <1>3, JobsAssumption DEF AggregateJob
  <2>2. \A j \in Jobs : j # JobOf[i] => job'[j] = job[j]
    BY <1>1, <1>3 DEF AggregateJob
  <2> QED
    BY <1>2, <1>3, <2>1, <2>2
<1>4. ASSUME NEW i \in Pictures, status' = [status EXCEPT ![i] = "queued"],
             attempt[i] > 0, job' = [job EXCEPT ![JobOf[i]] = "queued"],
             attempt' = attempt
      PROVE  Projected'
  <2>1. i \in Items /\ JobOf[i] \in Jobs
    BY JobsAssumption
  <2>2. job'[JobOf[i]] = "queued" /\ \A j \in Jobs : j # JobOf[i] => job'[j] = job[j]
    BY <1>1, <1>4, <2>1
  <2>3. PictureWaits(JobOf[i])'
    BY <1>1, <1>4, <2>1 DEF PictureWaits, ItemsOf
  <2> QED
    BY <1>2, <1>4, <2>1, <2>2, <2>3
<1>5. CASE UNCHANGED <<status, job, attempt>>
  <2>1. status' = status /\ job' = job /\ attempt' = attempt
    BY <1>5
  <2>2. \A j \in Jobs : \/ job'[j] = Aggregate(j, status')
                        \/ job'[j] = "queued" /\ PictureWaits(j)'
    BY <2>1, OtherJobsShow
  <2> QED
    BY <2>1, <2>2 DEF Projected
<1> QED
  BY <1>3, <1>4, <1>5, StatusChange

-----------------------------------------------------------------------------
(* The inductive invariant of the queue holds in every reachable state: the     *)
(* four layers Issued, LeaseExclusive, Executed and Projected together. *)
LEMMA Invariant == Spec => []IInv
<1>1. Init => IInv
  <2>1. Init => LeaseExclusive /\ Executed
    BY DEF Init, LeaseExclusive, Executed, OutcomeMatchesExecutions
  <2>2. ASSUME Init, NEW j \in Jobs PROVE Aggregate(j, status) = "queued"
    <3>1. {status[i] : i \in ItemsOf(j)} = {"queued"}
      BY <2>2, JobsAssumption DEF Init, ItemsOf
    <3> QED
      BY <3>1 DEF Aggregate
  <2>3. Init => Projected
    BY <2>2 DEF Init, Projected
  <2> QED
    BY <2>1, <2>3, IssuedInit DEF IInv
<1>2. IInv /\ [Next]_vars => IInv'
  BY IssuedStep, ExclusiveStep, ExecutedStep, ProjectedStep DEF IInv
<1> QED
  BY <1>1, <1>2, PTL DEF Spec

(* Rows, leases and counters keep their types; a lease never has more than   *)
(* TTL ticks left however late its clock was read.                           *)
THEOREM TypeCorrect == Spec => []TypeOK
<1>1. IInv => TypeOK
  BY DEF IInv, Issued
<1> QED
  BY <1>1, Invariant, PTL

(* LeaseNext never hands the same item and attempt number to two workers,    *)
(* whatever crashes, lapses and takeovers happen in between.                 *)
THEOREM LeasesAreExclusive == Spec => []LeaseExclusive
<1>1. IInv => LeaseExclusive
  BY DEF IInv
<1> QED
  BY <1>1, Invariant, PTL

(* finish reports an item completed exactly when one of its attempts left a  *)
(* completed execution.                                                      *)
THEOREM OutcomesAreHonest == Spec => []OutcomeMatchesExecutions
<1>1. IInv => OutcomeMatchesExecutions
  BY DEF IInv, Executed
<1> QED
  BY <1>1, Invariant, PTL

(* A job row never says over while work is left, nor the reverse, and says   *)
(* how its items ended; it says queued beside items that are not only where  *)
(* CreateTurn put a picture back.  For jobs of any size.                     *)
THEOREM JobsShowTheirItems == Spec => []JobShowsItems
<1>1. IInv => JobShowsItems
  <2> SUFFICES ASSUME IInv, NEW j \in Jobs
               PROVE  JobShowsItems!(j)
    BY DEF JobShowsItems
  <2>1. \A i \in ItemsOf(j) : status[i] \in {"queued", "running", "completed", "failed"}
    BY DEF IInv, Issued, TypeOK, Projected, ItemsOf, ItemStatuses
  <2>2. CASE job[j] = Aggregate(j, status)
    BY <2>1, <2>2, AggregateMeaning
  <2>3. CASE job[j] = "queued" /\ PictureWaits(j)
    <3>1. PICK i \in ItemsOf(j) \cap Pictures : status[i] = "queued" /\ attempt[i] > 0
      BY <2>3 DEF PictureWaits
    <3> QED
      BY <2>3, <3>1
  <2> QED
    BY <2>2, <2>3 DEF IInv, Projected
<1> QED
  BY <1>1, Invariant, PTL

-----------------------------------------------------------------------------
(* The limits.  LeaseNext counts the leases its clock takes to be unexpired, *)
(* all those in force among them, before it grants one more.  To compare the *)
(* sizes the set of running items must be finite: it begins empty and grows  *)
(* by one item at a time.                                                    *)
Running == {i \in Items : status[i] = "running"}
InForce == {i \in Items \ late : status[i] = "running" /\ left[i] > 0}
Limited == IsFiniteSet(Running) /\ ActiveWithinLimits

(* A set with fewer members than a limit is within it after one has joined.  *)
LEMMA OneMoreFits ==
    ASSUME NEW S, IsFiniteSet(S), NEW x, NEW n \in Nat, Cardinality(S) < n,
           NEW T, T \subseteq S \cup {x}
    PROVE  IsFiniteSet(T) /\ Cardinality(T) <= n
<1>1. /\ IsFiniteSet(S \cup {x})
      /\ Cardinality(S \cup {x}) = IF x \in S THEN Cardinality(S) ELSE Cardinality(S) + 1
  BY FS_AddElement
<1>2. Cardinality(S) \in Nat
  BY FS_CardinalityType
<1>3. Cardinality(S \cup {x}) \in Nat /\ Cardinality(S \cup {x}) <= n
  BY <1>1, <1>2
<1>4. IsFiniteSet(T) /\ Cardinality(T) <= Cardinality(S \cup {x})
  BY <1>1, FS_Subset
<1>5. Cardinality(T) \in Nat
  BY <1>4, FS_CardinalityType
<1> QED
  BY <1>3, <1>4, <1>5

(* Fewer leases in force are within the limits that more were in.            *)
LEMMA FewerFit ==
    ASSUME NEW S, IsFiniteSet(S), NEW n \in Nat, Cardinality(S) <= n,
           NEW T, T \subseteq S
    PROVE  IsFiniteSet(T) /\ Cardinality(T) <= n
<1>1. IsFiniteSet(T) /\ Cardinality(T) <= Cardinality(S)
  BY FS_Subset
<1>2. Cardinality(S) \in Nat /\ Cardinality(T) \in Nat
  BY <1>1, FS_CardinalityType
<1> QED
  BY <1>1, <1>2

(* The clock reading k never takes a lease in force for expired.             *)
LEMMA Counted ==
    ASSUME Issued, IsFiniteSet(Running), NEW k \in 0..Lag, NEW S
    PROVE  Cardinality(InForce \cap S) <= Cardinality(Active(k) \cap S)
<1>1. left \in [Items -> Int] /\ k \in Int /\ k >= 0
  BY TimeAssumption DEF Issued, TypeOK
<1>2. InForce \subseteq Active(k) /\ Active(k) \subseteq Running
  BY <1>1 DEF InForce, Active, Running
<1>3. IsFiniteSet(Active(k) \cap S)
  BY <1>2, FS_Subset
<1> QED
  BY <1>2, <1>3, FS_Subset

(* Only LeaseNext brings a lease into force that is not late: a heartbeat    *)
(* renews what is in force or makes it late, everything else ends leases.    *)
LEMMA InForceChange ==
    ASSUME IsFiniteSet(Running), Issued, [Next]_vars
    PROVE  \/ InForce' \subseteq InForce
           \/ \E i \in Items : /\ InForce' \subseteq InForce \cup {i}
                               /\ Cardinality(InForce) < MaxWorkersGlobal
                               /\ Cardinality(InForce \cap ItemsOf(JobOf[i]))
                                    < MaxWorkersPerJob
<1> USE DEF InForce
<1>2. /\ status \in [Items -> ItemStatuses]
      /\ left \in [Items -> Int]
  BY TimeAssumption DEF Issued, TypeOK
<1>3. ASSUME NEW w \in Workers, NEW i \in Items, NEW k \in 0..Lag, LeaseNext(w, i, k)
      PROVE  /\ InForce' \subseteq InForce \cup {i}
             /\ Cardinality(InForce) < MaxWorkersGlobal
             /\ Cardinality(InForce \cap ItemsOf(JobOf[i])) < MaxWorkersPerJob
  <2>1. Cardinality(InForce \cap Items) <= Cardinality(Active(k) \cap Items)
    BY Counted
  <2>2. InForce \cap Items = InForce /\ Active(k) \cap Items = Active(k)
    BY DEF Active
  <2>3. Cardinality(InForce \cap ItemsOf(JobOf[i]))
          <= Cardinality(Active(k) \cap ItemsOf(JobOf[i]))
    BY Counted
  <2>4. Cardinality(Active(k)) < MaxWorkersGlobal
        /\ Cardinality(Active(k) \cap ItemsOf(JobOf[i])) < MaxWorkersPerJob
    BY <1>3 DEF LeaseNext, Candidates
  <2>5. Active(k) \subseteq Running
    BY DEF Active, Running
  <2>6. InForce \subseteq Running
    BY DEF Running
  <2>7. /\ Cardinality(Active(k)) \in Nat
        /\ Cardinality(Active(k) \cap ItemsOf(JobOf[i])) \in Nat
        /\ Cardinality(InForce) \in Nat
        /\ Cardinality(InForce \cap ItemsOf(JobOf[i])) \in Nat
    <3>1. /\ IsFiniteSet(Active(k)) /\ IsFiniteSet(Active(k) \cap ItemsOf(JobOf[i]))
          /\ IsFiniteSet(InForce) /\ IsFiniteSet(InForce \cap ItemsOf(JobOf[i]))
      BY <2>5, <2>6, FS_Subset
    <3> QED
      BY <3>1, FS_CardinalityType
  <2>8. InForce' \subseteq InForce \cup {i}
    BY <1>2, <1>3 DEF LeaseNext
  <2>9. Cardinality(InForce) < MaxWorkersGlobal
    BY <2>1, <2>2, <2>4, <2>7, BoundsAssumption
  <2>10. Cardinality(InForce \cap ItemsOf(JobOf[i])) < MaxWorkersPerJob
    BY <2>3, <2>4, <2>7, BoundsAssumption
  <2> QED
    BY <2>8, <2>9, <2>10
<1>4. ASSUME NEW w \in Workers, NEW k \in 0..Lag, Heartbeat(w, k)
      PROVE  InForce' \subseteq InForce
  BY <1>2, <1>4 DEF Heartbeat, HoldsLease
<1>5. ASSUME NEW w \in Workers, NEW k \in 0..Lag, Finish(w, k)
      PROVE  InForce' \subseteq InForce
  BY <1>2, <1>5 DEF Finish, Outcome
<1>6. ASSUME NEW i \in Items, RegenerateItem(i) \/ CreateTurn(i)
      PROVE  InForce' \subseteq InForce
  BY <1>2, <1>6 DEF RegenerateItem, CreateTurn
<1>7. CASE Tick
  BY <1>2, <1>7 DEF Tick
<1>8. ASSUME NEW w \in Workers, WorkerStep(w),
             ~ \E i \in Items, k \in 0..Lag : LeaseNext(w, i, k),
             ~ \E k \in 0..Lag : Heartbeat(w, k), ~ \E k \in 0..Lag : Finish(w, k)
      PROVE  UNCHANGED <<status, left, late>>
  BY <1>8 DEF WorkerStep, HeartbeatLost, HeartbeatError, ExecutorSucceeds,
              ExecutorFails, ExecutorLosesLease, Drained, FinishRejected, Crash, rows
<1>9. ASSUME UNCHANGED <<status, left, late>> PROVE InForce' = InForce
  BY <1>9
<1>10. CASE UNCHANGED vars
  BY <1>9, <1>10 DEF vars
<1> QED
  BY <1>3, <1>4, <1>5, <1>6, <1>7, <1>8, <1>9, <1>10 DEF Next

(* A step leaves finitely many items running.                                *)
LEMMA RunningStep ==
    ASSUME IsFiniteSet(Running), Issued, [Next]_vars PROVE IsFiniteSet(Running')
<1>1. PICK i \in Items \cup {NoItem} : Running' \subseteq Running \cup {i}
  <2>1. status \in [Items -> ItemStatuses]
    BY DEF Issued, TypeOK
  <2>2. ASSUME NEW i \in Items, NEW s, status' = [status EXCEPT ![i] = s]
        PROVE  Running' \subseteq Running \cup {i}
    BY <2>1, <2>2 DEF Running
  <2>3. ASSUME status' = status PROVE Running' \subseteq Running \cup {NoItem}
    BY <2>3 DEF Running
  <2> QED
    BY <2>2, <2>3, StatusChange, JobsAssumption
<1>2. IsFiniteSet(Running \cup {i})
  BY FS_AddElement
<1> QED
  BY <1>1, <1>2, FS_Subset

(* A step that changes the leases in force leaves them within the limits.    *)
LEMMA LimitedStep == Issued /\ Limited /\ [Next]_vars => Limited'
<1> SUFFICES ASSUME Issued, Limited, [Next]_vars PROVE Limited'
  OBVIOUS
<1> USE BoundsAssumption
<1>1. /\ IsFiniteSet(InForce)
      /\ Cardinality(InForce) <= MaxWorkersGlobal
      /\ \A j \in Jobs : Cardinality(InForce \cap ItemsOf(j)) <= MaxWorkersPerJob
  <2>1. InForce \subseteq Running
    BY DEF InForce, Running
  <2>2. IsFiniteSet(InForce)
    BY <2>1, FS_Subset DEF Limited
  <2> QED
    BY <2>2 DEF Limited, ActiveWithinLimits, InForce
<1>2. \A j \in Jobs : IsFiniteSet(InForce \cap ItemsOf(j))
  BY <1>1, FS_Subset
<1>5. IsFiniteSet(Running')
  BY RunningStep DEF Limited
<1>3. CASE InForce' \subseteq InForce
  <2>1. Cardinality(InForce') <= MaxWorkersGlobal
    BY <1>1, <1>3, FewerFit
  <2>2. ASSUME NEW j \in Jobs
        PROVE  Cardinality(InForce' \cap ItemsOf(j)) <= MaxWorkersPerJob
    <3>1. InForce' \cap ItemsOf(j) \subseteq InForce \cap ItemsOf(j)
      BY <1>3
    <3> QED
      BY <1>1, <1>2, <3>1, FewerFit
  <2> QED
    BY <1>5, <2>1, <2>2 DEF Limited, ActiveWithinLimits, InForce, ItemsOf
<1>4. ASSUME NEW i \in Items, InForce' \subseteq InForce \cup {i},
             Cardinality(InForce) < MaxWorkersGlobal,
             Cardinality(InForce \cap ItemsOf(JobOf[i])) < MaxWorkersPerJob
      PROVE  Limited'
  <2>1. Cardinality(InForce') <= MaxWorkersGlobal
    BY <1>1, <1>4, OneMoreFits
  <2>2. ASSUME NEW j \in Jobs
        PROVE  Cardinality(InForce' \cap ItemsOf(j)) <= MaxWorkersPerJob
    <3>1. CASE j = JobOf[i]
      <4>1. InForce' \cap ItemsOf(j) \subseteq (InForce \cap ItemsOf(j)) \cup {i}
        BY <1>4
      <4> QED
        BY <1>2, <1>4, <3>1, <4>1, OneMoreFits
    <3>2. CASE j # JobOf[i]
      <4>1. InForce' \cap ItemsOf(j) \subseteq InForce \cap ItemsOf(j)
        BY <1>4, <3>2 DEF ItemsOf
      <4> QED
        BY <1>1, <1>2, <4>1, FewerFit
    <3> QED
      BY <3>1, <3>2
  <2> QED
    BY <1>5, <2>1, <2>2 DEF Limited, ActiveWithinLimits, InForce, ItemsOf
<1> QED
  BY <1>3, <1>4, InForceChange DEF Limited

(* However many jobs, items and workers there are and however old the clocks *)
(* are, LeaseNext keeps the leases in force within the limits of the pool    *)
(* and of each job, but for leases that a heartbeat brought back after they  *)
(* had run out.                                                              *)
THEOREM LimitsAreKept == Spec => []ActiveWithinLimits
<1>1. Init => Limited
  <2>1. Init => Running = {} /\ InForce = {}
    BY DEF Init, Running, InForce
  <2>2. ASSUME NEW j \in Jobs, InForce = {} PROVE InForce \cap ItemsOf(j) = {}
    BY <2>2
  <2> QED
    BY <2>1, <2>2, FS_EmptySet, BoundsAssumption
    DEF Limited, ActiveWithinLimits, InForce
<1>2. IInv => Issued
  BY DEF IInv
<1>3. Issued /\ Limited /\ [Next]_vars => Limited'
  BY LimitedStep
<1>4. Limited => ActiveWithinLimits
  BY DEF Limited
<1> QED
  BY <1>1, <1>2, <1>3, <1>4, Invariant, PTL DEF Spec

(* With clocks that are read at the moment of the transaction no heartbeat   *)
(* comes late: then the limits hold for all leases in force.                 *)
THEOREM FreshClocksAreNeverLate == ASSUME Lag = 0 PROVE Spec => [](late = {})
<1>1. Init => late = {}
  BY DEF Init
<1>2. IInv /\ late = {} /\ [Next]_vars => (late = {})'
  <2> SUFFICES ASSUME IInv, late = {}, [Next]_vars PROVE late' = {}
    OBVIOUS
  <2>1. left \in [Items -> Int]
    BY TimeAssumption DEF IInv, Issued, TypeOK
  <2>2. ASSUME NEW w \in Workers, NEW k \in 0..Lag, Heartbeat(w, k)
        PROVE  late' = {}
    <3>1. k = 0
      OBVIOUS
    <3>2. lease[w].item \in Items
      BY <2>2 DEF Heartbeat, IInv, Issued, LeasesIssued
    <3> QED
      BY <2>1, <2>2, <3>1, <3>2 DEF Heartbeat, HoldsLease
  <2>3. ASSUME NEW w \in Workers, WorkerStep(w), ~ \E k \in 0..Lag : Heartbeat(w, k)
        PROVE  late' = {}
    BY <2>3 DEF WorkerStep, LeaseNext, HeartbeatLost, HeartbeatError, ExecutorSucceeds,
                ExecutorFails, ExecutorLosesLease, Drained, Finish, FinishRejected, Crash
  <2>4. ASSUME \/ Tick \/ UNCHANGED vars
               \/ \E i \in Items : RegenerateItem(i) \/ CreateTurn(i)
        PROVE  late' = {}
    BY <2>4 DEF Tick, vars, RegenerateItem, CreateTurn
  <2> QED
    BY <2>2, <2>3, <2>4 DEF Next
<1> QED
  BY <1>1, <1>2, Invariant, PTL DEF Spec

-----------------------------------------------------------------------------
(* The refinement: every step of the queue is a step of FencedClaims or      *)
(* leaves its variables alone.                                               *)
LEMMA KeepsPromiseInit == Init => Promise!Init
  BY DEF Init, Promise!Init, Promise!NoClaim, NoLease

(* The claim of a worker, and the phase of an item, as the mapping has them. *)
Claimed == [w \in Workers |-> [item |-> lease[w].item, epoch |-> lease[w].attempt]]
Phase == [i \in Items |->
            CASE status[i] = "queued" -> "waiting"
              [] status[i] = "running" -> "claimed"
              [] status[i] = "failed" -> "undone"
              [] OTHER -> "done"]

(* A step of the queue is, seen through the refinement mapping, a step of the   *)
(* fenced claims or none at all: heartbeats, clocks and lost leases are stutters. *)
LEMMA KeepsPromiseStep == IInv /\ [Next]_vars => [Promise!Next]_(Promise!vars)
<1> SUFFICES ASSUME IInv, [Next]_vars
             PROVE  Promise!Next \/ UNCHANGED Promise!vars
  OBVIOUS
<1> USE DEF NoLease
<1>1. /\ status \in [Items -> ItemStatuses]
      /\ attempt \in [Items -> Nat]
      /\ lease \in [Workers -> [item : Items \cup {NoItem}, attempt : Nat]]
      /\ LeasesIssued
  BY DEF IInv, Issued, TypeOK
<1>2. ASSUME NEW w \in Workers, ReturnsIdle(w)
      PROVE  Claimed' = [Claimed EXCEPT ![w] = Promise!NoClaim]
  BY <1>1, <1>2 DEF ReturnsIdle, Claimed, Promise!NoClaim
<1>3. ASSUME NEW w \in Workers, NEW i \in Items, NEW k \in 0..Lag, LeaseNext(w, i, k)
      PROVE  Promise!Claim(w, i)
  <2>1. lease[w] = NoLease
    BY <1>1, <1>3 DEF LeaseNext, LeasesIssued
  <2>2. status[i] \in {"queued", "running"}
    BY <1>3 DEF LeaseNext, Candidates
  <2>3. Phase' = [Phase EXCEPT ![i] = "claimed"]
    BY <1>1, <1>3 DEF LeaseNext, Phase
  <2>4. /\ attempt' = [attempt EXCEPT ![i] = @ + 1]
        /\ Claimed' = [Claimed EXCEPT ![w] = [item |-> i, epoch |-> attempt[i] + 1]]
    BY <1>1, <1>3 DEF LeaseNext, NextAttempt, Claimed
  <2> QED
    BY <2>1, <2>2, <2>3, <2>4
    DEF Promise!Claim, Promise!NoClaim, Promise!Settled, Phase, Claimed
<1>4. ASSUME NEW w \in Workers, NEW k \in 0..Lag, Finish(w, k)
      PROVE  \E i \in Items : Promise!Settle(w, i)
  <2> DEFINE i == lease[w].item
  <2>1. i \in Items
    BY <1>1, <1>4 DEF Finish, LeasesIssued
  <2>2. status[i] = "running" /\ attempt[i] = lease[w].attempt
    BY <1>4 DEF Finish, HoldsLease
  <2>3. Outcome(w) \in {"completed", "failed"}
    BY DEF Outcome
  <2>4. \E outcome \in {"done", "undone"} : Phase' = [Phase EXCEPT ![i] = outcome]
    <3>1. status' = [status EXCEPT ![i] = Outcome(w)]
      BY <1>4 DEF Finish
    <3>2. CASE Outcome(w) = "completed"
      <4>1. Phase' = [Phase EXCEPT ![i] = "done"]
        BY <1>1, <2>1, <3>1, <3>2 DEF Phase
      <4> QED
        BY <4>1
    <3>3. CASE Outcome(w) = "failed"
      <4>1. Phase' = [Phase EXCEPT ![i] = "undone"]
        BY <1>1, <2>1, <3>1, <3>3 DEF Phase
      <4> QED
        BY <4>1
    <3> QED
      BY <2>3, <3>2, <3>3
  <2>5. Claimed' = [Claimed EXCEPT ![w] = Promise!NoClaim] /\ UNCHANGED attempt
    BY <1>2, <1>4 DEF Finish
  <2>6. Claimed[w] = [item |-> i, epoch |-> attempt[i]] /\ Phase[i] = "claimed"
    BY <2>1, <2>2 DEF Claimed, Phase
  <2> QED
    BY <2>1, <2>4, <2>5, <2>6 DEF Promise!Settle, Promise!Settled, Claimed, Phase
<1>5. ASSUME NEW w \in Workers, stage[w] # "idle", ReturnsIdle(w), UNCHANGED rows
      PROVE  Promise!Drop(w)
  <2>1. Claimed[w] # Promise!NoClaim
    BY <1>1, <1>5, NamesAssumption DEF LeasesIssued, Claimed, Promise!NoClaim
  <2> QED
    BY <1>2, <1>5, <2>1 DEF Promise!Drop, Claimed, Phase, rows
<1>6. ASSUME NEW i \in Items, RegenerateItem(i)
      PROVE  Promise!Reopen(i)
  <2>1. Phase' = [Phase EXCEPT ![i] = "waiting"]
    BY <1>1, <1>6 DEF RegenerateItem, Phase
  <2>2. Phase[i] = "undone"
    BY <1>6 DEF RegenerateItem, Phase
  <2> QED
    BY <1>6, <2>1, <2>2 DEF RegenerateItem, Promise!Reopen, Phase, Claimed
<1>11. ASSUME NEW i \in Items, CreateTurn(i)
       PROVE  Promise!Reopen(i)
  <2>1. Phase' = [Phase EXCEPT ![i] = "waiting"]
    BY <1>1, <1>11 DEF CreateTurn, Phase
  <2>2. i \in Pictures /\ attempt[i] > 0
    BY <1>11 DEF CreateTurn
  <2> QED
    BY <1>11, <2>1, <2>2 DEF CreateTurn, Promise!Reopen, Phase, Claimed
<1>7. ASSUME UNCHANGED <<status, attempt, lease>>
      PROVE  UNCHANGED Promise!vars
  BY <1>7 DEF Promise!vars
<1>8. ASSUME NEW w \in Workers, WorkerStep(w),
             ~ \E i \in Items, k \in 0..Lag : LeaseNext(w, i, k),
             ~ \E k \in 0..Lag : Finish(w, k)
      PROVE  \/ stage[w] # "idle" /\ ReturnsIdle(w) /\ UNCHANGED rows
             \/ UNCHANGED <<status, attempt, lease>>
  BY <1>8 DEF WorkerStep, Heartbeat, HeartbeatLost, HeartbeatError, CancelsExecutor,
              ExecutorSucceeds, ExecutorFails, ExecutorLosesLease, Drained,
              FinishRejected, Crash, rows
<1>9. ASSUME Tick \/ UNCHANGED vars
      PROVE  UNCHANGED <<status, attempt, lease>>
  BY <1>9 DEF Tick, vars
<1>10. ASSUME NEW w \in Workers, WorkerStep(w)
       PROVE  Promise!Next \/ UNCHANGED Promise!vars
  BY <1>3, <1>4, <1>5, <1>7, <1>8, <1>10 DEF Promise!Next
<1> QED
  BY <1>6, <1>7, <1>9, <1>10, <1>11 DEF Next, Promise!Next

(* The queue with its clocks, owners and heartbeats implements FencedClaims: *)
(* what workers may rely on does not depend on time.                         *)
THEOREM QueueKeepsPromise == Spec => KeepsPromise
<1>1. IInv /\ [Next]_vars => [Promise!Next]_(Promise!vars)
  BY KeepsPromiseStep
<1> QED
  BY <1>1, KeepsPromiseInit, Invariant, PTL DEF Spec, KeepsPromise, Promise!Spec

-----------------------------------------------------------------------------
(* The pool of workers *)

Entries == {"none", "kept", "retiring"}
Doings == {"none", "idle", "working", "leaving"}

(* The goroutines that have left are those whose end is in the channel, once *)
(* each: an entry of the loop is of a goroutine that is alive or of an end   *)
(* that was not read yet.                                                    *)
PoolTypes ==
    /\ PoolTypeOK
    /\ setting \in [perJob : Indices, global : Indices]
    /\ done \in Seq(Indices)
    /\ goroutine \in [Indices -> Doings]

Known == \A i \in Indices : Alive(i) => slots[i] # "none"
EndsOnce == \A m, n \in DOMAIN done : done[m] = done[n] => m = n
EndsAreOfTheGone == \A n \in DOMAIN done : slots[done[n]] # "none" /\ ~Alive(done[n])
GoneHaveEnds ==
    \A i \in Indices : slots[i] # "none" /\ ~Alive(i) => \E n \in DOMAIN done : done[n] = i

PoolInv == PoolTypes /\ Known /\ EndsOnce /\ EndsAreOfTheGone /\ GoneHaveEnds

(* The first pool has a goroutine for each entry. *)
LEMMA PoolStarts == PoolInit => PoolInv
  BY PoolAssumption
     DEF PoolInit, PoolInv, PoolTypes, PoolTypeOK, Known, EndsOnce, EndsAreOfTheGone,
         GoneHaveEnds, Alive, Indices, Entries, Doings

(* Reconciling frees no slot and disturbs no goroutine that has an entry;    *)
(* a free slot stays free or gets its goroutine along with its entry.        *)
LEMMA Reconciled ==
    ASSUME PoolTypes, NEW kept \in [Indices -> Entries], NEW wanted \in Indices,
           \A i \in Indices : Alive(i) => kept[i] # "none", Reconcile(kept, wanted)
    PROVE  /\ slots' \in [Indices -> Entries] /\ goroutine' \in [Indices -> Doings]
           /\ \A i \in Indices : kept[i] # "none" =>
                  slots'[i] # "none" /\ goroutine'[i] = goroutine[i]
           /\ \A i \in Indices : kept[i] = "none" =>
                  (slots'[i] = "none" <=> goroutine'[i] = "none")
<1>1. slots' \in [Indices -> Entries]
  BY DEF Reconcile, Starts, Entries
<1>2. goroutine' \in [Indices -> Doings]
  BY DEF Reconcile, Starts, Alive, PoolTypes, Doings
<1>3. ASSUME NEW i \in Indices, kept[i] # "none"
      PROVE  slots'[i] # "none" /\ goroutine'[i] = goroutine[i]
  BY <1>3 DEF Reconcile, Starts
<1>4. ASSUME NEW i \in Indices, kept[i] = "none"
      PROVE  slots'[i] = "none" <=> goroutine'[i] = "none"
  BY <1>4 DEF Reconcile, Starts, Alive
<1> QED
  BY <1>1, <1>2, <1>3, <1>4

(* Whatever the loop and the goroutines do next. *)
LEMMA PoolStep == PoolInv /\ [PoolNext]_poolVars => PoolInv'
<1> SUFFICES ASSUME PoolInv, [PoolNext]_poolVars
             PROVE  PoolInv'
  OBVIOUS
<1> USE DEF PoolInv
<1>1. Indices \subseteq Nat
  BY PoolAssumption DEF Indices
<1>2. CASE Look
  <2>1. setting.global \in Indices /\ slots \in [Indices -> Entries]
    BY DEF PoolTypes, PoolTypeOK, Entries
  <2>2. Reconcile(slots, setting.global) /\ UNCHANGED <<setting, done, loop>>
        /\ target' = setting.global
    BY <1>2 DEF Look
  <2>3. /\ slots' \in [Indices -> Entries] /\ goroutine' \in [Indices -> Doings]
        /\ \A i \in Indices : slots[i] # "none" =>
               slots'[i] # "none" /\ goroutine'[i] = goroutine[i]
        /\ \A i \in Indices : slots[i] = "none" =>
               (slots'[i] = "none" <=> goroutine'[i] = "none")
    BY <2>1, <2>2, Reconciled DEF Known
  <2>4. PoolTypes'
    BY <2>1, <2>2, <2>3 DEF PoolTypes, PoolTypeOK, Entries, Doings
  <2>5. Known'
    BY <2>3 DEF Known, Alive
  <2>6. EndsOnce'
    BY <2>2 DEF EndsOnce
  <2>7. EndsAreOfTheGone'
    BY <2>2, <2>3 DEF EndsAreOfTheGone, Alive, PoolTypes
  <2>8. GoneHaveEnds'
    BY <2>2, <2>3 DEF GoneHaveEnds, Alive
  <2> QED
    BY <2>4, <2>5, <2>6, <2>7, <2>8
<1>3. CASE ReadEnd
  <2> DEFINE first == Head(done)
             kept == [slots EXCEPT ![first] = "none"]
  <2>1. /\ done # <<>> /\ done' = Tail(done) /\ Reconcile(kept, target)
        /\ UNCHANGED <<setting, target, loop>>
    BY <1>3 DEF ReadEnd
  <2>2. /\ first \in Indices /\ first = done[1] /\ Len(done) \in Nat \ {0}
        /\ DOMAIN done = 1..Len(done) /\ done' \in Seq(Indices)
        /\ DOMAIN done' = 1..(Len(done) - 1)
        /\ \A n \in DOMAIN done' : done'[n] = done[n + 1]
    BY <2>1 DEF PoolTypes
  <2>3. slots[first] # "none" /\ ~Alive(first)
    BY <2>2 DEF EndsAreOfTheGone
  <2>4. /\ kept \in [Indices -> Entries] /\ target \in Indices
        /\ \A i \in Indices : Alive(i) => kept[i] # "none"
    BY <2>2, <2>3 DEF PoolTypes, PoolTypeOK, Entries, Known
  <2> HIDE DEF kept
  <2>5. /\ slots' \in [Indices -> Entries] /\ goroutine' \in [Indices -> Doings]
        /\ \A i \in Indices : kept[i] # "none" =>
               slots'[i] # "none" /\ goroutine'[i] = goroutine[i]
        /\ \A i \in Indices : kept[i] = "none" =>
               (slots'[i] = "none" <=> goroutine'[i] = "none")
    BY <2>1, <2>4, Reconciled
  <2>6. /\ kept[first] = "none"
        /\ \A i \in Indices : i # first => kept[i] = slots[i]
    BY <2>2 DEF kept, PoolTypes, PoolTypeOK
  <2>7. \A n \in DOMAIN done' : n + 1 \in DOMAIN done /\ done[n + 1] # first
    BY <2>2 DEF EndsOnce
  <2>8. PoolTypes'
    BY <2>1, <2>2, <2>5 DEF PoolTypes, PoolTypeOK, Entries, Doings
  <2>9. Known'
    BY <2>5 DEF Known, Alive
  <2>10. EndsOnce'
    <3> SUFFICES ASSUME NEW m \in DOMAIN done', NEW n \in DOMAIN done', done'[m] = done'[n]
                 PROVE  m = n
      BY DEF EndsOnce
    <3>1. m + 1 = n + 1
      BY <2>2, <2>7 DEF EndsOnce
    <3> QED
      BY <2>2, <3>1
  <2>11. EndsAreOfTheGone'
    <3> SUFFICES ASSUME NEW n \in DOMAIN done'
                 PROVE  slots'[done'[n]] # "none" /\ goroutine'[done'[n]] = "none"
      BY DEF EndsAreOfTheGone, Alive
    <3>1. /\ n + 1 \in DOMAIN done /\ done'[n] = done[n + 1] /\ done[n + 1] # first
          /\ done[n + 1] \in Indices
      BY <2>2, <2>7 DEF PoolTypes
    <3>2. slots[done[n + 1]] # "none" /\ goroutine[done[n + 1]] = "none"
      BY <3>1 DEF EndsAreOfTheGone, Alive
    <3> QED
      BY <2>5, <2>6, <3>1, <3>2
  <2>12. GoneHaveEnds'
    <3> SUFFICES ASSUME NEW i \in Indices, slots'[i] # "none", goroutine'[i] = "none"
                 PROVE  \E n \in DOMAIN done' : done'[n] = i
      BY DEF GoneHaveEnds, Alive
    <3>1. kept[i] # "none" /\ i # first
      BY <2>5, <2>6
    <3>2. slots[i] # "none" /\ ~Alive(i)
      BY <2>5, <2>6, <3>1 DEF Alive
    <3>3. PICK n \in DOMAIN done : done[n] = i
      BY <3>2 DEF GoneHaveEnds
    <3>4. n # 1 /\ n - 1 \in DOMAIN done' /\ (n - 1) + 1 = n
      BY <2>2, <3>1, <3>3
    <3> QED
      BY <2>2, <3>3, <3>4
  <2> QED
    BY <2>8, <2>9, <2>10, <2>11, <2>12
<1>4. ASSUME NEW i \in Indices, Report(i)
      PROVE  PoolInv'
  <2>1. /\ goroutine[i] = "leaving" /\ goroutine' = [goroutine EXCEPT ![i] = "none"]
        /\ done' = Append(done, i) /\ UNCHANGED <<setting, target, slots, loop>>
    BY <1>4 DEF Report, Move
  <2>2. /\ Len(done) \in Nat /\ DOMAIN done = 1..Len(done) /\ done' \in Seq(Indices)
        /\ DOMAIN done' = 1..(Len(done) + 1)
        /\ \A n \in DOMAIN done : done'[n] = done[n] /\ n # Len(done) + 1
        /\ done'[Len(done) + 1] = i /\ Len(done) + 1 \in DOMAIN done'
    BY <2>1 DEF PoolTypes
  <2>3. slots[i] # "none" /\ \A n \in DOMAIN done : done[n] # i
    BY <2>1 DEF Known, EndsAreOfTheGone, Alive
  <2>4. goroutine'[i] = "none" /\ \A k \in Indices : k # i => goroutine'[k] = goroutine[k]
    BY <2>1 DEF PoolTypes
  <2>5. PoolTypes'
    BY <2>1, <2>2 DEF PoolTypes, PoolTypeOK, Doings
  <2>6. Known'
    BY <2>1, <2>4 DEF Known, Alive
  <2>7. EndsOnce'
    <3> SUFFICES ASSUME NEW m \in DOMAIN done', NEW n \in DOMAIN done', done'[m] = done'[n]
                 PROVE  m = n
      BY DEF EndsOnce
    <3>1. m \in DOMAIN done \/ m = Len(done) + 1
      BY <2>2
    <3>2. n \in DOMAIN done \/ n = Len(done) + 1
      BY <2>2
    <3> QED
      BY <2>2, <2>3, <3>1, <3>2 DEF EndsOnce
  <2>8. EndsAreOfTheGone'
    <3> SUFFICES ASSUME NEW n \in DOMAIN done'
                 PROVE  slots[done'[n]] # "none" /\ goroutine'[done'[n]] = "none"
      BY <2>1 DEF EndsAreOfTheGone, Alive
    <3>1. CASE n = Len(done) + 1
      BY <2>2, <2>3, <2>4, <3>1
    <3>2. CASE n # Len(done) + 1
      <4>1. n \in DOMAIN done /\ done'[n] = done[n] /\ done[n] \in Indices
        BY <2>2, <3>2 DEF PoolTypes
      <4> QED
        BY <2>3, <2>4, <4>1 DEF EndsAreOfTheGone, Alive
    <3> QED
      BY <3>1, <3>2
  <2>9. GoneHaveEnds'
    <3> SUFFICES ASSUME NEW k \in Indices, slots[k] # "none", goroutine'[k] = "none"
                 PROVE  \E n \in DOMAIN done' : done'[n] = k
      BY <2>1 DEF GoneHaveEnds, Alive
    <3>1. CASE k = i
      BY <2>2, <3>1
    <3>2. CASE k # i
      <4>1. PICK n \in DOMAIN done : done[n] = k
        BY <2>4, <3>2 DEF GoneHaveEnds, Alive
      <4> QED
        BY <2>2, <4>1
    <3> QED
      BY <3>1, <3>2
  <2> QED
    BY <2>5, <2>6, <2>7, <2>8, <2>9
<1>5. ASSUME NEW i \in Indices, RunOnce(i) \/ Worked(i) \/ Leave(i)
      PROVE  PoolInv'
  <2>1. PICK from \in Doings \ {"none"}, to \in Doings \ {"none"} :
           Move(i, from, to) /\ UNCHANGED <<setting, target, slots, done, loop>>
    BY <1>5 DEF RunOnce, Worked, Leave, Doings
  <2>2. /\ goroutine' \in [Indices -> Doings]
        /\ \A k \in Indices : goroutine'[k] = "none" <=> goroutine[k] = "none"
    BY <2>1 DEF Move, PoolTypes
  <2>3. PoolTypes'
    BY <2>1, <2>2 DEF PoolTypes, PoolTypeOK, Doings
  <2>4. Known' /\ GoneHaveEnds' /\ EndsOnce'
    BY <2>1, <2>2 DEF Known, GoneHaveEnds, EndsOnce, Alive
  <2>5. EndsAreOfTheGone'
    BY <2>1, <2>2 DEF EndsAreOfTheGone, Alive, PoolTypes
  <2> QED
    BY <2>3, <2>4, <2>5
<1>6. ASSUME NEW p \in Indices, NEW g \in Indices, Update(p, g)
      PROVE  PoolInv'
  BY <1>6 DEF Update, PoolTypes, PoolTypeOK, Known, EndsOnce, EndsAreOfTheGone, GoneHaveEnds, Alive
<1>7. CASE Terminate \/ Wait \/ Return
  BY <1>7 DEF Terminate, Wait, Return, PoolTypes, PoolTypeOK, Known, EndsOnce,
              EndsAreOfTheGone, GoneHaveEnds, Alive
<1>8. CASE UNCHANGED poolVars
  BY <1>8 DEF poolVars, PoolTypes, PoolTypeOK, Known, EndsOnce, EndsAreOfTheGone,
              GoneHaveEnds, Alive
<1> QED
  BY <1>2, <1>3, <1>4, <1>5, <1>6, <1>7, <1>8 DEF PoolNext, LoopStep, SlotStep

(* Ends that wait and goroutines that are alive are of different slots, so   *)
(* the channel, with its room for the largest pool, is never full when a     *)
(* goroutine leaves.                                                         *)
LEMMA RoomForEnds ==
    ASSUME PoolInv
    PROVE  Len(done) + Cardinality({i \in Indices : Alive(i)}) <= MaxWorkerLimit
<1> DEFINE alive == {i \in Indices : Alive(i)}
           gone == Indices \ alive
<1>1. IsFiniteSet(Indices) /\ Cardinality(Indices) = MaxWorkerLimit
  BY FS_Interval, PoolAssumption DEF Indices
<1>2. /\ IsFiniteSet(gone) /\ Cardinality(gone) = Cardinality(Indices) - Cardinality(Indices \cap alive)
  BY <1>1, FS_Difference
<1>3. Indices \cap alive = alive /\ IsFiniteSet(alive)
  BY <1>1, FS_Subset
<1>4. Cardinality(alive) \in Nat /\ Cardinality(gone) \in Nat
  BY <1>2, <1>3, FS_CardinalityType
<1>5. Len(done) \in Nat /\ DOMAIN done = 1..Len(done)
  BY DEF PoolInv, PoolTypes
<1>6. done \in [1..Len(done) -> gone]
  BY <1>5 DEF PoolInv, PoolTypes, EndsAreOfTheGone
<1>7. done \in Injection(1..Len(done), gone)
  BY <1>5, <1>6 DEF PoolInv, EndsOnce, Injection, IsInjective
<1>8. Cardinality(1..Len(done)) <= Cardinality(gone)
  BY <1>2, <1>7, FS_Injection
<1>9. \A n \in Nat : Cardinality(1..n) = n
  BY FS_Interval
<1>10. Cardinality(1..Len(done)) = Len(done)
  BY <1>5, <1>9
<1> HIDE DEF alive, gone
<1>11. Len(done) <= Cardinality(gone)
  BY <1>8, <1>10
<1>12. Cardinality(gone) = MaxWorkerLimit - Cardinality(alive)
  BY <1>1, <1>2, <1>3
<1>13. Len(done) + Cardinality(alive) <= MaxWorkerLimit
  BY <1>4, <1>5, <1>11, <1>12, PoolAssumption
<1> QED
  BY <1>13 DEF alive

(* For a pool of any size: a slot has one goroutine at most, which the loop  *)
(* knows of, though slots are freed and used again in any order with the     *)
(* changes of the setting, and a goroutine that leaves finds room for its    *)
(* end (cmd/worker/main.go runPool).                                         *)
THEOREM OneGoroutineEach == PoolSpec => []OneGoroutinePerSlot
<1>1. PoolInv => OneGoroutinePerSlot
  BY RoomForEnds
     DEF PoolInv, PoolTypes, Known, GoneHaveEnds, OneGoroutinePerSlot, Doings
<1> QED
  BY <1>1, PoolStarts, PoolStep, PTL DEF PoolSpec
=============================================================================
