------------------------------ MODULE JobQueue ------------------------------
(***************************************************************************)
(* The AI work queue (internal/ai/queue.go), the worker loop that drains it *)
(* (internal/ai/worker.go, RunOnce) with the dry-run executor, and the two  *)
(* requests that put an item back: to regenerate a failed one               *)
(* (internal/ai/jobs.go) and to revise a picture, CreateTurn                *)
(* (internal/ai/image_turns.go).                                            *)
(*                                                                         *)
(* An item row carries status, lease_owner, lease_expires_at and            *)
(* attempt_count; a job row carries the projection of its items' statuses.  *)
(* Every database transaction is one action.  Each of them reads its own    *)
(* clock first and runs later, so an action picks the delay k \in 0..Lag    *)
(* between the two: the `now' of the code is k ticks old when it commits.   *)
(* A lease is kept as the ticks it has left, lease_expires_at minus the     *)
(* present, so that time needs no counter; "lease_expires_at > now" is then *)
(* left[i] > -k.  JobProjection opens up the transactions that this module  *)
(* takes as atomic.                                                        *)
(***************************************************************************)
EXTENDS Integers, FiniteSets

CONSTANTS
    Jobs,               \* the AI jobs
    Items,              \* the job items of all jobs
    JobOf,              \* JobOf[i] : the job item i belongs to
    Pictures,           \* the items of kind image
    Workers,            \* the worker slots of all worker processes
    NoItem,             \* what a worker without a lease holds
    NoWorker,           \* the empty lease_owner
    TTL,                \* lease duration in ticks
    Lag,                \* bound: ticks between reading the clock and committing
    MaxWorkersPerJob,   \* AIWorkerSetting.max_workers_per_job
    MaxWorkersGlobal,   \* AIWorkerSetting.max_workers_global
    MaxFaults,          \* bound: crashes, stalls and database errors
    MaxRequests         \* bound: requests to regenerate or to revise

ASSUME JobsAssumption ==
    /\ JobOf \in [Items -> Jobs]
    /\ \A j \in Jobs : \E i \in Items : JobOf[i] = j
    /\ Pictures \subseteq Items
ASSUME NamesAssumption == NoItem \notin Items /\ NoWorker \notin Workers
ASSUME TimeAssumption  == Lag \in Nat /\ TTL \in Nat /\ TTL > Lag
ASSUME BoundsAssumption ==
    /\ MaxWorkersPerJob \in Nat /\ MaxWorkersGlobal \in Nat
    /\ MaxFaults \in Nat /\ MaxRequests \in Nat

VARIABLES
    status,         \* status[i]  : AIJobItem.status
    owner,          \* owner[i]   : AIJobItem.lease_owner
    left,           \* left[i]    : ticks until lease_expires_at, while running
    attempt,        \* attempt[i] : AIJobItem.attempt_count
    job,            \* job[j]     : AIJob.status
    executions,     \* the completed dry-run executions, as <<item, attempt>>
    stage,          \* stage[w]   : where RunOnce of worker w stands
    lease,          \* lease[w]   : the LeasedItem RunOnce works on
    faults,         \* faults so far
    requests,       \* requests to regenerate or to revise so far
    late            \* history: the items whose lease a heartbeat renewed
                    \* after it had run out

rows == <<status, owner, left, attempt, job>>
vars == <<status, owner, left, attempt, job, executions, stage, lease,
          faults, requests, late>>

-----------------------------------------------------------------------------
(* Types and helpers *)

ItemStatuses == {"queued", "running", "completed", "failed", "cancelled"}
JobStatuses  == ItemStatuses \cup {"partial"}
Stages       == {"idle", "executing", "succeeded", "failed", "draining"}
NoLease      == [item |-> NoItem, attempt |-> 0]

(* Rows, leases and counters have their types; what remains of a lease never *)
(* exceeds the duration it was granted for, nor trails it by more than the lag. *)
TypeOK ==
    /\ status \in [Items -> ItemStatuses]
    /\ owner \in [Items -> Workers \cup {NoWorker}]
    /\ left \in [Items -> -Lag..TTL]
    /\ attempt \in [Items -> Nat]
    /\ job \in [Jobs -> JobStatuses]
    /\ executions \subseteq (Items \X Nat)
    /\ stage \in [Workers -> Stages]
    /\ lease \in [Workers -> [item : Items \cup {NoItem}, attempt : Nat]]
    /\ faults \in 0..MaxFaults
    /\ requests \in 0..MaxRequests
    /\ late \subseteq Items

ItemsOf(j) == {i \in Items : JobOf[i] = j}

(* The switch of aggregateJob over the statuses its items have. *)
Aggregate(j, st) ==
    LET kinds == {st[i] : i \in ItemsOf(j)}
    IN  IF kinds = {"queued"} THEN "queued"
        ELSE IF kinds \cap {"queued", "running"} # {} THEN "running"
        ELSE IF kinds = {"completed"} THEN "completed"
        ELSE IF kinds = {"failed"} THEN "failed"
        ELSE IF kinds = {"cancelled"} THEN "cancelled"
        ELSE IF "completed" \in kinds THEN "partial"
        ELSE "failed"

(* aggregateJob at the end of a transaction that moves item i to st[i]. *)
AggregateJobBefore(i, st) ==   \* mutant: counts the items before the move
    job' = [job EXCEPT ![JobOf[i]] = Aggregate(JobOf[i], status)]
AggregateJob(i, st) ==
    job' = [job EXCEPT ![JobOf[i]] = Aggregate(JobOf[i], st)]

(* Running items whose lease is unexpired for a clock read k ticks ago. *)
ActiveEarly(k) ==   \* mutant: a lease in its last tick is not counted
    {i \in Items : status[i] = "running" /\ left[i] > 1 - k}
Active(k) == {i \in Items : status[i] = "running" /\ left[i] > -k}

CandidatesQueued(k) ==   \* mutant: expired leases are never taken over
    {i \in Items :
        /\ status[i] = "queued"
        /\ Cardinality(Active(k) \cap ItemsOf(JobOf[i])) < MaxWorkersPerJob}

(* Items selectLeaseCandidate may return.  Any of them, not only the oldest: *)
(* SKIP LOCKED passes over rows that another transaction holds.              *)
Candidates(k) ==
    {i \in Items :
        /\ \/ status[i] = "queued"
           \/ status[i] = "running" /\ left[i] <= -k
        /\ Cardinality(Active(k) \cap ItemsOf(JobOf[i])) < MaxWorkersPerJob}

(* attempt_count + 1, and now.Add(ttl) seen from the present. *)
SameAttempt(i) == attempt[i]        \* mutant: the attempt is not counted
NextAttempt(i) == attempt[i] + 1
ExpiryAhead(k) == TTL + k           \* mutant: the delay extends the lease
Expiry(k) == TTL - k

HoldsAnyLease(w, k) ==   \* mutant: a live lease suffices, whoever holds it
    LET i == lease[w].item
    IN  i # NoItem /\ status[i] = "running" /\ left[i] > -k

(* The condition under which every write on behalf of a lease is made. *)
HoldsLease(w, k) ==
    LET i == lease[w].item
    IN  /\ status[i] = "running"
        /\ owner[i] = w
        /\ attempt[i] = lease[w].attempt
        /\ left[i] > -k

-----------------------------------------------------------------------------
Init ==
    /\ status = [i \in Items |-> "queued"]
    /\ owner = [i \in Items |-> NoWorker]
    /\ left = [i \in Items |-> -Lag]
    /\ attempt = [i \in Items |-> 0]
    /\ job = [j \in Jobs |-> "queued"]
    /\ executions = {}
    /\ stage = [w \in Workers |-> "idle"]
    /\ lease = [w \in Workers |-> NoLease]
    /\ faults = 0
    /\ requests = 0
    /\ late = {}

ReturnsIdle(w) ==
    /\ stage' = [stage EXCEPT ![w] = "idle"]
    /\ lease' = [lease EXCEPT ![w] = NoLease]

(* LeaseNext: the limits row is locked for the whole transaction, so no two *)
(* of them overlap.                                                         *)
LeaseNext(w, i, k) ==
    /\ stage[w] = "idle"
    /\ Cardinality(Active(k)) < MaxWorkersGlobal
    /\ i \in Candidates(k)
    /\ status' = [status EXCEPT ![i] = "running"]
    /\ owner' = [owner EXCEPT ![i] = w]
    /\ left' = [left EXCEPT ![i] = Expiry(k)]
    /\ attempt' = [attempt EXCEPT ![i] = NextAttempt(i)]
    /\ AggregateJob(i, status')
    /\ stage' = [stage EXCEPT ![w] = "executing"]
    /\ lease' = [lease EXCEPT ![w] = [item |-> i, attempt |-> NextAttempt(i)]]
    /\ late' = late \ {i}
    /\ UNCHANGED <<executions, faults, requests>>

(* The ticker fires and the lease is still ours.  The loop may take the tick *)
(* although the executor's answer is already waiting.  A heartbeat whose     *)
(* clock is old may renew a lease that has run out meanwhile: late notes it. *)
Heartbeat(w, k) ==
    LET i == lease[w].item
    IN  /\ stage[w] \in {"executing", "succeeded", "failed"}
        /\ HoldsLease(w, k)
        /\ left' = [left EXCEPT ![i] = Expiry(k)]
        /\ late' = late \cup {x \in {i} : left[x] <= 0}
        /\ UNCHANGED <<status, owner, attempt, job, executions, stage, lease,
                       faults, requests>>

(* A failed heartbeat cancels the executor and discards its answer.  An      *)
(* executor that still runs has to come back first.                          *)
CancelsExecutor(w) ==
    \/ /\ stage[w] = "executing"
       /\ stage' = [stage EXCEPT ![w] = "draining"]
       /\ UNCHANGED lease
    \/ /\ stage[w] \in {"succeeded", "failed"}
       /\ ReturnsIdle(w)

HeartbeatLost(w, k) ==
    /\ CancelsExecutor(w)
    /\ ~ HoldsLease(w, k)
    /\ UNCHANGED <<rows, executions, faults, requests, late>>

(* The heartbeat statement itself fails; the executor is cancelled too. *)
HeartbeatError(w) ==
    /\ faults < MaxFaults
    /\ faults' = faults + 1
    /\ CancelsExecutor(w)
    /\ UNCHANGED <<rows, executions, requests, late>>

(* The dry-run executor's transaction, which checks the lease under the item *)
(* lock and adds at most one execution per attempt.                          *)
RecordsExecution(w, k) ==
    /\ HoldsLease(w, k)
    /\ executions' = executions \cup {<<lease[w].item, lease[w].attempt>>}

ExecutorSucceeds(w, k) ==
    /\ stage[w] = "executing"
    /\ RecordsExecution(w, k)
    /\ stage' = [stage EXCEPT ![w] = "succeeded"]
    /\ UNCHANGED <<rows, lease, faults, requests, late>>

(* An executor error other than a lost lease.  The execution may be there    *)
(* all the same: the commit was made and its acknowledgement was not seen.   *)
ExecutorFails(w, k) ==
    /\ stage[w] = "executing"
    /\ RecordsExecution(w, k) \/ UNCHANGED executions
    /\ stage' = [stage EXCEPT ![w] = "failed"]
    /\ UNCHANGED <<rows, lease, faults, requests, late>>

(* ErrLeaseLost: RunOnce returns and leaves the item to its new holder. *)
ExecutorLosesLease(w, k) ==
    /\ stage[w] = "executing"
    /\ ~ HoldsLease(w, k)
    /\ ReturnsIdle(w)
    /\ UNCHANGED <<rows, executions, faults, requests, late>>

(* RunOnce waits for the cancelled executor and discards its answer. *)
Drained(w, k) ==
    /\ stage[w] = "draining"
    /\ RecordsExecution(w, k) \/ UNCHANGED executions
    /\ ReturnsIdle(w)
    /\ UNCHANGED <<rows, faults, requests, late>>

OutcomeReported(w) ==   \* mutant: the executor's report is taken as it is
    IF stage[w] = "succeeded" THEN "completed" ELSE "failed"

(* finish asks the executions first: a failure report never hides a          *)
(* completed execution.                                                      *)
Outcome(w) ==
    IF stage[w] = "succeeded" \/ \E e \in executions : e[1] = lease[w].item
    THEN "completed" ELSE "failed"

Finish(w, k) ==
    LET i == lease[w].item
    IN  /\ stage[w] \in {"succeeded", "failed"}
        /\ HoldsLease(w, k)
        /\ status' = [status EXCEPT ![i] = Outcome(w)]
        /\ owner' = [owner EXCEPT ![i] = NoWorker]
        /\ left' = [left EXCEPT ![i] = -Lag]
        /\ AggregateJob(i, status')
        /\ ReturnsIdle(w)
        /\ UNCHANGED <<attempt, executions, faults, requests, late>>

FinishRejected(w, k) ==
    /\ stage[w] \in {"succeeded", "failed"}
    /\ ~ HoldsLease(w, k)
    /\ ReturnsIdle(w)
    /\ UNCHANGED <<rows, executions, faults, requests, late>>

(* The process dies, is told to stop, or cannot reach the database when it   *)
(* finishes: the item stays running until its lease expires.                 *)
Crash(w) ==
    /\ stage[w] # "idle"
    /\ faults < MaxFaults
    /\ faults' = faults + 1
    /\ ReturnsIdle(w)
    /\ UNCHANGED <<rows, executions, requests, late>>

(* A user asks for work to be done again. *)
Asked ==
    /\ requests < MaxRequests
    /\ requests' = requests + 1

(* regenerateItem: only a failed item goes back to the queue. *)
RegenerateItem(i) ==
    /\ status[i] = "failed"
    /\ Asked
    /\ status' = [status EXCEPT ![i] = "queued"]
    /\ owner' = [owner EXCEPT ![i] = NoWorker]
    /\ left' = [left EXCEPT ![i] = -Lag]
    /\ AggregateJob(i, status')
    /\ UNCHANGED <<attempt, executions, stage, lease, faults, late>>

(* CreateTurn: a picture that was tried before, so that it has a thread, goes *)
(* back to the queue whatever its status is, and its job is set to queued     *)
(* without counting the other items.  That no turn of the thread is active is *)
(* left open here; the turns are in ImageExecution.                           *)
CreateTurn(i) ==
    /\ i \in Pictures /\ attempt[i] > 0
    /\ Asked
    /\ status' = [status EXCEPT ![i] = "queued"]
    /\ owner' = [owner EXCEPT ![i] = NoWorker]
    /\ left' = [left EXCEPT ![i] = -Lag]
    /\ job' = [job EXCEPT ![JobOf[i]] = "queued"]
    /\ UNCHANGED <<attempt, executions, stage, lease, faults, late>>

(* Time passes.  A lease that lapses under a worker that still works on it   *)
(* means that its heartbeats, due every third of the lease, did not run: a   *)
(* fault.                                                                    *)
Lapsing ==
    {i \in Items : /\ status[i] = "running" /\ left[i] = 1
                   /\ \E w \in Workers :
                         /\ stage[w] # "draining"
                         /\ lease[w] = [item |-> i, attempt |-> attempt[i]]}

Tick ==
    /\ \E i \in Items : status[i] = "running" /\ left[i] > -Lag
    /\ \/ Lapsing = {} /\ UNCHANGED faults
       \/ Lapsing # {} /\ faults < MaxFaults /\ faults' = faults + 1
    /\ left' = [i \in Items |-> IF status[i] = "running" /\ left[i] > -Lag
                                THEN left[i] - 1 ELSE left[i]]
    /\ UNCHANGED <<status, owner, attempt, job, executions, stage, lease,
                   requests, late>>

WorkerStep(w) ==
    \/ \E i \in Items, k \in 0..Lag : LeaseNext(w, i, k)
    \/ \E k \in 0..Lag : Heartbeat(w, k)
    \/ \E k \in 0..Lag : HeartbeatLost(w, k)
    \/ HeartbeatError(w)
    \/ \E k \in 0..Lag : ExecutorSucceeds(w, k)
    \/ \E k \in 0..Lag : ExecutorFails(w, k)
    \/ \E k \in 0..Lag : ExecutorLosesLease(w, k)
    \/ \E k \in 0..Lag : Drained(w, k)
    \/ \E k \in 0..Lag : Finish(w, k)
    \/ \E k \in 0..Lag : FinishRejected(w, k)
    \/ Crash(w)

Next ==
    \/ \E w \in Workers : WorkerStep(w)
    \/ \E i \in Items : RegenerateItem(i) \/ CreateTurn(i)
    \/ Tick

Spec == Init /\ [][Next]_vars

(* A worker process keeps polling, provider calls are bounded by timeouts,   *)
(* the ticker keeps firing and time passes.  Nothing is assumed of faults,   *)
(* of users or of which worker gets which item.                              *)
Fairness ==
    /\ \A w \in Workers :
        /\ WF_vars(\E i \in Items, k \in 0..Lag : LeaseNext(w, i, k))
        /\ WF_vars(\E k \in 0..Lag : \/ ExecutorSucceeds(w, k)
                                     \/ ExecutorFails(w, k)
                                     \/ ExecutorLosesLease(w, k))
        /\ WF_vars(Heartbeat(w, 0))
        /\ WF_vars(\E k \in 0..Lag : Drained(w, k))
        /\ WF_vars(\E k \in 0..Lag : Finish(w, k) \/ FinishRejected(w, k))
    /\ WF_vars(Tick)

FairSpec == Spec /\ Fairness

-----------------------------------------------------------------------------
(* Properties *)

(* Two workers never work under the same lease: whatever lapsed, was taken   *)
(* over or came back late, an item and attempt number belong to one of them. *)
LeaseExclusive ==
    \A v, w \in Workers :
        v # w /\ lease[v] = lease[w] => lease[v] = NoLease

(* An item ends completed exactly when one of its attempts left a completed  *)
(* execution behind, also if the worker that made it crashed, reported an    *)
(* error, or lost its lease before finish ran.                               *)
OutcomeMatchesExecutions ==
    \A i \in Items :
        LET executed == \E e \in executions : e[1] = i
        IN  /\ status[i] = "completed" => executed
            /\ status[i] = "failed" => ~ executed

(* A job never says that it is over while an item is queued or running, nor  *)
(* the reverse, and once it is over it says completed, failed or partial     *)
(* according to how its items ended.  While it is not over it says queued    *)
(* when all its items wait, and running otherwise, except that CreateTurn    *)
(* sets it back to queued beside items that run or have ended: until the     *)
(* next count it may say queued while a picture waits that was tried before. *)
JobShowsItems ==
    \A j \in Jobs :
        /\ (\A i \in ItemsOf(j) : status[i] = "queued") => job[j] = "queued"
        /\ job[j] = "queued" =>
              \/ \A i \in ItemsOf(j) : status[i] = "queued"
              \/ \E i \in ItemsOf(j) \cap Pictures :
                    status[i] = "queued" /\ attempt[i] > 0
        /\ job[j] = "running" =>
              \E i \in ItemsOf(j) : status[i] \in {"queued", "running"}
        /\ job[j] = "completed" <=> \A i \in ItemsOf(j) : status[i] = "completed"
        /\ job[j] = "failed" <=> \A i \in ItemsOf(j) : status[i] = "failed"
        /\ job[j] = "partial" <=>
              /\ \A i \in ItemsOf(j) : status[i] \in {"completed", "failed"}
              /\ \E i \in ItemsOf(j) : status[i] = "completed"
              /\ \E i \in ItemsOf(j) : status[i] = "failed"
        /\ job[j] # "cancelled"

(* However old the clocks are, the leases in force exceed the limits, of the *)
(* pool and of each job, only by leases that a heartbeat brought back after  *)
(* they had run out: LeaseNext counts every lease in force, also in a view   *)
(* of the past, while others lapse, are renewed and are taken over.          *)
ActiveWithinLimits ==
    LET inForce == {i \in Items \ late : status[i] = "running" /\ left[i] > 0}
    IN  /\ Cardinality(inForce) <= MaxWorkersGlobal
        /\ \A j \in Jobs : Cardinality(inForce \cap ItemsOf(j)) <= MaxWorkersPerJob

(* Every job is over eventually: work of crashed, stalled and cancelled      *)
(* workers is taken over, and no item is left running with nobody on it.     *)
(* A picture that CreateTurn takes from its worker is done by the next one.  *)
JobsSettle ==
    \A j \in Jobs :
        job[j] \in {"queued", "running"} ~> job[j] \notin {"queued", "running"}

(* The queue keeps the promise of FencedClaims: with owners, expiry times    *)
(* and heartbeats forgotten, a lease is a claim of its attempt number.       *)
Promise == INSTANCE FencedClaims WITH
    phase <- [i \in Items |->
                CASE status[i] = "queued" -> "waiting"
                  [] status[i] = "running" -> "claimed"
                  [] status[i] = "failed" -> "undone"
                  [] OTHER -> "done"],
    Revisable <- Pictures,
    epoch <- attempt,
    claim <- [w \in Workers |->
                [item |-> lease[w].item, epoch |-> lease[w].attempt]]

KeepsPromise == Promise!Spec
=============================================================================
