------------------------------ MODULE MCWorkers ------------------------------
(***************************************************************************)
(* Two instances for the liveness of the workers: JobQueue with its workers,*)
(* and WorkerPool, the process that starts and retires them.  The pool does *)
(* not touch the queue, so a behaviour is of one of the two: with a queue   *)
(* that is to be emptied the pool stays as it began, and with a pool at     *)
(* work the queue stays empty.                                              *)
(***************************************************************************)
EXTENDS MCJobQueue, WorkerPool

(* A pool that was told to stop and is gone does nothing. *)
PoolGone ==
    /\ setting = [perJob |-> 1, global |-> 1] /\ changes = MaxChanges /\ target = 1
    /\ slots = [i \in Indices |-> "none"] /\ goroutine = [i \in Indices |-> "none"]
    /\ done = <<>> /\ stopping = TRUE /\ loop = "over"

(* A queue whose items are all completed, one of them after as many          *)
(* revisions as may be asked for, is at rest.                                *)
QueueDone ==
    \E revised \in Pictures :
        /\ status = [i \in Items |-> "completed"]
        /\ owner = [i \in Items |-> NoWorker] /\ left = [i \in Items |-> -Lag]
        /\ attempt = [i \in Items |-> IF i = revised THEN 1 + MaxRequests ELSE 1]
        /\ executions = {e \in Items \X (1..1 + MaxRequests) : e[2] <= attempt[e[1]]}
        /\ job = [j \in Jobs |-> "completed"]
        /\ stage = [w \in Workers |-> "idle"] /\ lease = [w \in Workers |-> NoLease]
        /\ faults = 0 /\ requests = MaxRequests /\ late = {}

WorkersInit == (Init /\ PoolGone) \/ (QueueDone /\ PoolInit)
WorkersNext == (Next /\ UNCHANGED poolVars) \/ (PoolNext /\ UNCHANGED vars)
WorkersSpec ==
    WorkersInit /\ [][WorkersNext]_<<vars, poolVars>> /\ Fairness /\ PoolFairness
=============================================================================
