----------------------------- MODULE WorkerPool ------------------------------
(***************************************************************************)
(* The worker process (cmd/worker/main.go runPool and runWorkerSlot, with   *)
(* the setting of internal/ai/worker_settings.go that it follows): one      *)
(* goroutine for each slot, started and retired as the setting changes, and *)
(* a loop that hears of their ends over a channel.                          *)
(*                                                                         *)
(* A step is what happens between two channel operations of a goroutine.    *)
(***************************************************************************)
EXTENDS Naturals, Sequences, FiniteSets

CONSTANTS
    MaxWorkerLimit,     \* the largest pool, and the room in the channel of ends
    MaxChanges          \* bound: changes of the setting

ASSUME PoolAssumption == MaxWorkerLimit \in Nat /\ MaxChanges \in Nat

VARIABLES
    setting,            \* the row of ai_worker_settings: per job, global
    changes,            \* changes of it so far
    target,             \* what the loop made of it when it last looked
    slots,              \* slots[i] : the loop's entry for slot i: none, kept or retiring
    goroutine,          \* goroutine[i] : none, idle, working or leaving
    done,               \* the channel of ends
    stopping,           \* whether the process was told to stop
    loop                \* running, waiting for its goroutines, or over

poolVars == <<setting, changes, target, slots, goroutine, done, stopping, loop>>

Indices == 1..MaxWorkerLimit
Alive(i) == goroutine[i] # "none"

(* A pair that was not validated counts as the default.                      *)
ValidateWorkerConcurrency(perJob, global) ==
    /\ perJob \in 1..MaxWorkerLimit /\ global \in 1..MaxWorkerLimit
    /\ perJob <= global

Update(perJob, global) ==
    /\ changes < MaxChanges
    /\ ValidateWorkerConcurrency(perJob, global)
    /\ setting' = [perJob |-> perJob, global |-> global]
    /\ changes' = changes + 1
    /\ UNCHANGED <<target, slots, goroutine, done, stopping, loop>>

-----------------------------------------------------------------------------
(* The loop *)

(* What is missing is started, what is too much is told to retire.           *)
StartsAny(i, kept, wanted) == i <= wanted /\ kept[i] # "kept"  \* mutant: not waiting for the end
Starts(i, kept, wanted) == i <= wanted /\ kept[i] = "none"
Reconcile(kept, wanted) ==
    /\ slots' = [i \in Indices |->
           IF Starts(i, kept, wanted) THEN "kept"
           ELSE IF i > wanted /\ kept[i] = "kept" THEN "retiring" ELSE kept[i]]
    /\ goroutine' = [i \in Indices |->
           IF Starts(i, kept, wanted)
           THEN IF Alive(i) THEN "twice" ELSE "idle" ELSE goroutine[i]]

(* The settings are read and the pool is reconciled in one iteration; when   *)
(* they cannot be read the target stays.                                     *)
Look ==
    /\ loop = "running"
    /\ target' = setting.global
    /\ Reconcile(slots, setting.global)
    /\ UNCHANGED <<setting, changes, done, stopping, loop>>

ReadEnd ==
    /\ loop = "running" /\ done # <<>>
    /\ done' = Tail(done)
    /\ Reconcile([slots EXCEPT ![Head(done)] = "none"], target)
    /\ UNCHANGED <<setting, changes, target, stopping, loop>>

Terminate ==
    /\ ~stopping
    /\ stopping' = TRUE
    /\ UNCHANGED <<setting, changes, target, slots, goroutine, done, loop>>

Wait ==
    /\ loop = "running" /\ stopping
    /\ loop' = "waiting"
    /\ UNCHANGED <<setting, changes, target, slots, goroutine, done, stopping>>

Return ==
    /\ loop = "waiting" /\ \A i \in Indices : ~Alive(i)
    /\ loop' = "over"
    /\ UNCHANGED <<setting, changes, target, slots, goroutine, done, stopping>>

-----------------------------------------------------------------------------
(* A slot *)

Move(i, from, to) == goroutine[i] = from /\ goroutine' = [goroutine EXCEPT ![i] = to]

(* Between two runs, and while it waits for the next, a slot looks whether   *)
(* it is to go: work in progress is finished, or its context ends it.        *)
ToldToLeave(i) == stopping \/ slots[i] = "retiring"

RunOnce(i) ==
    /\ ~ToldToLeave(i)
    /\ Move(i, "idle", "working")
    /\ UNCHANGED <<setting, changes, target, slots, done, stopping, loop>>

Worked(i) ==
    /\ Move(i, "working", "idle")
    /\ UNCHANGED <<setting, changes, target, slots, done, stopping, loop>>

Leave(i) ==
    /\ ToldToLeave(i)
    /\ Move(i, "idle", "leaving")
    /\ UNCHANGED <<setting, changes, target, slots, done, stopping, loop>>

ReportAny(i) ==  \* mutant: the channel has room for one end
    /\ Len(done) < 1
    /\ Move(i, "leaving", "none")
    /\ done' = Append(done, i)
    /\ UNCHANGED <<setting, changes, target, slots, stopping, loop>>
Report(i) ==
    /\ Len(done) < MaxWorkerLimit
    /\ Move(i, "leaving", "none")
    /\ done' = Append(done, i)
    /\ UNCHANGED <<setting, changes, target, slots, stopping, loop>>

PoolInit ==
    /\ setting \in [perJob : {1}, global : Indices]
    /\ changes = 0 /\ target = setting.global
    /\ slots = [i \in Indices |-> IF i <= target THEN "kept" ELSE "none"]
    /\ goroutine = [i \in Indices |-> IF i <= target THEN "idle" ELSE "none"]
    /\ done = <<>> /\ stopping = FALSE /\ loop = "running"

SlotStep(i) == RunOnce(i) \/ Worked(i) \/ Leave(i) \/ Report(i)
LoopStep == Look \/ ReadEnd \/ Wait \/ Return

PoolNext ==
    \/ \E p, g \in Indices : Update(p, g)
    \/ Terminate \/ LoopStep
    \/ \E i \in Indices : SlotStep(i)

PoolSpec == PoolInit /\ [][PoolNext]_poolVars

(* A select that can go on chooses each ready case sooner or later, settings *)
(* can be read again in the end, and a run of a worker ends, for its calls   *)
(* have deadlines.  Nothing is assumed of users or of new work.              *)
PoolFairness ==
    /\ WF_poolVars(Look) /\ WF_poolVars(ReadEnd) /\ WF_poolVars(Wait) /\ WF_poolVars(Return)
    /\ \A i \in Indices :
           WF_poolVars(Worked(i)) /\ WF_poolVars(Leave(i)) /\ WF_poolVars(Report(i))

-----------------------------------------------------------------------------
(* Properties *)

PoolTypeOK ==
    /\ setting.global \in Indices /\ target \in Indices
    /\ slots \in [Indices -> {"none", "kept", "retiring"}]
    /\ goroutine \in [Indices -> {"none", "idle", "working", "leaving", "twice"}]
    /\ loop \in {"running", "waiting", "over"}

(* A slot has one goroutine at most, which the loop knows of, although its   *)
(* number is used again as soon as it has left: two goroutines of one slot   *)
(* would share the name their leases are held under (main.go startSlot,      *)
(* "%s-slot-%d").  Whoever is about to report finds room.                    *)
OneGoroutinePerSlot ==
    /\ PoolTypeOK
    /\ \A i \in Indices : goroutine[i] # "twice"
    /\ \A i \in Indices : Alive(i) => slots[i] # "none"
    /\ \A i \in Indices : slots[i] # "none" /\ ~Alive(i) => \E n \in DOMAIN done : done[n] = i
    /\ Len(done) + Cardinality({i \in Indices : Alive(i)}) <= MaxWorkerLimit

(* In the end the pool is what the setting says, or, when the process was    *)
(* told to stop, gone: no end is lost between a tick and a restart, and no   *)
(* goroutine waits on a channel that nobody reads any more.                  *)
PoolSettles ==
    <>[](IF stopping THEN loop = "over"
         ELSE \A i \in Indices : (slots[i] = "kept" /\ Alive(i)) = (i <= setting.global))
=============================================================================
