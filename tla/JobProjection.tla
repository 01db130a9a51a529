---------------------------- MODULE JobProjection ----------------------------
(***************************************************************************)
(* The database transactions that move the items of one AI job and write    *)
(* the job's projected status, opened up into their statements, as MySQL    *)
(* runs them: row locks held to the end, a read view (REPEATABLE READ, the  *)
(* default the code does not change) fixed by the first plain SELECT, and   *)
(* locking reads and UPDATEs that see the newest committed rows.            *)
(*                                                                         *)
(*   LeaseNext   limits, then a plain count, an item (SKIP LOCKED), the job *)
(*   finish      the item's executions, the item, the job                   *)
(*   regenerate  the job, then the item                                     *)
(*   prepare     the item, then the gap that a new execution goes into      *)
(*   dispatch    the item, then its execution (text executor)               *)
(*   finalize    an execution, a plain read of the item, the item, the job  *)
(*   turn        the job and the item, in either order                      *)
(*                                                                         *)
(* JobQueue takes the first three and the last as atomic; this module shows *)
(* what that is worth, and what finalize does to the projection.  The image *)
(* and the dry-run executor insert their executions as the text executor    *)
(* does: the item first, the gap second.                                    *)
(***************************************************************************)
EXTENDS Naturals, FiniteSets

CONSTANTS
    Items,          \* the items of the job
    TextItems,      \* those the text executor runs
    Clients,        \* connections that run transactions
    Nobody,         \* the holder of a free lock
    NoItem,
    MaxExecutions   \* bound: executions per text item

ASSUME TextAssumption == TextItems \subseteq Items /\ Items # {} /\ NoItem \notin Items
ASSUME ExecutionsAssumption == MaxExecutions \in Nat \ {0}
ASSUME NobodyAssumption == Nobody \notin Clients

VARIABLES
    status,         \* status[i]   : committed AIJobItem.status
    job,            \* committed AIJob.status
    writer,         \* the kind of transaction that wrote job last
    execution,      \* execution[i][n] : committed AIExecution.status of text item i
    asked,          \* text items regenerated since their newest execution was made
    lock,           \* lock[r]     : the client holding row r
    tx,             \* tx[c]       : the transaction client c is in
    view            \* view[c]     : its read view of the item statuses

vars == <<status, job, writer, execution, asked, lock, tx, view>>

ItemStatuses == {"queued", "running", "completed", "failed"}
JobStatuses  == ItemStatuses \cup {"partial"}
ExecutionStatuses == {"none", "preparing", "calling", "attention", "storing",
                      "completed", "failed"}
Kinds == {"none", "lease", "finish", "regenerate", "prepare", "dispatch",
          "finalize", "turn"}
Steps == {"begin", "select", "item", "execution", "job", "count", "commit", "close"}
Executions == 1..MaxExecutions

Limits       == <<"limits">>
JobRow       == <<"job">>
Row(i)       == <<"item", i>>
ExecRow(i, n) == <<"execution", i, n>>
ExecRows(i)  == {ExecRow(i, n) : n \in Executions}
Rows == {Limits, JobRow} \cup {Row(i) : i \in Items}
            \cup UNION {ExecRows(i) : i \in TextItems}

NoTx   == [kind |-> "none", item |-> NoItem, step |-> "begin", goal |-> "queued", n |-> 1]
NoView == [i \in {} |-> "queued"]

(* Rows, locks and transactions have their types; in particular the job row  *)
(* always holds one of the six statuses of a job, whatever aggregateJob counts. *)
TypeOK ==
    /\ status \in [Items -> ItemStatuses]
    /\ job \in JobStatuses
    /\ writer \in Kinds
    /\ execution \in [TextItems -> [Executions -> ExecutionStatuses]]
    /\ asked \subseteq TextItems
    /\ lock \in [Rows -> Clients \cup {Nobody}]
    /\ tx \in [Clients -> [kind : Kinds, item : Items \cup {NoItem}, step : Steps,
                           goal : ItemStatuses, n : Executions]]
    /\ \A c \in Clients : view[c] = NoView \/ view[c] \in [Items -> ItemStatuses]

-----------------------------------------------------------------------------
(* Helpers *)

AggregateLosesDefault(st) ==   \* mutant: no default branch
    LET kinds == {st[i] : i \in Items}
    IN  IF kinds = {"queued"} THEN "queued"
        ELSE IF kinds \cap {"queued", "running"} # {} THEN "running"
        ELSE IF kinds = {"completed"} THEN "completed"
        ELSE IF "completed" \in kinds THEN "partial"
        ELSE "none"

(* The switch of aggregateJob; nothing cancels an item. *)
Aggregate(st) ==
    LET kinds == {st[i] : i \in Items}
    IN  IF kinds = {"queued"} THEN "queued"
        ELSE IF kinds \cap {"queued", "running"} # {} THEN "running"
        ELSE IF kinds = {"completed"} THEN "completed"
        ELSE IF "completed" \in kinds THEN "partial"
        ELSE "failed"

(* The newest execution of a text item; 0 when there is none. *)
Latest(i) ==
    LET made == {n \in Executions : execution[i][n] # "none"}
    IN  IF made = {} THEN 0 ELSE Cardinality(made)

LatestStatus(i) ==
    IF i \in TextItems /\ Latest(i) # 0 THEN execution[i][Latest(i)] ELSE "none"

Free(c, r) == lock[r] \in {Nobody, c}
Take(c, rs) == lock' = [r \in Rows |-> IF r \in rs THEN c ELSE lock[r]]
Idle(c) == tx[c] = NoTx
In(c, kind, step) == tx[c].kind = kind /\ tx[c].step = step

(* The end of a transaction, committed or rolled back. *)
Ends(c) ==
    /\ lock' = [r \in Rows |-> IF lock[r] = c THEN Nobody ELSE lock[r]]
    /\ tx' = [tx EXCEPT ![c] = NoTx]
    /\ view' = [view EXCEPT ![c] = NoView]

Goes(c, step) == tx' = [tx EXCEPT ![c].step = step]

-----------------------------------------------------------------------------
Init ==
    /\ status = [i \in Items |-> "queued"]
    /\ job = "queued"
    /\ writer = "none"
    /\ execution = [i \in TextItems |-> [n \in Executions |-> "none"]]
    /\ asked = {}
    /\ lock = [r \in Rows |-> Nobody]
    /\ tx = [c \in Clients |-> NoTx]
    /\ view = [c \in Clients |-> NoView]

(* LeaseNext locks the limits and counts the active items: a plain read,     *)
(* which fixes its view of all items before it knows which one it takes.     *)
LeaseBegin(c) ==
    /\ Idle(c)
    /\ Free(c, Limits)
    /\ Take(c, {Limits})
    /\ view' = [view EXCEPT ![c] = status]
    /\ tx' = [tx EXCEPT ![c] = [NoTx EXCEPT !.kind = "lease", !.step = "select"]]
    /\ UNCHANGED <<status, job, writer, execution, asked>>

(* A queued item, or a running one whose lease has expired, that nobody locks. *)
LeaseSelect(c, i) ==
    /\ In(c, "lease", "select")
    /\ lock[Row(i)] = Nobody
    /\ status[i] \in {"queued", "running"}
    /\ Take(c, {Row(i)})
    /\ tx' = [tx EXCEPT ![c].step = "job", ![c].item = i, ![c].goal = "running"]
    /\ UNCHANGED <<status, job, writer, execution, asked, view>>

LeaseNone(c) ==
    /\ In(c, "lease", "select")
    /\ Ends(c)
    /\ UNCHANGED <<status, job, writer, execution, asked>>

FinishParentFirst(c, i) ==   \* mutant: the job is locked before the item
    /\ Idle(c)
    /\ status[i] = "running"
    /\ Free(c, JobRow)
    /\ Take(c, {JobRow})
    /\ tx' = [tx EXCEPT ![c] = [NoTx EXCEPT !.kind = "finish", !.item = i,
                                            !.step = "item", !.goal = "completed"]]
    /\ UNCHANGED <<status, job, writer, execution, asked, view>>

(* finish reporting success goes straight to the item.  The text executor    *)
(* reports success for a completed execution, and for one it marked failed   *)
(* because a source image could not be read.                                 *)
FinishCompleted(c, i) ==
    /\ Idle(c)
    /\ status[i] = "running"
    /\ i \in TextItems => LatestStatus(i) \in {"completed", "failed"}
    /\ tx' = [tx EXCEPT ![c] = [NoTx EXCEPT !.kind = "finish", !.item = i,
                                            !.step = "item", !.goal = "completed"]]
    /\ UNCHANGED <<status, job, writer, execution, asked, lock, view>>

(* finish reporting failure locks the executions, with the gap that a new    *)
(* one would go into, and adopts a completion.                               *)
FinishFailed(c, i) ==
    /\ Idle(c)
    /\ status[i] = "running"
    /\ i \in TextItems => \A r \in ExecRows(i) : Free(c, r)
    /\ Take(c, IF i \in TextItems THEN ExecRows(i) ELSE {})
    /\ tx' = [tx EXCEPT ![c] = [NoTx EXCEPT !.kind = "finish", !.item = i, !.step = "item",
                !.goal = IF LatestStatus(i) = "completed" THEN "completed" ELSE "failed"]]
    /\ UNCHANGED <<status, job, writer, execution, asked, view>>

FinishItemUnlocked(c) ==   \* mutant: the item is read without a lock first
    /\ In(c, "finish", "item")
    /\ Free(c, Row(tx[c].item))
    /\ status[tx[c].item] = "running"
    /\ Take(c, {Row(tx[c].item)})
    /\ Goes(c, "job")
    /\ view' = [view EXCEPT ![c] = status]
    /\ UNCHANGED <<status, job, writer, execution, asked>>

(* The item as it is now: still running under this lease, or ErrLeaseLost.   *)
FinishItem(c) ==
    LET i == tx[c].item
    IN  /\ In(c, "finish", "item")
        /\ Free(c, Row(i))
        /\ \/ /\ status[i] = "running"
              /\ Take(c, {Row(i)})
              /\ Goes(c, "job")
              /\ UNCHANGED view
           \/ Ends(c)
        /\ UNCHANGED <<status, job, writer, execution, asked>>

(* aggregateJob locks the job row, which regenerate already holds ... *)
LockJob(c) ==
    /\ tx[c].step = "job" /\ tx[c].kind # "turn"
    /\ Free(c, JobRow)
    /\ Take(c, {JobRow})
    /\ Goes(c, "count")
    /\ UNCHANGED <<status, job, writer, execution, asked, view>>

(* ... and counts the items: a plain read, which uses the view of the        *)
(* transaction if it already has one.                                        *)
CountView(c) == IF view[c] = NoView THEN status ELSE view[c]

Count(c) ==
    /\ tx[c].step = "count"
    /\ view' = [view EXCEPT ![c] = CountView(c)]
    /\ Goes(c, "commit")
    /\ UNCHANGED <<status, job, writer, execution, asked, lock>>

(* A transaction always sees its own change on top of its view. *)
Commit(c) ==
    LET i == tx[c].item
    IN  /\ tx[c].step = "commit"
        /\ status' = [status EXCEPT ![i] = tx[c].goal]
        /\ job' = Aggregate([view[c] EXCEPT ![i] = tx[c].goal])
        /\ writer' = tx[c].kind
        /\ execution' = IF tx[c].kind = "finalize"
                        THEN [execution EXCEPT ![i][tx[c].n] = "completed"]
                        ELSE execution
        /\ asked' = IF tx[c].kind = "regenerate" THEN asked \cup ({i} \cap TextItems) ELSE asked
        /\ Ends(c)

(* regenerateItem takes the job first and the item second. *)
RegenerateBegin(c, i) ==
    /\ Idle(c)
    /\ status[i] = "failed"
    /\ Free(c, JobRow)
    /\ Take(c, {JobRow})
    /\ tx' = [tx EXCEPT ![c] = [NoTx EXCEPT !.kind = "regenerate", !.item = i,
                                            !.step = "item", !.goal = "queued"]]
    /\ UNCHANGED <<status, job, writer, execution, asked, view>>

RegenerateItem(c) ==
    LET i == tx[c].item
    IN  /\ In(c, "regenerate", "item")
        /\ Free(c, Row(i))
        /\ \/ /\ status[i] = "failed"
              /\ Take(c, {Row(i)})
              /\ Goes(c, "count")
              /\ UNCHANGED view
           \/ status[i] # "failed" /\ Ends(c)
        /\ UNCHANGED <<status, job, writer, execution, asked>>

(* CreateTurn finds the thread of an image item with a locking join, which   *)
(* locks item and job too, in the order the optimizer joins them.  The item  *)
(* may be at any point, as long as the thread has no active turn.            *)
TurnBegin(c, i) ==
    /\ Idle(c)
    /\ i \notin TextItems
    /\ \E first \in {"item", "job"} :
          LET row == IF first = "item" THEN Row(i) ELSE JobRow
          IN  /\ Free(c, row)
              /\ Take(c, {row})
              /\ tx' = [tx EXCEPT ![c] =
                     [NoTx EXCEPT !.kind = "turn", !.item = i, !.goal = "queued",
                                  !.step = IF first = "item" THEN "job" ELSE "item"]]
    /\ UNCHANGED <<status, job, writer, execution, asked, view>>

(* With both rows it puts the item back and writes the job itself, without a *)
(* look at the other items.                                                  *)
TurnWrites(c) ==
    /\ \/ In(c, "turn", "item") /\ Free(c, Row(tx[c].item))
       \/ In(c, "turn", "job") /\ Free(c, JobRow)
    /\ status' = [status EXCEPT ![tx[c].item] = "queued"]
    /\ job' = "queued"
    /\ writer' = "turn"
    /\ Ends(c)
    /\ UNCHANGED <<execution, asked>>

(* prepare locks a running text item that is to have a new execution: its    *)
(* first one, or one after a regeneration ...                                *)
PrepareItem(c, i) ==
    /\ Idle(c)
    /\ lock[Row(i)] = Nobody
    /\ status[i] = "running"
    /\ Latest(i) < MaxExecutions
    /\ Latest(i) = 0 \/ i \in asked
    /\ Take(c, {Row(i)})
    /\ tx' = [tx EXCEPT ![c] = [NoTx EXCEPT !.kind = "prepare", !.item = i,
                                            !.step = "execution", !.n = Latest(i) + 1]]
    /\ UNCHANGED <<status, job, writer, execution, asked, view>>

(* ... and inserts it, where no finish holds the gap after the newest one.   *)
PrepareInsert(c) ==
    LET i == tx[c].item
        n == tx[c].n
    IN  /\ In(c, "prepare", "execution")
        /\ Free(c, ExecRow(i, n))
        /\ execution' = [execution EXCEPT ![i][n] = "preparing"]
        /\ asked' = asked \ {i}
        /\ Ends(c)
        /\ UNCHANGED <<status, job, writer>>

DispatchItem(c, i) ==
    /\ Idle(c)
    /\ LatestStatus(i) = "preparing"
    /\ lock[Row(i)] = Nobody
    /\ status[i] = "running"
    /\ Take(c, {Row(i)})
    /\ tx' = [tx EXCEPT ![c] = [NoTx EXCEPT !.kind = "dispatch", !.item = i,
                                            !.step = "execution", !.n = Latest(i)]]
    /\ UNCHANGED <<status, job, writer, execution, asked, view>>

DispatchExecution(c) ==
    LET i == tx[c].item
        n == tx[c].n
    IN  /\ In(c, "dispatch", "execution")
        /\ Free(c, ExecRow(i, n))
        /\ execution' = IF execution[i][n] = "preparing"
                        THEN [execution EXCEPT ![i][n] = "calling"] ELSE execution
        /\ Ends(c)
        /\ UNCHANGED <<status, job, writer, asked>>

(* markProviderFailure and captureProviderResponse touch one execution row   *)
(* and ask for no lease, so they may come at any time after the dispatch.    *)
MarkFailure(i, n) ==
    /\ execution[i][n] \in {"preparing", "calling"}
    /\ lock[ExecRow(i, n)] = Nobody
    /\ \E outcome \in {"failed", "attention"} :
          execution' = [execution EXCEPT ![i][n] = outcome]
    /\ UNCHANGED <<status, job, writer, asked, lock, tx, view>>

Capture(i, n) ==
    /\ execution[i][n] \in {"calling", "attention"}
    /\ lock[ExecRow(i, n)] = Nobody
    /\ execution' = [execution EXCEPT ![i][n] = "storing"]
    /\ UNCHANGED <<status, job, writer, asked, lock, tx, view>>

(* finalize locks the execution and reads its item with a plain SELECT: the  *)
(* view of all items is fixed here.                                          *)
FinalizeBegin(c, i, n) ==
    /\ Idle(c)
    /\ execution[i][n] = "storing"
    /\ Free(c, ExecRow(i, n))
    /\ Take(c, {ExecRow(i, n)})
    /\ view' = [view EXCEPT ![c] = status]
    /\ tx' = [tx EXCEPT ![c] = [NoTx EXCEPT !.kind = "finalize", !.item = i, !.step = "item",
                                            !.goal = "completed", !.n = n]]
    /\ UNCHANGED <<status, job, writer, execution, asked>>

PromotesStale(c) == view[c][tx[c].item] = "failed"   \* mutant: trusts the item read before
Promotes(c) == status[tx[c].item] = "failed"

(* The conditional UPDATE that promotes a failed item sees it as it is now. *)
FinalizeItem(c) ==
    LET i == tx[c].item
    IN  /\ In(c, "finalize", "item")
        /\ Free(c, Row(i))
        /\ Take(c, {Row(i)})
        /\ Goes(c, IF Promotes(c) THEN "job" ELSE "close")
        /\ UNCHANGED <<status, job, writer, execution, asked, view>>

FinalizeClose(c) ==
    /\ In(c, "finalize", "close")
    /\ execution' = [execution EXCEPT ![tx[c].item][tx[c].n] = "completed"]
    /\ Ends(c)
    /\ UNCHANGED <<status, job, writer, asked>>

(* Clients that wait for each other in a circle; InnoDB rolls one back. *)
Wants(c) ==
    IF tx[c].step = "item" THEN {Row(tx[c].item)}
    ELSE IF tx[c].step = "job" THEN {JobRow}
    ELSE IF tx[c].step = "execution" THEN {ExecRow(tx[c].item, tx[c].n)}
    ELSE {}

WaitCycle(C) ==
    /\ C # {}
    /\ \A c \in C : \E r \in Wants(c) : lock[r] \in C \ {c}

DeadlockVictim(c) ==
    /\ \E C \in SUBSET Clients : c \in C /\ WaitCycle(C)
    /\ Ends(c)
    /\ UNCHANGED <<status, job, writer, execution, asked>>

Next ==
    \/ \E c \in Clients :
        \/ LeaseBegin(c) \/ LeaseNone(c)
        \/ FinishItem(c) \/ RegenerateItem(c)
        \/ LockJob(c) \/ Count(c) \/ Commit(c)
        \/ TurnWrites(c)
        \/ PrepareInsert(c) \/ DispatchExecution(c)
        \/ FinalizeItem(c) \/ FinalizeClose(c)
        \/ DeadlockVictim(c)
    \/ \E c \in Clients, i \in Items :
        \/ LeaseSelect(c, i)
        \/ FinishCompleted(c, i) \/ FinishFailed(c, i)
        \/ RegenerateBegin(c, i) \/ TurnBegin(c, i)
    \/ \E c \in Clients, i \in TextItems :
        \/ PrepareItem(c, i) \/ DispatchItem(c, i)
        \/ \E n \in Executions : FinalizeBegin(c, i, n)
    \/ \E i \in TextItems, n \in Executions : MarkFailure(i, n) \/ Capture(i, n)

Spec == Init /\ [][Next]_vars

-----------------------------------------------------------------------------
(* Properties *)

(* Whatever LeaseNext, finish and regenerate write into the job row is what  *)
(* its items say, at the commit and until the next one, even where their     *)
(* counts were read from an old view: only finalize, which counts in one     *)
(* too, and CreateTurn, which does not count, write anything else.           *)
QueueWritesExact ==
    writer \in {"none", "lease", "finish", "regenerate"} => job = Aggregate(status)

(* A requeued item runs again: no transaction that saw it failed, running or *)
(* queued before turns it into anything but a running item.                  *)
RequeuedItemRuns ==
    [][\A i \in Items : status[i] = "queued" => status'[i] \in {"queued", "running"}]_vars

(* A wait cycle always goes through a transaction that takes its rows        *)
(* against the order of the others, execution before item before job:        *)
(* prepare and dispatch hold an item when they ask for executions,           *)
(* regenerate and CreateTurn may hold the job when they ask for an item.     *)
(* LeaseNext, finish and finalize alone never deadlock.                      *)
DeadlocksNeedReverseOrder ==
    \A C \in SUBSET Clients :
        WaitCycle(C) =>
            \E c \in C : tx[c].kind \in {"regenerate", "prepare", "dispatch", "turn"}

(* What the comment in aggregateJob says the parent lock is for: no terminal *)
(* projection is overwritten with a stale running snapshot.                  *)
NoStaleRunning ==
    job = "running" => \E i \in Items : status[i] \in {"queued", "running"}
==============================================================================
