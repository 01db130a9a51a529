------------------------ MODULE JobProjectionProofs -------------------------
(***************************************************************************)
(* What JobProjection.tla does for any number of items, connections and     *)
(* executions.                                                              *)
(*                                                                         *)
(* The invariant says of each connection, from where its transaction        *)
(* stands: which of the contended rows it holds, what the item it has       *)
(* locked still is, and how old its read view is (Fits).  Rows that are     *)
(* held keep others away, so what a transaction has read under its locks    *)
(* is true when it commits.                                                 *)
(***************************************************************************)
EXTENDS JobProjection, FiniteSetTheorems, TLAPS

(* The statements each kind of transaction goes through.                    *)
OnPath(t) ==
    \/ t = NoTx
    \/ t.kind = "lease" /\ t.step = "select"
    \/ /\ t.kind = "lease" /\ t.step \in {"job", "count", "commit"}
       /\ t.item \in Items /\ t.goal = "running"
    \/ /\ t.kind = "finish" /\ t.step \in {"item", "job", "count", "commit"}
       /\ t.item \in Items /\ t.goal \in {"completed", "failed"}
    \/ /\ t.kind = "regenerate" /\ t.step \in {"item", "count", "commit"}
       /\ t.item \in Items /\ t.goal = "queued"
    \/ t.kind \in {"prepare", "dispatch"} /\ t.step = "execution" /\ t.item \in TextItems
    \/ /\ t.kind = "finalize" /\ t.step \in {"item", "job", "close", "count", "commit"}
       /\ t.item \in TextItems /\ t.goal = "completed"
    \/ t.kind = "turn" /\ t.step \in {"item", "job"} /\ t.item \in Items /\ t.goal = "queued"

HasItem(t) == t.step \in {"job", "count", "commit", "close", "execution"}
HasJob(t) ==
    t.step \in {"count", "commit"} \/ (t.kind \in {"regenerate", "turn"} /\ t.step = "item")

(* What the item of a transaction was when it was locked.                   *)
Before(kind) ==
    IF kind = "lease" THEN {"queued", "running"}
    ELSE IF kind = "finish" THEN {"running"}
    ELSE IF kind = "turn" THEN ItemStatuses ELSE {"failed"}

Fits(c, t, v, l, st) ==
    /\ OnPath(t)
    /\ \A i \in Items : l[Row(i)] = c <=> (HasItem(t) /\ t.item = i)
    /\ l[JobRow] = c <=> HasJob(t)
    /\ t.step \in {"job", "count", "commit"} => st[t.item] \in Before(t.kind)
    /\ t.kind \notin {"lease", "finalize"} =>
           v = IF t.step = "commit" THEN st ELSE NoView
    /\ t.step = "commit" => v \in [Items -> ItemStatuses]

Views == {NoView} \cup [Items -> ItemStatuses]
Typed == TypeOK /\ view \in [Clients -> Views]
Fitting == \A c \in Clients : Fits(c, tx[c], view[c], lock, status)
IInv == Typed /\ Fitting /\ QueueWritesExact

-----------------------------------------------------------------------------
(* The rows that transactions lock are different rows.                      *)
LEMMA RowsDiffer ==
    /\ Limits \in Rows /\ JobRow \in Rows /\ Limits # JobRow
    /\ \A i \in Items : Row(i) \in Rows /\ Row(i) # JobRow /\ Row(i) # Limits
    /\ \A i, j : Row(i) = Row(j) => i = j
    /\ \A i, n : ExecRow(i, n) # JobRow /\ ExecRow(i, n) # Limits
    /\ \A i, j, n : ExecRow(i, n) # Row(j)
<1>1. /\ Limits[1] = "limits" /\ JobRow[1] = "job"
      /\ \A i : Row(i)[1] = "item" /\ Row(i)[2] = i
      /\ \A i, n : ExecRow(i, n)[1] = "execution"
  BY DEF Limits, JobRow, Row, ExecRow
<1>2. Limits \in Rows /\ JobRow \in Rows /\ \A i \in Items : Row(i) \in Rows
  BY DEF Rows
<1>3. \A i, j : Row(i) = Row(j) => i = j
  BY <1>1
<1>4. Limits # JobRow
  BY <1>1
<1>5. \A i : Row(i) # JobRow /\ Row(i) # Limits
  BY <1>1
<1>6. \A i, n : ExecRow(i, n) # JobRow /\ ExecRow(i, n) # Limits
  BY <1>1
<1>7. \A i, j, n : ExecRow(i, n) # Row(j)
  BY <1>1
<1> QED
  BY <1>2, <1>3, <1>4, <1>5, <1>6, <1>7

(* A view of the items is never the missing view: there is an item.         *)
LEMMA ViewsDiffer == NoView \notin [Items -> ItemStatuses]
<1>1. DOMAIN NoView = {}
  BY DEF NoView
<1>2. \A f \in [Items -> ItemStatuses] : DOMAIN f = Items
  OBVIOUS
<1> QED
  BY <1>1, <1>2, TextAssumption

(* A job with a running item is running.                                    *)
LEMMA RunningAggregate ==
    ASSUME NEW st, NEW i \in Items, st[i] = "running"
    PROVE  Aggregate(st) = "running"
<1> DEFINE kinds == {st[j] : j \in Items}
<1>1. "running" \in kinds
  OBVIOUS
<1>2. kinds # {"queued"} /\ kinds \cap {"queued", "running"} # {}
  BY <1>1
<1> QED
  BY <1>2 DEF Aggregate

(* The projection is always a status of a job.                              *)
LEMMA AggregateType == \A st : Aggregate(st) \in JobStatuses
  BY DEF Aggregate, JobStatuses, ItemStatuses

(* The number of the newest execution, when there is one, is a number of an *)
(* execution, and so is the next one below the bound.                       *)
LEMMA LatestType ==
    ASSUME NEW i
    PROVE  /\ Latest(i) \in Nat /\ Latest(i) <= MaxExecutions
           /\ Latest(i) # 0 => Latest(i) \in Executions
           /\ Latest(i) < MaxExecutions => Latest(i) + 1 \in Executions
<1> DEFINE made == {n \in Executions : execution[i][n] # "none"}
<1>1. IsFiniteSet(Executions) /\ Cardinality(Executions) = MaxExecutions
  BY FS_Interval, ExecutionsAssumption DEF Executions
<1>2. IsFiniteSet(made) /\ Cardinality(made) <= MaxExecutions
  BY <1>1, FS_Subset
<1>3. Cardinality(made) \in Nat
  BY <1>2, FS_CardinalityType
<1>4. Latest(i) \in Nat /\ Latest(i) <= MaxExecutions
  BY <1>2, <1>3, ExecutionsAssumption DEF Latest
<1> QED
  BY <1>4, ExecutionsAssumption DEF Executions

-----------------------------------------------------------------------------
(* What a step of a connection leaves alone: the rows others hold, and where *)
(* they stand.                                                              *)
Moves(c) ==
    /\ \A r \in Rows : lock'[r] = lock[r] \/ (lock[r] \in {Nobody, c} /\ lock'[r] \in {Nobody, c})
    /\ \A d \in Clients \ {c} : tx'[d] = tx[d] /\ view'[d] = view[d]

(* While it moves without writing an item, the others fit as before.        *)
LEMMA OthersFit ==
    ASSUME IInv, NEW c \in Clients, Moves(c), UNCHANGED status,
           NEW d \in Clients, d # c
    PROVE  Fits(d, tx'[d], view'[d], lock', status')
<1>1. Fits(d, tx[d], view[d], lock, status)
  BY DEF IInv, Fitting
<1>2. \A r \in Rows : lock'[r] = d <=> lock[r] = d
  BY NobodyAssumption DEF Moves
<1>3. \A i \in Items : lock'[Row(i)] = d <=> lock[Row(i)] = d
  BY <1>2, RowsDiffer
<1>4. lock'[JobRow] = d <=> lock[JobRow] = d
  BY <1>2, RowsDiffer
<1>5. tx'[d] = tx[d] /\ view'[d] = view[d]
  BY DEF Moves
<1> QED
  BY <1>1, <1>3, <1>4, <1>5 DEF Fits

(* A connection that moved and fits where it is now has kept the invariant. *)
LEMMA MoveKeeps ==
    ASSUME IInv, NEW c \in Clients, Moves(c), Typed', UNCHANGED <<status, job, writer>>,
           Fits(c, tx'[c], view'[c], lock', status')
    PROVE  IInv'
<1>1. \A d \in Clients : Fits(d, tx'[d], view'[d], lock', status')
  BY OthersFit
<1>2. QueueWritesExact'
  BY DEF IInv, QueueWritesExact, Aggregate
<1> QED
  BY <1>1, <1>2 DEF IInv, Fitting

(* A connection without a transaction holds nothing and fits.               *)
LEMMA NoTxFits ==
    ASSUME NEW c \in Clients, NEW l, NEW st,
           \A i \in Items : l[Row(i)] # c, l[JobRow] # c
    PROVE  Fits(c, NoTx, NoView, l, st)
  BY DEF Fits, OnPath, NoTx, HasItem, HasJob

(* A transaction that takes rows nobody holds and goes on touches no other. *)
LEMMA TakeMoves ==
    ASSUME IInv, NEW c \in Clients, NEW rs, \A r \in rs \cap Rows : Free(c, r), Take(c, rs),
           NEW t, tx' = [tx EXCEPT ![c] = t], NEW v, view' = [view EXCEPT ![c] = v]
    PROVE  /\ Moves(c) /\ tx'[c] = t /\ view'[c] = v
           /\ \A r \in Rows : lock'[r] = c <=> (lock[r] = c \/ r \in rs)
           /\ lock' \in [Rows -> Clients \cup {Nobody}]
  BY DEF IInv, Typed, TypeOK, Moves, Take, Free

TxType == [kind : Kinds, item : Items \cup {NoItem}, step : Steps,
           goal : ItemStatuses, n : Executions]

(* A connection without a transaction has a transaction's type.             *)
LEMMA NoTxType == NoTx \in TxType
<1>1. 1 \in Executions
  BY ExecutionsAssumption DEF Executions
<1> QED
  BY <1>1 DEF NoTx, TxType, Kinds, Steps, ItemStatuses

(* The types after a step of one connection.                                *)
LEMMA ConnectionTyped ==
    ASSUME IInv, NEW c \in Clients, lock' \in [Rows -> Clients \cup {Nobody}],
           NEW t \in TxType, tx' = [tx EXCEPT ![c] = t],
           NEW v \in Views, view' = [view EXCEPT ![c] = v],
           UNCHANGED <<status, job, writer, execution, asked>>
    PROVE  Typed'
<1>1. tx' \in [Clients -> TxType]
  BY DEF IInv, Typed, TypeOK, TxType
<1>2. view' \in [Clients -> Views]
  BY DEF IInv, Typed
<1>3. \A d \in Clients : view'[d] = NoView \/ view'[d] \in [Items -> ItemStatuses]
  BY <1>2 DEF Views
<1> QED
  BY <1>1, <1>2, <1>3 DEF IInv, Typed, TypeOK, TxType

(* The end of a transaction that has written no item.                       *)
LEMMA EndKeeps ==
    ASSUME IInv, NEW c \in Clients, Ends(c), UNCHANGED <<status, job, writer>>,
           asked' \subseteq TextItems,
           execution' \in [TextItems -> [Executions -> ExecutionStatuses]]
    PROVE  IInv'
<1>1. /\ lock \in [Rows -> Clients \cup {Nobody}]
      /\ tx \in [Clients -> TxType] /\ view \in [Clients -> Views]
  BY DEF IInv, Typed, TypeOK, TxType
<1>2. /\ lock' \in [Rows -> Clients \cup {Nobody}]
      /\ \A r \in Rows : lock'[r] # c /\ (lock[r] # c => lock'[r] = lock[r])
                        /\ (lock[r] = c => lock'[r] = Nobody)
  BY <1>1, NobodyAssumption DEF Ends
<1>3. tx' \in [Clients -> TxType] /\ tx'[c] = NoTx
  BY <1>1, NoTxType DEF Ends
<1>4. view' \in [Clients -> Views] /\ view'[c] = NoView
  BY <1>1 DEF Ends, Views
<1>5. \A d \in Clients \ {c} : tx'[d] = tx[d] /\ view'[d] = view[d]
  BY <1>1 DEF Ends
<1>6. Moves(c)
  BY <1>2, <1>5 DEF Moves
<1>7. \A d \in Clients : view'[d] = NoView \/ view'[d] \in [Items -> ItemStatuses]
  BY <1>4 DEF Views
<1>8. Typed'
  BY <1>2, <1>3, <1>4, <1>7 DEF IInv, Typed, TypeOK, TxType
<1>9. Fits(c, tx'[c], view'[c], lock', status')
  <2>1. lock'[JobRow] # c /\ \A i \in Items : lock'[Row(i)] # c
    BY <1>2, RowsDiffer
  <2> QED
    BY <1>3, <1>4, <2>1, NoTxFits
<1> QED
  BY <1>6, <1>8, <1>9, MoveKeeps

(* A step that takes rows and goes on.                                      *)
LEMMA StepKeeps ==
    ASSUME IInv, NEW c \in Clients, NEW rs, \A r \in rs \cap Rows : Free(c, r), Take(c, rs),
           NEW t \in TxType, tx' = [tx EXCEPT ![c] = t],
           NEW v \in Views, view' = [view EXCEPT ![c] = v],
           UNCHANGED <<status, job, writer, execution, asked>>,
           OnPath(t),
           \A i \in Items : (lock[Row(i)] = c \/ Row(i) \in rs) <=> (HasItem(t) /\ t.item = i),
           (lock[JobRow] = c \/ JobRow \in rs) <=> HasJob(t),
           t.step \in {"job", "count", "commit"} => status[t.item] \in Before(t.kind),
           t.kind \notin {"lease", "finalize"} => v = NoView,
           t.step # "commit"
    PROVE  IInv'
<1>1. /\ Moves(c) /\ tx'[c] = t /\ view'[c] = v
      /\ \A r \in Rows : lock'[r] = c <=> (lock[r] = c \/ r \in rs)
      /\ lock' \in [Rows -> Clients \cup {Nobody}]
  BY TakeMoves
<1>2. Typed'
  BY <1>1, ConnectionTyped
<1>3. /\ \A i \in Items : lock'[Row(i)] = c <=> (HasItem(t) /\ t.item = i)
      /\ lock'[JobRow] = c <=> HasJob(t)
  BY <1>1, RowsDiffer
<1>4. Fits(c, tx'[c], view'[c], lock', status')
  BY <1>1, <1>3 DEF Fits
<1> QED
  BY <1>1, <1>2, <1>4, MoveKeeps

(* A step that takes nothing.                                               *)
LEMMA NothingTaken ==
    ASSUME IInv, NEW c \in Clients, UNCHANGED lock
    PROVE  Take(c, {})
  BY DEF IInv, Typed, TypeOK, Take
-----------------------------------------------------------------------------
(* The operations, one by one. *)

(* Where a connection stands before a step. *)
LEMMA Stands ==
    ASSUME IInv, NEW c \in Clients
    PROVE  /\ Fits(c, tx[c], view[c], lock, status)
           /\ tx[c] \in TxType /\ view[c] \in Views
           /\ tx \in [Clients -> TxType] /\ view \in [Clients -> Views]
           /\ view = [view EXCEPT ![c] = view[c]]
  BY DEF IInv, Fitting, Typed, TypeOK, TxType

(* A transaction that takes its item and goes on.                           *)
LEMMA ItemTakenKeeps ==
    ASSUME IInv, NEW c \in Clients, NEW t \in TxType, t.item \in Items,
           Free(c, Row(t.item)), Take(c, {Row(t.item)}), tx' = [tx EXCEPT ![c] = t],
           UNCHANGED <<status, job, writer, execution, asked, view>>,
           OnPath(t), HasItem(t), \A i \in Items : lock[Row(i)] # c,
           lock[JobRow] = c <=> HasJob(t),
           t.step \in {"job", "count"} => status[t.item] \in Before(t.kind),
           t.kind \notin {"lease", "finalize"} => view[c] = NoView,
           t.step # "commit"
    PROVE  IInv'
<1>1. view[c] \in Views /\ view' = [view EXCEPT ![c] = view[c]]
  BY Stands
<1>2. /\ Moves(c) /\ tx'[c] = t /\ view'[c] = view[c]
      /\ \A r \in Rows : lock'[r] = c <=> (lock[r] = c \/ r \in {Row(t.item)})
      /\ lock' \in [Rows -> Clients \cup {Nobody}]
  BY <1>1 DEF IInv, Typed, TypeOK, Moves, Take, Free
<1>3. Typed'
  BY <1>1, <1>2, ConnectionTyped
<1>4. /\ \A i \in Items : lock'[Row(i)] = c <=> (HasItem(t) /\ t.item = i)
      /\ lock'[JobRow] = c <=> HasJob(t)
  BY <1>2, RowsDiffer
<1>5. Fits(c, tx'[c], view'[c], lock', status')
  BY <1>2, <1>4 DEF Fits
<1> QED
  BY <1>2, <1>3, <1>5, MoveKeeps

(* A connection that begins holds neither items nor the job.                *)
LEMMA IdleHoldsNothing ==
    ASSUME IInv, NEW c \in Clients, Idle(c)
    PROVE  /\ tx[c] = NoTx /\ view[c] = NoView
           /\ lock[JobRow] # c /\ \A i \in Items : lock[Row(i)] # c
  BY Stands DEF Idle, Fits, NoTx, HasItem, HasJob

(* LeaseNext fixes its view under the limits row.                           *)
LEMMA LeaseBeginKeeps == ASSUME IInv, NEW c \in Clients, LeaseBegin(c) PROVE IInv'
<1> DEFINE t == [NoTx EXCEPT !.kind = "lease", !.step = "select"]
<1>1. t \in TxType /\ t.kind = "lease" /\ t.step = "select"
  BY NoTxType DEF TxType, Kinds, Steps, NoTx
<1>2. OnPath(t) /\ ~HasItem(t) /\ ~HasJob(t)
  BY <1>1 DEF OnPath, HasItem, HasJob
<1>3. status \in Views
  BY DEF IInv, Typed, TypeOK, Views
<1>4. /\ lock[JobRow] # c /\ JobRow \notin {Limits}
      /\ \A i \in Items : lock[Row(i)] # c /\ Row(i) \notin {Limits}
  BY IdleHoldsNothing, RowsDiffer DEF LeaseBegin
<1>5. /\ \A r \in {Limits} \cap Rows : Free(c, r)
      /\ Take(c, {Limits}) /\ tx' = [tx EXCEPT ![c] = t] /\ view' = [view EXCEPT ![c] = status]
      /\ UNCHANGED <<status, job, writer, execution, asked>>
  BY DEF LeaseBegin
<1> HIDE DEF t
<1> QED
  BY <1>1, <1>2, <1>3, <1>4, <1>5, StepKeeps

(* LeaseNext takes an item that nobody else holds.                          *)
LEMMA LeaseSelectKeeps ==
    ASSUME IInv, NEW c \in Clients, NEW i \in Items, LeaseSelect(c, i) PROVE IInv'
<1> DEFINE t == [tx[c] EXCEPT !.step = "job", !.item = i, !.goal = "running"]
<1>0. /\ Fits(c, tx[c], view[c], lock, status) /\ tx[c] \in TxType /\ view[c] \in Views
      /\ tx \in [Clients -> TxType] /\ view = [view EXCEPT ![c] = view[c]]
  BY Stands
<1>1. /\ t \in TxType /\ t.kind = "lease" /\ t.step = "job" /\ t.item = i
      /\ t.goal = "running"
  BY <1>0 DEF TxType, Kinds, Steps, ItemStatuses, LeaseSelect, In
<1>2. OnPath(t) /\ HasItem(t) /\ ~HasJob(t)
  BY <1>1 DEF OnPath, HasItem, HasJob
<1>3. ~HasItem(tx[c]) /\ ~HasJob(tx[c])
  BY DEF LeaseSelect, In, HasItem, HasJob
<1>4. /\ lock[JobRow] # c /\ JobRow \notin {Row(i)}
      /\ \A j \in Items : lock[Row(j)] # c /\ (Row(j) \in {Row(i)} <=> j = i)
  BY <1>0, <1>3, RowsDiffer DEF Fits
<1>5. /\ Free(c, Row(i)) /\ Take(c, {Row(i)})
      /\ UNCHANGED <<status, job, writer, execution, asked, view>>
      /\ status[i] \in Before("lease")
  BY DEF LeaseSelect, Free, Before
<1>6. tx' = [tx EXCEPT ![c] = t]
  BY <1>0 DEF LeaseSelect, TxType
<1> HIDE DEF t
<1> QED
  BY <1>1, <1>2, <1>4, <1>5, <1>6, ItemTakenKeeps

(* finish begins, with or without a look at the executions.                 *)
LEMMA FinishBeginKeeps ==
    ASSUME IInv, NEW c \in Clients, NEW i \in Items, FinishCompleted(c, i) \/ FinishFailed(c, i)
    PROVE  IInv'
<1>0. PICK goal \in {"completed", "failed"} :
        tx' = [tx EXCEPT ![c] = [NoTx EXCEPT !.kind = "finish", !.item = i,
                                             !.step = "item", !.goal = goal]]
  BY DEF FinishCompleted, FinishFailed
<1> DEFINE t == [NoTx EXCEPT !.kind = "finish", !.item = i, !.step = "item", !.goal = goal]
           rs == IF FinishCompleted(c, i) THEN {}
                 ELSE IF i \in TextItems THEN ExecRows(i) ELSE {}
<1>1. /\ t \in TxType /\ t.kind = "finish" /\ t.step = "item" /\ t.item = i /\ t.goal = goal
  BY NoTxType DEF TxType, Kinds, Steps, ItemStatuses, NoTx
<1>2. OnPath(t) /\ ~HasItem(t) /\ ~HasJob(t)
  BY <1>1 DEF OnPath, HasItem, HasJob
<1>3. Idle(c) /\ UNCHANGED <<status, job, writer, execution, asked>> /\ UNCHANGED view
  BY DEF FinishCompleted, FinishFailed
<1>4. Take(c, rs) /\ \A r \in rs \cap Rows : Free(c, r)
  <2>1. CASE FinishCompleted(c, i)
    BY <2>1, NothingTaken DEF FinishCompleted
  <2>2. CASE ~FinishCompleted(c, i)
    BY <2>2 DEF FinishFailed
  <2> QED
    BY <2>1, <2>2
<1>5. rs \subseteq ExecRows(i)
  OBVIOUS
<1>6. JobRow \notin rs /\ \A j \in Items : Row(j) \notin rs
  BY <1>5, RowsDiffer DEF ExecRows
<1>7. /\ lock[JobRow] # c /\ \A j \in Items : lock[Row(j)] # c
      /\ view[c] = NoView /\ view' = [view EXCEPT ![c] = NoView]
  BY <1>3, IdleHoldsNothing, Stands
<1>8. tx' = [tx EXCEPT ![c] = t] /\ NoView \in Views
  BY <1>0 DEF Views
<1> HIDE DEF t, rs
<1>9. /\ \A j \in Items : (lock[Row(j)] = c \/ Row(j) \in rs) <=> (HasItem(t) /\ t.item = j)
      /\ (lock[JobRow] = c \/ JobRow \in rs) <=> HasJob(t)
  BY <1>2, <1>6, <1>7
<1>10. /\ t.step \notin {"job", "count", "commit"} 
       /\ t.step # "commit"
  BY <1>1
<1> QED
  BY <1>1, <1>2, <1>3, <1>4, <1>7, <1>8, <1>9, <1>10, StepKeeps

(* regenerate takes the job before its item.                                *)
LEMMA RegenerateBeginKeeps ==
    ASSUME IInv, NEW c \in Clients, NEW i \in Items, RegenerateBegin(c, i) PROVE IInv'
<1> DEFINE t == [NoTx EXCEPT !.kind = "regenerate", !.item = i, !.step = "item",
                             !.goal = "queued"]
<1>1. /\ t \in TxType /\ t.kind = "regenerate" /\ t.step = "item" /\ t.item = i
      /\ t.goal = "queued"
  BY NoTxType DEF TxType, Kinds, Steps, ItemStatuses, NoTx
<1>2. OnPath(t) /\ ~HasItem(t) /\ HasJob(t)
  BY <1>1 DEF OnPath, HasItem, HasJob
<1>3. /\ \A j \in Items : lock[Row(j)] # c /\ Row(j) \notin {JobRow}
      /\ view[c] = NoView /\ view' = [view EXCEPT ![c] = NoView] /\ NoView \in Views
  BY IdleHoldsNothing, Stands, RowsDiffer DEF RegenerateBegin, Views
<1>4. /\ \A r \in {JobRow} \cap Rows : Free(c, r)
      /\ Take(c, {JobRow}) /\ tx' = [tx EXCEPT ![c] = t]
      /\ UNCHANGED <<status, job, writer, execution, asked>>
  BY DEF RegenerateBegin
<1> HIDE DEF t
<1>5. /\ t.step \notin {"job", "count", "commit"}
      /\ t.step # "commit"
  BY <1>1
<1> QED
  BY <1>1, <1>2, <1>3, <1>4, <1>5, StepKeeps

(* prepare and dispatch take a running item on the way to an execution.     *)
LEMMA TextItemKeeps ==
    ASSUME IInv, NEW c \in Clients, NEW i \in TextItems, PrepareItem(c, i) \/ DispatchItem(c, i)
    PROVE  IInv'
<1>1. PICK kind \in {"prepare", "dispatch"}, n \in Executions :
        tx' = [tx EXCEPT ![c] = [NoTx EXCEPT !.kind = kind, !.item = i,
                                             !.step = "execution", !.n = n]]
  <2>1. CASE PrepareItem(c, i)
    <3>1. Latest(i) + 1 \in Executions
      BY <2>1, LatestType DEF PrepareItem
    <3> QED
      BY <2>1, <3>1 DEF PrepareItem
  <2>2. CASE DispatchItem(c, i)
    <3>1. Latest(i) \in Executions
      BY <2>2, LatestType DEF DispatchItem, LatestStatus
    <3> QED
      BY <2>2, <3>1 DEF DispatchItem
  <2> QED
    BY <2>1, <2>2
<1> DEFINE t == [NoTx EXCEPT !.kind = kind, !.item = i, !.step = "execution", !.n = n]
<1>2. t \in TxType /\ t.kind = kind /\ t.step = "execution" /\ t.item = i /\ i \in Items
  BY TextAssumption, NoTxType DEF TxType, Kinds, Steps, ItemStatuses, NoTx
<1>3. OnPath(t) /\ HasItem(t) /\ ~HasJob(t)
  BY <1>2 DEF OnPath, HasItem, HasJob
<1>4. lock[JobRow] # c /\ (\A j \in Items : lock[Row(j)] # c) /\ view[c] = NoView
  BY IdleHoldsNothing DEF PrepareItem, DispatchItem
<1>5. /\ Free(c, Row(i)) /\ Take(c, {Row(i)}) /\ tx' = [tx EXCEPT ![c] = t]
      /\ UNCHANGED <<status, job, writer, execution, asked, view>>
  BY <1>1 DEF PrepareItem, DispatchItem, Free
<1>6. t.item \in Items /\ t.step \notin {"job", "count", "commit"}
  BY <1>2
<1> HIDE DEF t
<1> QED
  BY <1>2, <1>3, <1>4, <1>5, <1>6, ItemTakenKeeps

(* CreateTurn begins with the item, or with the job.                        *)
LEMMA TurnBeginKeeps ==
    ASSUME IInv, NEW c \in Clients, NEW i \in Items, TurnBegin(c, i) PROVE IInv'
<1>1. PICK first \in {"item", "job"} :
        LET row == IF first = "item" THEN Row(i) ELSE JobRow
        IN  /\ Free(c, row)
            /\ Take(c, {row})
            /\ tx' = [tx EXCEPT ![c] =
                   [NoTx EXCEPT !.kind = "turn", !.item = i, !.goal = "queued",
                                !.step = IF first = "item" THEN "job" ELSE "item"]]
  BY DEF TurnBegin
<1> DEFINE step == IF first = "item" THEN "job" ELSE "item"
           t == [NoTx EXCEPT !.kind = "turn", !.item = i, !.goal = "queued", !.step = step]
<1>2. /\ t \in TxType /\ t.kind = "turn" /\ t.item = i /\ t.goal = "queued" /\ t.step = step
      /\ step \in {"item", "job"}
  BY NoTxType DEF TxType, Kinds, Steps, ItemStatuses, NoTx
<1>3. OnPath(t) /\ (HasItem(t) <=> first = "item") /\ (HasJob(t) <=> first = "job")
  BY <1>2 DEF OnPath, HasItem, HasJob
<1>4. /\ lock[JobRow] # c /\ (\A j \in Items : lock[Row(j)] # c)
      /\ view[c] = NoView /\ view' = [view EXCEPT ![c] = NoView] /\ NoView \in Views
      /\ UNCHANGED <<status, job, writer, execution, asked>> /\ UNCHANGED view
  BY IdleHoldsNothing, Stands DEF TurnBegin, Views
<1>5. status[i] \in Before("turn")
  BY DEF IInv, Typed, TypeOK, Before
<1>6. tx' = [tx EXCEPT ![c] = t]
  BY <1>1
<1>7. CASE first = "item"
  <2>1. Free(c, Row(t.item)) /\ Take(c, {Row(t.item)}) /\ t.step = "job"
    BY <1>1, <1>2, <1>7
  <2> HIDE DEF t, step
  <2> QED
    BY <1>2, <1>3, <1>4, <1>5, <1>6, <1>7, <2>1, ItemTakenKeeps
<1>8. CASE first = "job"
  <2>1. (\A r \in {JobRow} \cap Rows : Free(c, r)) /\ Take(c, {JobRow}) /\ t.step = "item"
    BY <1>1, <1>2, <1>8
  <2>2. /\ \A j \in Items : (lock[Row(j)] = c \/ Row(j) \in {JobRow})
                               <=> (HasItem(t) /\ t.item = j)
        /\ (lock[JobRow] = c \/ JobRow \in {JobRow}) <=> HasJob(t)
    BY <1>3, <1>4, <1>8, RowsDiffer
  <2> HIDE DEF t, step
  <2> QED
    BY <1>2, <1>3, <1>4, <1>6, <2>1, <2>2, StepKeeps
<1> QED
  BY <1>7, <1>8

(* finalize takes the execution and fixes its view.                         *)
LEMMA FinalizeBeginKeeps ==
    ASSUME IInv, NEW c \in Clients, NEW i \in TextItems, NEW n \in Executions,
           FinalizeBegin(c, i, n)
    PROVE  IInv'
<1> DEFINE t == [NoTx EXCEPT !.kind = "finalize", !.item = i, !.step = "item",
                             !.goal = "completed", !.n = n]
<1>1. /\ t \in TxType /\ t.kind = "finalize" /\ t.step = "item" /\ t.item = i
      /\ t.goal = "completed"
  BY TextAssumption, NoTxType DEF TxType, Kinds, Steps, ItemStatuses, NoTx
<1>2. OnPath(t) /\ ~HasItem(t) /\ ~HasJob(t)
  BY <1>1 DEF OnPath, HasItem, HasJob
<1>3. status \in Views
  BY DEF IInv, Typed, TypeOK, Views
<1>4. /\ lock[JobRow] # c /\ JobRow \notin {ExecRow(i, n)}
      /\ \A j \in Items : lock[Row(j)] # c /\ Row(j) \notin {ExecRow(i, n)}
  BY IdleHoldsNothing, RowsDiffer DEF FinalizeBegin
<1>5. /\ \A r \in {ExecRow(i, n)} \cap Rows : Free(c, r)
      /\ Take(c, {ExecRow(i, n)}) /\ tx' = [tx EXCEPT ![c] = t]
      /\ view' = [view EXCEPT ![c] = status]
      /\ UNCHANGED <<status, job, writer, execution, asked>>
  BY DEF FinalizeBegin
<1> HIDE DEF t
<1> QED
  BY <1>1, <1>2, <1>3, <1>4, <1>5, StepKeeps

(* A transaction that goes on to another statement stays what it is.        *)
LEMMA GoesOn ==
    ASSUME IInv, NEW c \in Clients, NEW s \in Steps, Goes(c, s)
    PROVE  \E t \in TxType : /\ tx' = [tx EXCEPT ![c] = t] /\ t.step = s
                             /\ t.kind = tx[c].kind /\ t.item = tx[c].item
                             /\ t.goal = tx[c].goal
<1>1. tx[c] \in TxType /\ tx \in [Clients -> TxType]
  BY Stands
<1> DEFINE t == [tx[c] EXCEPT !.step = s]
<1>2. /\ t \in TxType /\ t.step = s /\ t.kind = tx[c].kind /\ t.item = tx[c].item
      /\ t.goal = tx[c].goal
  BY <1>1 DEF TxType
<1>3. tx' = [tx EXCEPT ![c] = t]
  BY <1>1 DEF Goes
<1> QED
  BY <1>2, <1>3

(* The item is locked: finish finds it running, regenerate failed, and      *)
(* finalize promotes it only if it is failed now.                           *)
LEMMA ItemKeeps ==
    ASSUME IInv, NEW c \in Clients, NEW s \in Steps,
           tx[c].step = "item", Free(c, Row(tx[c].item)), Take(c, {Row(tx[c].item)}), Goes(c, s),
           UNCHANGED <<status, job, writer, execution, asked, view>>,
           \/ tx[c].kind = "finish" /\ s = "job" /\ status[tx[c].item] = "running"
           \/ tx[c].kind = "regenerate" /\ s = "count" /\ status[tx[c].item] = "failed"
           \/ tx[c].kind = "finalize" /\ s = "job" /\ status[tx[c].item] = "failed"
           \/ tx[c].kind = "finalize" /\ s = "close"
    PROVE  IInv'
<1>1. /\ Fits(c, tx[c], view[c], lock, status) /\ tx[c] \in TxType /\ view[c] \in Views
      /\ view' = [view EXCEPT ![c] = view[c]]
  BY Stands
<1>2. PICK t \in TxType : /\ tx' = [tx EXCEPT ![c] = t] /\ t.step = s
                          /\ t.kind = tx[c].kind /\ t.item = tx[c].item /\ t.goal = tx[c].goal
  BY GoesOn
<1>3. OnPath(tx[c]) /\ tx[c].kind # "none" /\ tx[c].item \in Items
  BY <1>1, TextAssumption DEF Fits, OnPath, NoTx
<1>4. OnPath(t) /\ HasItem(t) /\ ~HasItem(tx[c])
  BY <1>2, <1>3 DEF OnPath, HasItem, NoTx
<1>5. HasJob(t) <=> HasJob(tx[c])
  BY <1>2 DEF HasJob
<1>6. (\A i \in Items : lock[Row(i)] # c) /\ (lock[JobRow] = c <=> HasJob(t))
  BY <1>1, <1>4, <1>5 DEF Fits
<1>7. /\ t.step \in {"job", "count"} => status[t.item] \in Before(t.kind)
      /\ t.kind \notin {"lease", "finalize"} => view[c] = NoView
      /\ t.step # "commit"
  BY <1>1, <1>2 DEF Fits, Before
<1> QED
  BY <1>2, <1>3, <1>4, <1>6, <1>7, ItemTakenKeeps

(* The job row is locked for the count.                                     *)
LEMMA LockJobKeeps == ASSUME IInv, NEW c \in Clients, LockJob(c) PROVE IInv'
<1>1. /\ Fits(c, tx[c], view[c], lock, status) /\ tx[c] \in TxType /\ view[c] \in Views
      /\ view' = [view EXCEPT ![c] = view[c]]
  BY Stands DEF LockJob
<1>2. PICK t \in TxType : /\ tx' = [tx EXCEPT ![c] = t] /\ t.step = "count"
                          /\ t.kind = tx[c].kind /\ t.item = tx[c].item /\ t.goal = tx[c].goal
  BY GoesOn DEF LockJob, Steps
<1>3. tx[c].step = "job" /\ tx[c].kind # "turn" /\ OnPath(tx[c])
  BY <1>1 DEF Fits, LockJob
<1>4. OnPath(t) /\ HasItem(t) /\ HasItem(tx[c]) /\ HasJob(t)
  BY <1>2, <1>3 DEF OnPath, HasItem, HasJob, NoTx
<1>5. /\ \A i \in Items : (lock[Row(i)] = c \/ Row(i) \in {JobRow}) <=> i = t.item
      /\ JobRow \in {JobRow}
  BY <1>1, <1>2, <1>4, RowsDiffer DEF Fits
<1>6. /\ t.step \in {"job", "count", "commit"} => status[t.item] \in Before(t.kind)
      /\ t.kind \notin {"lease", "finalize"} => view[c] = NoView
      /\ t.step # "commit"
  BY <1>1, <1>2, <1>3 DEF Fits
<1>7. /\ Free(c, JobRow) /\ Take(c, {JobRow}) /\ tx' = [tx EXCEPT ![c] = t]
      /\ UNCHANGED <<status, job, writer, execution, asked, view>>
  BY <1>2 DEF LockJob
<1>8. /\ Moves(c) /\ tx'[c] = t /\ view'[c] = view[c]
      /\ \A r \in Rows : lock'[r] = c <=> (lock[r] = c \/ r \in {JobRow})
      /\ lock' \in [Rows -> Clients \cup {Nobody}]
  BY <1>1, <1>7 DEF IInv, Typed, TypeOK, Moves, Take, Free
<1>9. Typed'
  BY <1>1, <1>7, <1>8, ConnectionTyped
<1>10. /\ \A i \in Items : lock'[Row(i)] = c <=> (HasItem(t) /\ t.item = i)
       /\ lock'[JobRow] = c <=> HasJob(t)
  BY <1>4, <1>5, <1>8, RowsDiffer
<1>11. Fits(c, tx'[c], view'[c], lock', status')
  BY <1>4, <1>6, <1>7, <1>8, <1>10 DEF Fits
<1> QED
  BY <1>7, <1>8, <1>9, <1>11, MoveKeeps

(* The count reads the newest statuses, if the transaction has no view yet. *)
LEMMA CountKeeps == ASSUME IInv, NEW c \in Clients, Count(c) PROVE IInv'
<1>1. /\ Fits(c, tx[c], view[c], lock, status) /\ tx[c] \in TxType /\ view[c] \in Views
  BY Stands
<1>2. PICK t \in TxType : /\ tx' = [tx EXCEPT ![c] = t] /\ t.step = "commit"
                          /\ t.kind = tx[c].kind /\ t.item = tx[c].item /\ t.goal = tx[c].goal
  BY GoesOn DEF Count, Steps
<1>3. tx[c].step = "count" /\ OnPath(tx[c])
  BY <1>1 DEF Fits, Count
<1>4. OnPath(t) /\ HasItem(t) /\ HasItem(tx[c]) /\ HasJob(t) /\ HasJob(tx[c])
  BY <1>2, <1>3 DEF OnPath, HasItem, HasJob, NoTx
<1>5. /\ \A i \in Items : lock[Row(i)] = c <=> i = t.item
      /\ lock[JobRow] = c
  BY <1>1, <1>2, <1>4, RowsDiffer DEF Fits
<1>6. /\ t.step \in {"job", "count", "commit"} => status[t.item] \in Before(t.kind)
      /\ t.kind \notin {"lease", "finalize"} =>
             CountView(c) = IF t.step = "commit" THEN status ELSE NoView
  BY <1>1, <1>2, <1>3 DEF Fits, CountView
<1>7. CountView(c) \in Views /\ CountView(c) \in [Items -> ItemStatuses]
  BY <1>1 DEF CountView, Views, IInv, Typed, TypeOK
<1>8. UNCHANGED <<status, job, writer, execution, asked, lock>>
  BY DEF Count
<1>9. view' = [view EXCEPT ![c] = CountView(c)] /\ tx' = [tx EXCEPT ![c] = t]
  BY <1>2 DEF Count
<1>10. /\ lock' \in [Rows -> Clients \cup {Nobody}]
       /\ view \in [Clients -> Views] /\ tx \in [Clients -> TxType]
  BY <1>8, Stands DEF IInv, Typed, TypeOK
<1>11. tx'[c] = t /\ view'[c] = CountView(c) /\ Moves(c)
  BY <1>8, <1>9, <1>10 DEF Moves
<1>12. Typed'
  BY <1>7, <1>8, <1>9, <1>10, ConnectionTyped
<1>13. Fits(c, tx'[c], view'[c], lock', status')
  BY <1>4, <1>5, <1>6, <1>7, <1>8, <1>11 DEF Fits
<1> QED
  BY <1>8, <1>11, <1>12, <1>13, MoveKeeps

(* The executions keep their type when one of them changes.                 *)
LEMMA ExecutionTyped ==
    ASSUME IInv, NEW i \in TextItems, NEW n \in Executions, NEW e \in ExecutionStatuses
    PROVE  /\ execution \in [TextItems -> [Executions -> ExecutionStatuses]]
           /\ [execution EXCEPT ![i][n] = e]
                  \in [TextItems -> [Executions -> ExecutionStatuses]]
<1>1. execution \in [TextItems -> [Executions -> ExecutionStatuses]]
  BY DEF IInv, Typed, TypeOK
<1>2. [execution[i] EXCEPT ![n] = e] \in [Executions -> ExecutionStatuses]
  BY <1>1
<1> QED
  BY <1>1, <1>2

(* The ends of transactions that have written no item.                      *)
LEMMA LeavingKeeps ==
    ASSUME IInv, NEW c \in Clients,
           \/ LeaseNone(c) \/ PrepareInsert(c) \/ DispatchExecution(c) \/ FinalizeClose(c)
           \/ DeadlockVictim(c)
    PROVE  IInv'
<1> USE DEF LeaseNone, PrepareInsert, DispatchExecution, FinalizeClose, DeadlockVictim
<1>1. OnPath(tx[c]) /\ tx[c].n \in Executions
  BY Stands DEF Fits, TxType
<1>2. Ends(c) /\ UNCHANGED <<status, job, writer>> /\ asked' \subseteq TextItems
  BY DEF IInv, Typed, TypeOK
<1>3. CASE UNCHANGED execution
  BY <1>2, <1>3, EndKeeps DEF IInv, Typed, TypeOK
<1>4. CASE execution' # execution
  <2>1. \E e \in ExecutionStatuses :
            execution' = [execution EXCEPT ![tx[c].item][tx[c].n] = e]
    BY <1>4 DEF ExecutionStatuses
  <2>2. tx[c].item \in TextItems
    BY <1>1, <1>4 DEF OnPath, In, NoTx
  <2>3. execution' \in [TextItems -> [Executions -> ExecutionStatuses]]
    BY <1>1, <2>1, <2>2, ExecutionTyped
  <2> QED
    BY <1>2, <2>3, EndKeeps
<1> QED
  BY <1>3, <1>4

(* finish, regenerate and finalize at their item.                           *)
LEMMA ItemStepKeeps ==
    ASSUME IInv, NEW c \in Clients, FinishItem(c) \/ RegenerateItem(c) \/ FinalizeItem(c)
    PROVE  IInv'
<1>1. tx[c].step = "item" /\ Free(c, Row(tx[c].item))
      /\ UNCHANGED <<status, job, writer, execution, asked>>
  BY DEF FinishItem, RegenerateItem, FinalizeItem, In
<1>2. CASE Ends(c)
  BY <1>1, <1>2, EndKeeps DEF IInv, Typed, TypeOK
<1>3. CASE FinishItem(c) /\ ~Ends(c)
  BY <1>1, <1>3, ItemKeeps DEF FinishItem, In, Steps
<1>4. CASE RegenerateItem(c) /\ ~Ends(c)
  BY <1>1, <1>4, ItemKeeps DEF RegenerateItem, In, Steps
<1>5. CASE FinalizeItem(c)
  <2>1. CASE Promotes(c)
    BY <1>1, <1>5, <2>1, ItemKeeps DEF FinalizeItem, In, Steps, Promotes
  <2>2. CASE ~Promotes(c)
    BY <1>1, <1>5, <2>2, ItemKeeps DEF FinalizeItem, In, Steps
  <2> QED
    BY <2>1, <2>2
<1> QED
  BY <1>2, <1>3, <1>4, <1>5

(* What the provider reports touches an execution and no transaction.       *)
LEMMA ExecutionStepKeeps ==
    ASSUME IInv, NEW i \in TextItems, NEW n \in Executions, MarkFailure(i, n) \/ Capture(i, n)
    PROVE  IInv'
<1>1. UNCHANGED <<status, job, writer, asked, lock, tx, view>>
  BY DEF MarkFailure, Capture
<1>2. PICK e \in ExecutionStatuses : execution' = [execution EXCEPT ![i][n] = e]
  BY DEF MarkFailure, Capture, ExecutionStatuses
<1>3. Typed'
  BY <1>1, <1>2, ExecutionTyped DEF IInv, Typed, TypeOK
<1>4. Fitting'
  BY <1>1 DEF IInv, Fitting, Fits
<1>5. QueueWritesExact'
  BY <1>1 DEF IInv, QueueWritesExact, Aggregate
<1> QED
  BY <1>3, <1>4, <1>5 DEF IInv

(* A transaction ends and writes an item that nobody else holds, while       *)
(* nobody else holds the job: the others fit as before.                      *)
LEMMA WriteFits ==
    ASSUME IInv, NEW c \in Clients, Ends(c), NEW i \in Items,
           Free(c, Row(i)), Free(c, JobRow),
           NEW s \in ItemStatuses, status' = [status EXCEPT ![i] = s]
    PROVE  /\ Fitting'
           /\ status' \in [Items -> ItemStatuses]
           /\ lock' \in [Rows -> Clients \cup {Nobody}]
           /\ tx' \in [Clients -> TxType] /\ view' \in [Clients -> Views]
           /\ \A d \in Clients : view'[d] = NoView \/ view'[d] \in [Items -> ItemStatuses]
<1>1. /\ tx \in [Clients -> TxType] /\ view \in [Clients -> Views]
      /\ status \in [Items -> ItemStatuses] /\ lock \in [Rows -> Clients \cup {Nobody}]
  BY Stands DEF IInv, Typed, TypeOK
<1>2. /\ lock' = [r \in Rows |-> IF lock[r] = c THEN Nobody ELSE lock[r]]
      /\ tx' = [tx EXCEPT ![c] = NoTx] /\ view' = [view EXCEPT ![c] = NoView]
  BY DEF Ends
<1>3. Fitting'
  <2> SUFFICES ASSUME NEW d \in Clients
               PROVE  Fits(d, tx'[d], view'[d], lock', status')
    BY DEF Fitting
  <2>1. CASE d = c
    <3>1. tx'[c] = NoTx /\ view'[c] = NoView
      BY <1>1, <1>2
    <3>2. lock'[JobRow] # c /\ \A j \in Items : lock'[Row(j)] # c
      BY <1>2, RowsDiffer, NobodyAssumption
    <3> QED
      BY <2>1, <3>1, <3>2, NoTxFits
  <2>2. CASE d # c
    <3>1. Fits(d, tx[d], view[d], lock, status) /\ tx'[d] = tx[d] /\ view'[d] = view[d]
      BY <1>1, <1>2, <2>2, Stands
    <3>2. /\ lock'[JobRow] = d <=> lock[JobRow] = d
          /\ \A j \in Items : lock'[Row(j)] = d <=> lock[Row(j)] = d
      BY <1>2, <2>2, RowsDiffer, NobodyAssumption
    <3>3. ~HasJob(tx[d]) /\ tx[d].step # "commit"
      BY <2>2, <3>1, NobodyAssumption DEF Fits, HasJob, Free
    <3>4. tx[d].step \in {"job", "count", "commit"} => status'[tx[d].item] = status[tx[d].item]
      <4> SUFFICES ASSUME tx[d].step \in {"job", "count", "commit"}
                   PROVE  status'[tx[d].item] = status[tx[d].item]
        OBVIOUS
      <4>1. tx[d].item \in Items /\ HasItem(tx[d])
        BY <3>1, TextAssumption DEF Fits, OnPath, HasItem, NoTx
      <4>2. lock[Row(tx[d].item)] = d
        BY <3>1, <4>1 DEF Fits
      <4> QED
        BY <1>1, <2>2, <4>1, <4>2, NobodyAssumption DEF Free
    <3> QED
      BY <3>1, <3>2, <3>3, <3>4 DEF Fits
  <2> QED
    BY <2>1, <2>2
<1>4. lock' \in [Rows -> Clients \cup {Nobody}]
  BY <1>1, <1>2
<1>5. tx' \in [Clients -> TxType] /\ view' \in [Clients -> Views]
  BY <1>1, <1>2, NoTxType DEF Views
<1>6. \A d \in Clients : view'[d] = NoView \/ view'[d] \in [Items -> ItemStatuses]
  BY <1>5 DEF Views
<1> QED
  BY <1>1, <1>3, <1>4, <1>5, <1>6

(* A commit: the item is what the transaction has found under its lock, and *)
(* the job says what the items now say unless finalize wrote it.  Nobody    *)
(* else holds the item or is about to write the job.                        *)
LEMMA CommitKeeps == ASSUME IInv, NEW c \in Clients, Commit(c) PROVE IInv'
<1> DEFINE i == tx[c].item
<1>1. /\ Fits(c, tx[c], view[c], lock, status) /\ tx[c] \in TxType /\ view[c] \in Views
      /\ tx \in [Clients -> TxType] /\ view \in [Clients -> Views]
  BY Stands
<1>2. /\ tx[c].step = "commit" /\ i \in Items /\ tx[c].goal \in ItemStatuses
      /\ tx[c].kind \in {"lease", "finish", "regenerate", "finalize"}
      /\ tx[c].kind = "finalize" => i \in TextItems
      /\ tx[c].kind = "lease" => tx[c].goal = "running"
      /\ tx[c].n \in Executions
  BY <1>1, TextAssumption DEF Commit, Fits, OnPath, TxType, NoTx
<1>3. lock[Row(i)] = c /\ lock[JobRow] = c
  BY <1>1, <1>2 DEF Fits, HasItem, HasJob
<1>4. status \in [Items -> ItemStatuses] /\ status' = [status EXCEPT ![i] = tx[c].goal]
  BY DEF IInv, Typed, TypeOK, Commit
<1>5. /\ Fitting'
      /\ status' \in [Items -> ItemStatuses]
      /\ lock' \in [Rows -> Clients \cup {Nobody}]
      /\ tx' \in [Clients -> TxType] /\ view' \in [Clients -> Views]
      /\ \A d \in Clients : view'[d] = NoView \/ view'[d] \in [Items -> ItemStatuses]
  BY <1>2, <1>3, <1>4, WriteFits DEF Commit, Free
<1>6. Typed'
  <2>1. job' \in JobStatuses /\ writer' \in Kinds
    BY <1>2, AggregateType DEF Commit, Kinds
  <2>2. execution' \in [TextItems -> [Executions -> ExecutionStatuses]]
    <3>1. CASE tx[c].kind = "finalize"
      BY <1>2, <3>1, ExecutionTyped DEF Commit, ExecutionStatuses
    <3>2. CASE tx[c].kind # "finalize"
      BY <3>2 DEF Commit, IInv, Typed, TypeOK
    <3> QED
      BY <3>1, <3>2
  <2>3. asked' \subseteq TextItems
    BY DEF Commit, IInv, Typed, TypeOK
  <2> QED
    BY <1>5, <2>1, <2>2, <2>3 DEF Typed, TypeOK, TxType
<1>7. QueueWritesExact'
  <2>1. job' = Aggregate([view[c] EXCEPT ![i] = tx[c].goal]) /\ writer' = tx[c].kind
    BY DEF Commit
  <2>2. view[c] \in [Items -> ItemStatuses]
    BY <1>1, <1>2 DEF Fits
  <2>3. CASE tx[c].kind = "lease"
    <3>1. [view[c] EXCEPT ![i] = tx[c].goal][i] = "running" /\ status'[i] = "running"
      BY <1>2, <1>4, <2>2, <2>3
    <3>2. Aggregate(status') = "running" /\ job' = "running"
      BY <1>2, <2>1, <3>1, RunningAggregate
    <3> QED
      BY <3>2 DEF QueueWritesExact, Aggregate
  <2>4. CASE tx[c].kind \in {"finish", "regenerate"}
    <3>1. view[c] = status
      BY <1>1, <1>2, <2>4 DEF Fits
    <3>2. job' = Aggregate(status')
      BY <1>4, <2>1, <3>1
    <3> QED
      BY <3>2 DEF QueueWritesExact, Aggregate
  <2>5. CASE tx[c].kind = "finalize"
    BY <2>1, <2>5 DEF QueueWritesExact
  <2> QED
    BY <1>2, <2>3, <2>4, <2>5
<1> QED
  BY <1>5, <1>6, <1>7 DEF IInv

(* CreateTurn with both rows.                                               *)
LEMMA TurnWritesKeeps == ASSUME IInv, NEW c \in Clients, TurnWrites(c) PROVE IInv'
<1>1. Fits(c, tx[c], view[c], lock, status)
  BY Stands
<1>2. tx[c].kind = "turn" /\ tx[c].step \in {"item", "job"} /\ tx[c].item \in Items
  BY <1>1 DEF TurnWrites, In, Fits, OnPath, NoTx
<1>3. Free(c, Row(tx[c].item)) /\ Free(c, JobRow)
  BY <1>1, <1>2 DEF TurnWrites, In, Fits, HasItem, HasJob, Free
<1>4. /\ Ends(c) /\ status' = [status EXCEPT ![tx[c].item] = "queued"] /\ "queued" \in ItemStatuses
      /\ job' = "queued" /\ writer' = "turn" /\ UNCHANGED <<execution, asked>>
  BY DEF TurnWrites, ItemStatuses
<1>5. /\ Fitting'
      /\ status' \in [Items -> ItemStatuses]
      /\ lock' \in [Rows -> Clients \cup {Nobody}]
      /\ tx' \in [Clients -> TxType] /\ view' \in [Clients -> Views]
      /\ \A d \in Clients : view'[d] = NoView \/ view'[d] \in [Items -> ItemStatuses]
  BY <1>2, <1>3, <1>4, WriteFits
<1>6. Typed'
  BY <1>4, <1>5 DEF IInv, Typed, TypeOK, TxType, JobStatuses, ItemStatuses, Kinds
<1>7. QueueWritesExact'
  BY <1>4 DEF QueueWritesExact
<1> QED
  BY <1>5, <1>6, <1>7 DEF IInv

(* Every step keeps the invariant.                                          *)
LEMMA StepKeepsAll == ASSUME IInv, [Next]_vars PROVE IInv'
<1>1. CASE UNCHANGED vars
  <2>1. Typed'
    BY <1>1 DEF vars, IInv, Typed, TypeOK
  <2>2. Fitting'
    BY <1>1 DEF vars, IInv, Fitting, Fits
  <2>3. QueueWritesExact'
    BY <1>1 DEF vars, IInv, QueueWritesExact, Aggregate
  <2> QED
    BY <2>1, <2>2, <2>3 DEF IInv
<1>2. ASSUME NEW c \in Clients,
             \/ LeaseBegin(c) \/ LeaseNone(c)
             \/ FinishItem(c) \/ RegenerateItem(c)
             \/ LockJob(c) \/ Count(c) \/ Commit(c)
             \/ TurnWrites(c)
             \/ PrepareInsert(c) \/ DispatchExecution(c)
             \/ FinalizeItem(c) \/ FinalizeClose(c)
             \/ DeadlockVictim(c)
      PROVE  IInv'
  <2>1. CASE LeaseBegin(c)
    BY <2>1, LeaseBeginKeeps
  <2>2. CASE \/ LeaseNone(c) \/ PrepareInsert(c) \/ DispatchExecution(c) \/ FinalizeClose(c)
             \/ DeadlockVictim(c)
    BY <2>2, LeavingKeeps
  <2>3. CASE FinishItem(c) \/ RegenerateItem(c) \/ FinalizeItem(c)
    BY <2>3, ItemStepKeeps
  <2>4. CASE LockJob(c)
    BY <2>4, LockJobKeeps
  <2>5. CASE Count(c)
    BY <2>5, CountKeeps
  <2>6. CASE Commit(c)
    BY <2>6, CommitKeeps
  <2>7. CASE TurnWrites(c)
    BY <2>7, TurnWritesKeeps
  <2> QED
    BY <1>2, <2>1, <2>2, <2>3, <2>4, <2>5, <2>6, <2>7
<1>3. ASSUME NEW c \in Clients, NEW i \in Items,
             \/ LeaseSelect(c, i)
             \/ FinishCompleted(c, i) \/ FinishFailed(c, i)
             \/ RegenerateBegin(c, i) \/ TurnBegin(c, i)
      PROVE  IInv'
  BY <1>3, LeaseSelectKeeps, FinishBeginKeeps, RegenerateBeginKeeps, TurnBeginKeeps
<1>4. ASSUME NEW c \in Clients, NEW i \in TextItems,
             \/ PrepareItem(c, i) \/ DispatchItem(c, i)
             \/ \E n \in Executions : FinalizeBegin(c, i, n)
      PROVE  IInv'
  BY <1>4, TextItemKeeps, FinalizeBeginKeeps
<1>5. ASSUME NEW i \in TextItems, NEW n \in Executions, MarkFailure(i, n) \/ Capture(i, n)
      PROVE  IInv'
  BY <1>5, ExecutionStepKeeps
<1> QED
  BY <1>1, <1>2, <1>3, <1>4, <1>5 DEF Next

(* Nothing has begun.                                                       *)
LEMMA InitKeeps == Init => IInv
<1> SUFFICES ASSUME Init PROVE IInv
  OBVIOUS
<1>1. Typed
  <2>1. execution \in [TextItems -> [Executions -> ExecutionStatuses]]
    BY DEF Init, ExecutionStatuses
  <2>2. tx \in [Clients -> TxType]
    BY NoTxType DEF Init
  <2>3. view \in [Clients -> Views] /\ \A c \in Clients : view[c] = NoView
    BY DEF Init, Views
  <2> QED
    BY <2>1, <2>2, <2>3 DEF Init, Typed, TypeOK, TxType, ItemStatuses, JobStatuses, Kinds
<1>2. Fitting
  <2> SUFFICES ASSUME NEW c \in Clients PROVE Fits(c, tx[c], view[c], lock, status)
    BY DEF Fitting
  <2>1. tx[c] = NoTx /\ view[c] = NoView
    BY DEF Init
  <2>2. lock[JobRow] # c /\ \A i \in Items : lock[Row(i)] # c
    BY RowsDiffer, NobodyAssumption DEF Init
  <2> QED
    BY <2>1, <2>2, NoTxFits
<1>3. QueueWritesExact
  <2>1. {status[i] : i \in Items} = {"queued"}
    BY TextAssumption DEF Init
  <2>2. Aggregate(status) = "queued"
    BY <2>1 DEF Aggregate
  <2> QED
    BY <2>2 DEF Init, QueueWritesExact
<1> QED
  BY <1>1, <1>2, <1>3 DEF IInv

(* The invariant holds in every state of every run.                         *)
LEMMA Invariant == Spec => []IInv
<1>1. Init => IInv
  BY InitKeeps
<1>2. IInv /\ [Next]_vars => IInv'
  BY StepKeepsAll
<1> QED
  BY <1>1, <1>2, PTL DEF Spec

-----------------------------------------------------------------------------
(* Rows, locks, transactions and views have their types, for any number of  *)
(* items, connections and executions.                                       *)
THEOREM TypeCorrect == Spec => []TypeOK
<1>1. IInv => TypeOK
  BY DEF IInv, Typed
<1> QED
  BY <1>1, Invariant, PTL

(* What LeaseNext, finish and regenerate write into the job row is what its *)
(* items say, whatever the age of the view their counts were read from.     *)
THEOREM QueueIsExact == Spec => []QueueWritesExact
<1>1. IInv => QueueWritesExact
  BY DEF IInv
<1> QED
  BY <1>1, Invariant, PTL

(* LeaseNext, finish and finalize never wait for each other in a circle:    *)
(* whoever holds the job row wants nothing more, and whoever holds an item  *)
(* wants at most the job row.  Every circle goes through one of the four    *)
(* transactions of which this is not so: prepare, dispatch, regenerate and  *)
(* CreateTurn.                                                              *)
THEOREM DeadlocksReverse == Spec => []DeadlocksNeedReverseOrder
<1>1. ASSUME IInv PROVE DeadlocksNeedReverseOrder
  <2> SUFFICES ASSUME NEW C \in SUBSET Clients, WaitCycle(C),
                      \A c \in C : tx[c].kind \notin
                                       {"regenerate", "prepare", "dispatch", "turn"}
               PROVE  FALSE
    BY DEF DeadlocksNeedReverseOrder
  <2>1. \A c \in C : Fits(c, tx[c], view[c], lock, status) /\ Wants(c) # {}
    BY <1>1, Stands DEF WaitCycle
  <2>2. \A c \in C : tx[c].step \in {"item", "job"} /\ tx[c].item \in Items
    BY <2>1, TextAssumption DEF Fits, OnPath, Wants, NoTx
  <2>3. \A c \in C : tx[c].step # "job"
    <3> SUFFICES ASSUME NEW c \in C, tx[c].step = "job" PROVE FALSE
      OBVIOUS
    <3>1. lock[JobRow] \in C
      BY DEF WaitCycle, Wants
    <3>2. HasJob(tx[lock[JobRow]])
      BY <2>1, <3>1 DEF Fits
    <3> QED
      BY <2>2, <3>1, <3>2 DEF HasJob
  <2>4. PICK c \in C : tx[c].step = "item" /\ tx[c].item \in Items
    BY <2>2, <2>3 DEF WaitCycle
  <2>5. lock[Row(tx[c].item)] \in C
    BY <2>4 DEF WaitCycle, Wants
  <2>6. HasItem(tx[lock[Row(tx[c].item)]])
    BY <2>1, <2>4, <2>5 DEF Fits
  <2> QED
    BY <2>2, <2>3, <2>5, <2>6 DEF HasItem
<1> QED
  BY <1>1, Invariant, PTL

(* Only a commit writes an item, with what it was for or back to the queue. *)
LEMMA OnlyCommitWrites ==
    ASSUME [Next]_vars, status' # status
    PROVE  \E c \in Clients : Commit(c) \/ TurnWrites(c)
<1>1. Next
  BY DEF vars
<1>2. \A c \in Clients :
         LeaseBegin(c) \/ LeaseNone(c) \/ FinishItem(c) \/ RegenerateItem(c) \/ LockJob(c)
             \/ Count(c) \/ PrepareInsert(c) \/ DispatchExecution(c) \/ FinalizeItem(c)
             \/ FinalizeClose(c) \/ DeadlockVictim(c) => UNCHANGED status
  BY DEF LeaseBegin, LeaseNone, FinishItem, RegenerateItem, LockJob, Count, PrepareInsert,
         DispatchExecution, FinalizeItem, FinalizeClose, DeadlockVictim
<1>3. \A c \in Clients, i \in Items :
         LeaseSelect(c, i) \/ FinishCompleted(c, i) \/ FinishFailed(c, i)
             \/ RegenerateBegin(c, i) \/ TurnBegin(c, i) => UNCHANGED status
  BY DEF LeaseSelect, FinishCompleted, FinishFailed, RegenerateBegin, TurnBegin
<1>4. \A c \in Clients, i \in TextItems, n \in Executions :
         FinalizeBegin(c, i, n) => UNCHANGED status
  BY DEF FinalizeBegin
<1>5. \A c \in Clients, i \in TextItems :
         PrepareItem(c, i) \/ DispatchItem(c, i) => UNCHANGED status
  BY DEF PrepareItem, DispatchItem
<1>6. \A i \in TextItems, n \in Executions :
         MarkFailure(i, n) \/ Capture(i, n) => UNCHANGED status
  BY DEF MarkFailure, Capture
<1> QED
  BY <1>1, <1>2, <1>3, <1>4, <1>5, <1>6 DEF Next

(* A requeued item runs again: only the lease finds an item queued under    *)
(* its lock.                                                                *)
THEOREM RequeuedRuns == Spec => RequeuedItemRuns
<1>1. ASSUME IInv, [Next]_vars
      PROVE  \A i \in Items : status[i] = "queued" => status'[i] \in {"queued", "running"}
  <2> SUFFICES ASSUME NEW i \in Items, status[i] = "queued", status'[i] # status[i]
               PROVE  status'[i] = "running"
    BY <1>1
  <2>0. status' # status
    OBVIOUS
  <2>1. PICK c \in Clients : Commit(c) \/ TurnWrites(c)
    BY <1>1, <2>0, OnlyCommitWrites
  <2>2. /\ Fits(c, tx[c], view[c], lock, status) /\ status \in [Items -> ItemStatuses]
    BY <1>1, Stands DEF IInv, Typed, TypeOK
  <2>3. Commit(c)
    BY <2>1, <2>2 DEF TurnWrites
  <2>4. tx[c].step = "commit" /\ tx[c].item = i /\ status'[i] = tx[c].goal
    BY <2>2, <2>3 DEF Commit
  <2>5. tx[c].kind = "lease"
    BY <2>2, <2>4 DEF Fits, OnPath, Before, NoTx
  <2> QED
    BY <2>2, <2>4, <2>5 DEF Fits, OnPath, NoTx
<1> QED
  BY <1>1, Invariant, PTL DEF Spec, RequeuedItemRuns
=============================================================================
