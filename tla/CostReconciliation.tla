------------------------- MODULE CostReconciliation --------------------------
(***************************************************************************)
(* How the provider's bill is spread over the jobs that caused it           *)
(* (internal/ai/cost_service.go Sync and reconcile, cost_scheduler.go): the *)
(* billed amount of a day is fetched into buckets, and each bucket is       *)
(* allocated to jobs in proportion to the estimates of their usage.         *)
(*                                                                         *)
(* Nothing here is a transaction: every statement commits by itself, a      *)
(* sync asked for by a user runs beside the daily one, and each of them may *)
(* stop between two statements.  One step is one statement and the reads    *)
(* just before it.                                                          *)
(***************************************************************************)
EXTENDS Integers, Sequences, FiniteSets, FiniteSetsExt, SequencesExt, Money

CONSTANTS
    Buckets,            \* what the provider bills by day, project, key and line item
    DayOf(_),           \* the day of a bucket
    MonthOf(_),         \* the month of a day
    UsageJobs,          \* the jobs whose usage is estimated
    Syncs, Ranges,      \* runs of Sync, and the spans of days they may be asked for
    Amounts,            \* what may be billed for a bucket
    MaxBills, MaxUsage, MaxCloses   \* bounds: changed bills, priced usage, changed periods

(* Spans are counted in whole days, and money in whole units.                *)
ASSUME CostAssumption ==
    /\ \A range \in Ranges : IsFiniteSet(range) /\ \A d \in range : MonthOf(d) \in Nat
    /\ Amounts \subseteq Int

VARIABLES
    billed,             \* billed[b] : what the provider says at present
    usage,              \* usage[d] : the priced estimates, [job, amount]
    period,             \* period[m] : "open" or "closed"
    bucket,             \* bucket[b] : the row, with its amount and status, once there is one
    allocations,        \* the rows of ai_reconciliation_allocations
    sync,               \* sync[s] : stage and what it holds in memory
    bills, uses, closes \* counts against the bounds

costVars == <<billed, usage, period, bucket, allocations, sync, bills, uses, closes>>

Days == {DayOf(b) : b \in Buckets}
MonthsOf(days) == {MonthOf(d) : d \in days}
NoRow == [status |-> "none"]
Waiting == [stage |-> "idle"]
SyncAt(s, stage) == sync[s].stage = stage
Running(s) == sync[s].stage \notin {"idle", "over"}
AllocationRows(b, version) == {a \in allocations : a.bucket = b /\ a.version = version}
NewestAllocation(b) == Max({0} \cup {a.version : a \in {x \in allocations : x.bucket = b}})

(* calm marks a sync beside which nothing else has happened.                 *)
Disturb(others) ==
    [s \in Syncs |-> IF s \in others /\ Running(s) THEN [sync[s] EXCEPT !.calm = FALSE]
                     ELSE sync[s]]

-----------------------------------------------------------------------------
(* The bill is fetched *)

(* Months are counted as closed once, over the whole span of the request.    *)
FirstMonth(range) == {Min(MonthsOf(range))}  \* mutant: the month of the first day
Checked(range) == Min(MonthsOf(range))..Max(MonthsOf(range))

BeginSync(s, range) ==
    /\ sync[s] = Waiting
    /\ \A m \in Checked(range) \cap DOMAIN period : period[m] # "closed"
    /\ sync' = [Disturb(Syncs) EXCEPT ![s] =
           [stage |-> "fetching", range |-> range,
            todo |-> {b \in Buckets : DayOf(b) \in range},
            open |-> {m \in DOMAIN period : period[m] # "closed"},
            calm |-> \A t \in Syncs : ~Running(t)]]
    /\ UNCHANGED <<billed, usage, period, bucket, allocations, bills, uses, closes>>

FetchBucket(s, b) ==
    /\ SyncAt(s, "fetching") /\ b \in sync[s].todo
    /\ bucket' = [bucket EXCEPT ![b] =
           [status |-> IF @ = NoRow THEN "open" ELSE @.status, amount |-> billed[b]]]
    /\ sync' = [sync EXCEPT ![s].todo = @ \ {b}]
    /\ UNCHANGED <<billed, usage, period, allocations, bills, uses, closes>>

(* The usage diagnostics that come between are not used for anything else.   *)
ReadBuckets(s) ==
    LET range == sync[s].range
        there == {b \in Buckets : DayOf(b) \in range /\ bucket[b] # NoRow}
    IN  /\ SyncAt(s, "fetching") /\ sync[s].todo = {}
        /\ sync' = [sync EXCEPT ![s] =
               [stage |-> "reconciling", range |-> range, open |-> @.open, calm |-> @.calm,
                found |-> {[id |-> b, amount |-> bucket[b].amount] : b \in there},
                days |-> {DayOf(b) : b \in there}, rows |-> <<>>, buckets |-> {}, entry |-> {}]]
        /\ UNCHANGED <<billed, usage, period, bucket, allocations, bills, uses, closes>>

-----------------------------------------------------------------------------
(* Each day is reconciled *)

(* The jobs of a day come in any order; without estimates the day waits.     *)
ReadEstimates(s, d, rows) ==
    LET found == {f \in sync[s].found : DayOf(f.id) = d}
        none == TotalOf(ToSet(rows)) = 0
    IN  /\ SyncAt(s, "reconciling") /\ sync[s].buckets = {} /\ d \in sync[s].days
        /\ ToSet(rows) = usage[d]
        /\ bucket' = [b \in Buckets |->
               IF none /\ \E f \in found : f.id = b
               THEN [bucket[b] EXCEPT !.status = "needs_attention"] ELSE bucket[b]]
        /\ sync' = [sync EXCEPT ![s].days = @ \ {d}, ![s].rows = rows,
                                ![s].buckets = IF none THEN {} ELSE found]
        /\ UNCHANGED <<billed, usage, period, allocations, bills, uses, closes>>

(* Nothing is written when the last version says the same.                   *)
SameAllocation(f, rows, prior) ==
    /\ TotalOf(prior) = f.amount
    /\ {[job |-> a.job, amount |-> a.estimate] : a \in prior} = ToSet(rows)

CompareBucket(s, f) ==
    LET rows == sync[s].rows
        prior == AllocationRows(f.id, NewestAllocation(f.id))
    IN  /\ SyncAt(s, "reconciling") /\ f \in sync[s].buckets
        /\ sync' = [sync EXCEPT
               ![s].buckets = @ \ {f},
               ![s].stage = IF NewestAllocation(f.id) > 0 /\ SameAllocation(f, rows, prior)
                            THEN @ ELSE "allocating",
               ![s].entry = [of |-> f, version |-> NewestAllocation(f.id) + 1, next |-> 1, given |-> 0]]
        /\ UNCHANGED <<billed, usage, period, bucket, allocations, bills, uses, closes>>

(* The last job takes what rounding has left.                                *)
Share(f, rows, n, given) ==
    IF n = Len(rows) THEN f.amount - given
    ELSE Rounded(f.amount * rows[n].amount, TotalOf(ToSet(rows)))

InsertAllocation(s) ==
    LET entry == sync[s].entry
        rows == sync[s].rows
        row == rows[entry.next]
        share == Share(entry.of, rows, entry.next, entry.given)
    IN  /\ SyncAt(s, "allocating") /\ entry.next <= Len(rows)
        /\ \A a \in AllocationRows(entry.of.id, entry.version) : a.job # row.job
        /\ allocations' = allocations \cup
               {[bucket |-> entry.of.id, version |-> entry.version, job |-> row.job,
                 estimate |-> row.amount, amount |-> share]}
        /\ sync' = [sync EXCEPT ![s].entry.next = @ + 1, ![s].entry.given = @ + share]
        /\ UNCHANGED <<billed, usage, period, bucket, bills, uses, closes>>

MarkReconciled(s) ==
    /\ SyncAt(s, "allocating") /\ sync[s].entry.next > Len(sync[s].rows)
    /\ bucket' = [bucket EXCEPT ![sync[s].entry.of.id].status = "reconciled"]
    /\ sync' = [sync EXCEPT ![s].stage = "reconciling"]
    /\ UNCHANGED <<billed, usage, period, allocations, bills, uses, closes>>

Reconciled(s) == SyncAt(s, "reconciling") /\ sync[s].days = {} /\ sync[s].buckets = {}

(* The time of the sync is noted; or it fails, at whatever statement: the    *)
(* provider, the database or the caller is gone, or a row is there already.  *)
EndSync(s) ==
    /\ Running(s)
    /\ sync' = [sync EXCEPT ![s] = [stage |-> "over"]]
    /\ UNCHANGED <<billed, usage, period, bucket, allocations, bills, uses, closes>>

-----------------------------------------------------------------------------
(* Beside the syncs *)

ClosePeriod(m, closed) ==
    /\ closes < MaxCloses
    /\ period' = [period EXCEPT ![m] = IF closed THEN "closed" ELSE "open"]
    /\ closes' = closes + 1
    /\ UNCHANGED <<billed, usage, bucket, allocations, sync, bills, uses>>

(* Usage of a day is priced: a job appears, or its estimate grows.           *)
PriceUsage(d, j, n) ==
    LET old == {u \in usage[d] : u.job = j}
    IN  /\ uses < MaxUsage
        /\ usage' = [usage EXCEPT ![d] = (@ \ old) \cup {[job |-> j, amount |-> TotalOf(old) + n]}]
        /\ uses' = uses + 1
        /\ sync' = Disturb(Syncs)
        /\ UNCHANGED <<billed, period, bucket, allocations, bills, closes>>

Bill(b, amount) ==
    /\ bills < MaxBills
    /\ billed' = [billed EXCEPT ![b] = amount]
    /\ bills' = bills + 1
    /\ UNCHANGED <<usage, period, bucket, allocations, sync, uses, closes>>

CostInit ==
    /\ billed \in [Buckets -> Amounts] /\ usage = [d \in Days |-> {}]
    /\ period = [m \in MonthsOf(Days) |-> "open"]
    /\ bucket = [b \in Buckets |-> NoRow] /\ allocations = {}
    /\ sync = [s \in Syncs |-> Waiting] /\ bills = 0 /\ uses = 0 /\ closes = 0

CostNext ==
    \/ \E s \in Syncs :
          \/ \E range \in Ranges : BeginSync(s, range)
          \/ \E b \in Buckets : FetchBucket(s, b)
          \/ \E d \in Days : \E rows \in SetToSeqs(usage[d]) : ReadEstimates(s, d, rows)
          \/ SyncAt(s, "reconciling") /\ \E f \in sync[s].buckets : CompareBucket(s, f)
          \/ ReadBuckets(s) \/ InsertAllocation(s) \/ MarkReconciled(s) \/ EndSync(s)
    \/ \E m \in DOMAIN period, closed \in BOOLEAN : ClosePeriod(m, closed)
    \/ \E d \in Days, j \in UsageJobs, n \in 0..1 : PriceUsage(d, j, n)
    \/ \E b \in Buckets, amount \in Amounts : Bill(b, amount)

CostSpec == CostInit /\ [][CostNext]_costVars

-----------------------------------------------------------------------------
(* Properties *)

CostTypeOK ==
    /\ \A b \in DOMAIN bucket :
           bucket[b].status \in {"none", "open", "needs_attention", "reconciled"}
    /\ \A a \in allocations : a.bucket \in DOMAIN bucket /\ a.job \in UsageJobs /\ a.version \in Nat
    /\ \A s \in Syncs : sync[s].stage \in {"idle", "fetching", "reconciling", "allocating", "over"}

(* A sync that is left alone leaves the books in order whatever was there    *)
(* before it, also the half of a version that a broken sync or two at once   *)
(* have left: the newest allocation of each bucket names just the jobs with  *)
(* an estimate and adds up to the amount that was billed, and a day without  *)
(* estimates calls for attention (cost_service.go reconcile).                *)
CalmSyncBalances ==
    \A s \in Syncs : (Reconciled(s) /\ sync[s].calm) =>
        \A b \in {c \in DOMAIN bucket : DayOf(c) \in sync[s].range} :
            LET rows == AllocationRows(b, NewestAllocation(b))
                estimates == usage[DayOf(b)]
            IN  IF TotalOf(estimates) = 0 THEN bucket[b].status = "needs_attention"
                ELSE /\ TotalOf(rows) = bucket[b].amount
                     /\ {[job |-> a.job, amount |-> a.estimate] : a \in rows} = estimates

(* Nothing in the books of a closed month changes, except by a sync that was *)
(* under way already when the month was closed (cost_service.go Sync checks  *)
(* the periods once, ClosePeriod waits for nobody).                          *)
Books(b) == <<bucket[b], {a \in allocations : a.bucket = b}>>
ClosedBooksStand ==
    [][\A b \in DOMAIN bucket :
          (period[MonthOf(DayOf(b))] = "closed" /\ Books(b)' # Books(b))
              => \E s \in Syncs : Running(s) /\ MonthOf(DayOf(b)) \in sync[s].open]_costVars
=============================================================================
