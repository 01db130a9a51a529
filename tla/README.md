# CargoFlows: a TLA+ model of the server

CargoFlows keeps the stock of a trading company, the photographs of its
products, and the texts and images that AI providers make from them. The Go
server under `src/api` does the work: an HTTP process (`cmd/server`), a worker
process (`cmd/worker`), one MySQL database and an object store between them.
The web and iOS clients only send requests.

This directory models the parts of that server whose correctness depends on
the order in which several actors act: the AI work queue with its workers and
executors, the services around it (templates, job creation, review, pricing,
cost reconciliation, provider settings), the inventory ledger, and the
versioned material of the back office (capture SOPs, AI references, variant
manifests). Everything the modules say is translated from the Go source;
`PROJECT.json` names the lines behind every definition.

- [Components](#components): the inventory of the system
- [Modules](#modules): what models what, and how state and actions correspond
- [Runs](#runs): what TLC checks, in which bounds, and why they suffice
- [What the runs found](#what-the-runs-found)
- [Proofs](#proofs): what holds for every value of the constants
- [Not modelled](#not-modelled) and [Plan](#plan)

## Components

Paths are relative to `src/api/internal`. The deployment runs MySQL 8.4 with
its defaults: REPEATABLE READ, strict mode; foreign keys are switched off in
`database/database.go`.

### AI work

**Work queue** (`ai/queue.go`). State: `ai_job_items` (status, `lease_owner`,
`lease_expires_at`, `attempt_count`), `ai_jobs.status`, which is a projection
of its items', and one row of limits. Operations: `LeaseNext`, `Heartbeat`,
`Complete` and `Fail` (both `finish`), each ending in `aggregateJob`. Hard:
leases expire under workers that still run; the clock is read before the
transaction waits for its locks; the projection is counted with a plain SELECT,
and one writer of it, `CreateTurn` of the image turns, does not count at all.
Correct when: one worker per attempt, limits kept, outcomes match what was
executed, no item or job is forgotten.

**Worker loop** (`ai/worker.go`). `RunOnce` leases an item, runs an executor in
a goroutine, renews the lease at a third of its duration, cancels and waits for
the executor when a heartbeat fails, then reports. It keeps nothing but the
lease. Hard: the `select` may take the heartbeat although the executor's answer
waits; the answer of a cancelled executor is thrown away after its writes were
made.

**Worker pool** (`cmd/worker/main.go`, `ai/worker_settings.go`). One goroutine
for each slot, started, told to retire and started again as the setting
changes; ends come back over a channel. Hard: the target is read at ticks while
slots end on their own and the process is told to stop. Correct when: a slot
has one goroutine, and the pool becomes what the setting says, or ends.

**Text executor** (`ai/text_executor.go`). State: `ai_executions`
(`preparing`, `calling_openai`, `storing_result`, `completed`, `failed`,
`attention_required`), results, the usage ledger. `prepare` finds or makes the
execution, `dispatch` marks it called, `captureProviderResponse` stores the
answer, `finalize` turns it into results, usage and completion;
`markProviderFailure` may come after any of them. Hard: only `prepare` and
`dispatch` ask for the lease. Correct when: the provider is paid once per
request, a stored answer is never lost or paid again, usage goes with
completion.

**Image executor** (`ai/image_executor.go`), **generated image storage**
(`ai/image_storage.go`, `app/object_store.go`), **image turns**
(`ai/image_turns.go`, `ai/image_results.go`). State: turns of a thread,
executions, results, objects in the bucket with pending markers. `CreateTurn`
asks for a revision: it adds a turn and puts item and job back to queued, from
any status. Hard: the
bucket and the database fail separately; each attempt makes an execution of its
own; users ask for revisions while workers run. Correct when: a result that is
shown has its image, a turn is sent once, a completed item has an image.

**Job service** (`ai/jobs.go`). `Create` checks a request against the template,
photographs, references, icons and the capture SOP it selects and freezes them
into a job, once for an idempotency key; `RegenerateItem` puts a failed item
back. Hard: the same key twice at once; slots read from a view that is older
than the rows locked later.

**Content templates** (`ai/templates.go`). Templates with numbered versions:
draft, published, archived, deleted. Hard: operations lock template and version
in different orders, and the last draft takes the template with it. Correct
when: the template row says what its versions are, and publications stand.

**Text result review** (`ai/text_results.go`). Candidates are edited, approved
or rejected, and applied to the content of a SKU in each language of the job.
Hard: results of several jobs meet in one content. Correct when: an item stands
for an approved text, and the revisions form one unbroken history.

**Cost accounting** (`ai/costing.go`, `ai/cost_service.go`,
`ai/cost_scheduler.go`). Usage is priced at the rate in force; the bill of a
day is fetched and spread over jobs. Hard: repricing reads charges and rates
without locks; a sync has no transaction at all and runs beside others; months
are closed meanwhile. Correct when: what counts as priced is priced whole,
undisturbed allocations add up to the bill, closed books stand.

**Provider settings** (`ai/provider_settings.go`, `secrets/aesgcm.go`). One row:
key, models, mode, and the stamp that images work. Hard: the provider is asked
before the transaction that uses the answer, and calls outlive the key they
were made with. Correct when: the stamp names what made an image.

### Back office

**Inventory ledger** (`app/inventory_handlers.go`,
`app/inventory_corrections.go`, `models/inventory.go`, `money/decimal.go`).
State: transactions (draft or posted) with lines and charges, cost revisions,
and in each SKU the stock, moving average and value. Operations: save and edit
a draft, post, void, correct costs (replays the history from a receipt on),
correct quantities. Hard: exchange rates are found before the draft is locked;
a correction takes its time before it waits for the SKUs; averages are rounded.
Correct when: the ledger adds up, a document is booked once and as entered,
recosted history has no gaps.

**SKU and product handlers** (`app/handlers.go`). `createSKU` with an opening
balance, `updateSKU`, which saves the whole row it once read, `deleteSKU`.

**Capture SOPs** (`app/sop_service.go`, `app/sop_handlers.go`,
`sop/validation.go`). Versions of views in an order, with reference images. An
editor names the revision it has read. Hard: revisions are time stamps; a
version is read in two steps; an upload is checked, claimed, moved and recorded
in four. Correct when: an up-to-date page shows the draft, order has no gap,
images are stored.

**AI reference SOPs** (`app/ai_reference_sops.go`, `app/reference_grants.go`).
Pictures that inspire, in versions; a mask takes the product out of them. Hard:
no handler locks anything; copies of a version name the same objects. Correct
when: one draft, one item for a ticket, what is published can be shown.

**Model families and variant manifests** (`sop/model_families.go`,
`sop/variant_manifests.go`, grants in `app/reference_grants.go`). A SKU belongs
to one family; a manifest says what identifies the variant, with evidence. Hard:
a write opens its read view before it locks. Correct when: writes stay in their
scope, and what photographers get is complete.

**Capture and assets** (`app/handlers.go`, `app/asset_provenance.go`), **users
and sessions** (`app/handlers.go`, `app/router.go`), **brands and catalogue**
(`app/catalog.go`), **cutover** (`ai/cutover.go`), **prompt compilers, provider
clients, schema, clients and scripts**: see [Not modelled](#not-modelled).

Interaction is by rows: the HTTP process creates jobs, puts items back, queues
image turns and reads results; workers move items and write executions. There
is no message and no callback between the processes. All hazards met while
reading are listed in `PROJECT.json` with the property that covers each, or the
reason why none does.

## Modules

| Module | Code | Says |
| --- | --- | --- |
| `FencedClaims` | what `queue.go` promises | claims with epochs; only the newest claim settles an item |
| `JobQueue` | `queue.go`, `worker.go`, `regenerateItem`, `CreateTurn` | rows, leases, clocks, heartbeats; one action per transaction or step of `RunOnce` |
| `JobProjection` | the same transactions, and the text executor's, by statement | row locks, read views, deadlocks |
| `WorkerPool` | `cmd/worker/main.go`, `worker_settings.go` | slots, goroutines, the channel of ends |
| `TextExecution` | `text_executor.go` under `RunOnce` | one text item, several workers, paid calls |
| `ImageExecution` | `image_executor.go`, `image_storage.go`, `image_turns.go` | one image item, its turns, executions and objects |
| `VersionLifecycle` | what all versioned content promises | one draft, publications stand |
| `ContentTemplates` | `templates.go` | templates and their versions, with the checks of publication |
| `JobCreation` | `jobs.go` `Create`, on top of `ContentTemplates` | a request becomes a job, once for a key |
| `TextReview` | `text_results.go` | approval, and one history of content |
| `UsagePricing` | `costing.go`, rate handlers | charges and rates, read without locks |
| `CostReconciliation` | `cost_service.go`, `cost_scheduler.go` | syncs statement by statement, months |
| `CostAccounting` | the two above | what estimates and bill have in common |
| `ProviderSettings` | `provider_settings.go`, parts of `image_executor.go` | settings under calls |
| `Inventory` | `inventory_*.go`, `createSKU`, `updateSKU` | documents, ledger, balances, corrections |
| `CaptureSOPs` | `sop_service.go`, `sop_handlers.go`, `validation.go` | views, revisions, uploads |
| `AIReferences` | `ai_reference_sops.go` | items, tickets, objects that copies share |
| `Money` | `money/decimal.go` | rounding and sums, of costs and of the ledger |
| `ProductMask` | `reference_grants.go` `neutralizeMaskedProduct` | which pixels are left |
| `FamilyManifests` | `model_families.go`, `variant_manifests.go`, grants | membership, read views, evidence |
| `AIOffice` | the five components around the AI workers | the types of all of them |
| `BackOffice` | the four components of the back office | their types; what capture SOPs and manifests have in common |
| `*Proofs`, `DataFacts` | | theorems, see [Proofs](#proofs) |
| `MC*` | | instances for TLC |

There are two abstract specifications. `FencedClaims` is the interface between
queue and executors: `JobQueue` is shown to implement it, and the two executor
modules take the queue by that promise alone: an attempt number per lease, and a
flag for "the newest lease has not expired", which may fall at any time. So they
hold for every lease duration. An item that was settled undone may be asked for
again, and one that can be revised (`Revisable`, the pictures) at any time after
its first claim, which fences whoever works on it. `VersionLifecycle` is what
templates, capture SOPs and manifests have in common; each of the three is shown
to implement it under a mapping that forgets all but parent, status and content.
What a new draft contains is left open there: a copy is a draft like any other,
and that it equals its source is not compared. AI references are not, since
their published images can go (`references_lost`).

### JobQueue

`status`, `owner`, `left`, `attempt` and `job` are the columns; `left[i]` is
`lease_expires_at` minus the present, so no clock variable is needed. Every
operation reads `now` before its transaction, so each action takes a delay `k
\in 0..Lag` and compares with a clock `k` ticks old. `stage` and `lease` are the
locals of `RunOnce`: `executing` (in the select), `succeeded` and `failed` (an
answer waits), `draining` (cancelled, waiting for the goroutine). `LeaseNext`,
`Heartbeat`, `Finish`, `FinishRejected`, `RegenerateItem` and `CreateTurn` are
the operations; `ExecutorSucceeds`, `ExecutorFails`, `ExecutorLosesLease` and
`Drained` are the dry-run executor; `Crash` covers death, shutdown and a
database that does not answer `finish`. `Candidates` returns any candidate and
not the oldest because SKIP LOCKED passes over rows.

These are all the writers of item and job status in `src/`, but for the creation
of jobs, `finalize` of the text executor (in `JobProjection`, as it needs
statements) and the cutover. `CreateTurn` takes any picture of `Pictures` that
was tried, whatever its status: a thread is made with the first execution. Two
things of it are left to `ImageExecution`: that no turn of the thread is active,
so that the action here is possible more often than in the code, and what a run
then makes of the turn; the executor here stays the dry-run one. It writes
`queued` into the job row without counting, so beside a completed item the row
says `queued` where `aggregateJob` would say `running`, until the next count.
`JobShowsItems` states the row with this exception, and `requests` counts both
kinds of requests. `late` is a history variable: the items whose lease a
heartbeat with an old clock brought back after it had run out.

### JobProjection

Opens up what `JobQueue` takes as atomic. `lock` holds row locks to the end of
the transaction, `view` is the read view, fixed by the first plain SELECT.
`tx[c].step` says which statement comes next. The module shows that the queue's
own transactions keep the projection exact although `Count` reads an old view:
their plain reads come after the locks that matter. It adds the text
executor's `prepare`, `dispatch` and `finalize`, and `CreateTurn`. `prepare`
holds the item (`PrepareItem`) and inserts the execution (`PrepareInsert`) where
no failing `finish` holds the gap behind the newest one: the rows of executions
that are not made yet stand for that gap. `CreateTurn` finds its thread with a
locking join (`TurnBegin`), in whichever order the optimizer joins item and job,
and writes both rows (`TurnWrites`).

The order of the queue is execution, item, job. Against it go regenerate and
`CreateTurn`, which may hold the job when they ask for the item, and `prepare`
and `dispatch`, which hold the item when they ask for executions:
`DeadlocksNeedReverseOrder` says that every wait cycle goes through one of
these. Of the job row, `QueueWritesExact` leaves out two writers, finalize and
`CreateTurn`. `DeadlockVictim` is InnoDB's rollback. These lock rules are not in
`src/`; the map marks them external. Not opened up are the rows of threads,
turns and results, which only transactions on images lock, and the executions of
image items: their executors insert as `prepare` does, item first.

### WorkerPool

A step is what happens between two channel operations. `slots` is the loop's
map (kept, retiring, none), `goroutine` what really runs, `done` the buffered
channel of ends. `Look` reads the setting and reconciles, `ReadEnd` frees a
slot and reconciles again, `Leave` is a goroutine that saw its stop channel or
the end of the context, `Report` its send. The goroutine value `"twice"` stands
for a slot that was started while it ran.

### TextExecution and ImageExecution

One item, several workers. `run[w].step` is the position in `Execute`; each
transaction, storage operation or provider call is an action, and its failures
are others. A worker whose heartbeat failed is `cancelled`: steps that use the
run's context can only fail then, those under `context.WithoutCancel` still
run. In `ImageExecution`, `result` of an execution says whether its rows were
committed and acknowledged, `objects` which images are in the bucket. Two
answers of the provider are taken to have different bytes.

### ContentTemplates and JobCreation

A template operation locks what it changes before it reads it plainly and is one
action. `Publish` locks version and template in the other order than `Archive`,
so two can deadlock; as actions they cannot, and no property here would see it.
The victim's rollback leaves the rows as they were. A prompt is kept as what the
checks see in it (blank, plain, with a secret, with an unknown variable), a slot
as the fields that are checked there or in `jobs.go`. `publication` is a history
variable: what a version was when it was published.

`JobCreation` extends it, so clients create jobs while templates are edited.
`Create` is two actions because it reads two states: `LookForJob` finds no job
under the key and opens the read view (`seen`: slots, platform, references),
`FinishCreate` locks version, photographs and the SOP as they are by then and
refuses, fails at the unique index or commits. `RecoverIdempotentCreate` is the
second look after a duplicate. `Checks` lists the checks in the code's order and
`Refusal` is the first that fails. A draft may have two slots with one key,
since that index is not unique: `SelectJobSlots` takes the first, as the code
does. `JobsServeRequests` relates the two components: a job that is made covers
what was asked, each picture with photographs of every view its slot requires
(`Photographed`), and the checks of publication let nothing through that those
of creation call invalid, but an override of a field without a list. Whether a
request gets its job depends on more: what it asks for and which photographs it
brings.

### TextReview

Operations lock the job of their result first, so they exclude each other
within one job. `Apply` is `LockBinding`, `ReadContent` (holds the SKU, reads
the content under it) and `WriteContent`, since results of several jobs meet
there. `revisions` has the history of each language's content.

### UsagePricing and CostReconciliation

Pricing is a transaction that locks nothing: `BeginPricing` opens the view,
`CommitPricing` writes, unless the unique index over ledger and metric refuses
a charge. In `CostReconciliation` each statement of `Sync` commits alone, so
one action is one statement: fetch a bucket, read the estimates of a day,
compare, insert an allocation, mark. A sync may stop between any two. `calm` is
a history flag of a sync beside which nothing else was written; the balance is
claimed for those, from whatever the broken ones before left. Money is a whole
number of the smallest unit. `CostAccounting` extends the two modules and names
what they promise together, `CostsAddUp`.

### ProviderSettings

The provider is asked before the transaction: `Verify` and `Configure`,
`ListModels` and `UpdateModels` are two actions each. An image call takes the
credential (`DecryptActiveCredential`), is dispatched, and stamps the settings
it finds at its end (`PersistResult`). `proven` and `outlived` are history
variables: what made an image, and that settings were replaced under something
that worked with them. The stamp is claimed only where they were not: a call in
flight stamps whatever it finds, and `StampProvesConfigured`, which speaks of
those too, is [false](#what-the-runs-found).

### Inventory

A transaction locks its document and its SKUs until it commits and is one
action where it reads what it has locked. Two steps are taken for what is read
before: `PreparePosting` and `Post`; `QuantityCorrection` and `QuantityBooked`;
`OpenForm` and `SaveForm`. Money is a whole number of the smallest unit (the
code's eighth decimal) and `Rounded` is `big.Rat.FloatString`. `posted` orders
entries as `posted_at, id` does. An exchange rate is part of a price. A draft
that was edited after its rates were found is refused: the rates are looked up
by line id, the new lines have none, and strict mode takes `''` for an error.
One quantity correction is under way at a time, so that at most one entry waits
with an older time: two that overtake each other need two administrators who
correct receipts of the same SKU within one lock wait.

What the properties of the ledger except, the code does: `createSKU` takes a
negative stock, which the ledger may then keep (`Lowest`) and for which the
bound on rounding means nothing; a void looks for later entries, so a SKU that a
late form set back may be voided out of order (`VoidsUndoTheLast` leaves those
out); and a replay in filing order passes through stocks that never were.

### CaptureSOPs

`version[v]` is a row with its views, a function from their ids to role,
soundness, `allow_multiple`, sequence and images; `now` is the server's clock in
milliseconds. Every change of a draft locks its version and compares the
revision its editor sends with the row's time stamp (`MayEdit`); `NextRevision`
moves the stamp on even within a millisecond. A page is read in two steps
(`ReadRow`, `ReadViews`), so it may hold an old revision with new views but not
the reverse. `CreateSOP` makes the first draft with its front view, and
`Reorder` takes any order of the views (`ViewOrders`) that keeps the front
first. An upload goes `CheckTicket`, `ClaimTicket`, `Promote`,
`AddReferenceImage`, with a crash or a deleted view between any two.

### AIReferences and ProductMask

`reference[v]` is a version, with a function from the keys of its items to
their sort order, so that copies name the same objects as in the code; `made`
says of each key what picture was stored under it, and `images` which are in the
bucket. Handlers are sequences of statements (`stage` of a request): a copy
counts drafts and versions in one view (`CopyBegin`) and inserts later
(`CopyCommit`), where the unique number stops the second; a completion checks
the token (`CheckToken`), claims it (`ClaimToken`), stores the picture (`Store`)
and inserts the row (`InsertItem`), and gives the token back on failure. A new
order is chosen at `ReorderBegin`; at `ReorderCommit` rows that came meanwhile
stay where they are, and the unique index refuses the order if two then have one
place. `StopRequest` is the server's end between any two statements.
`ProductMask` computes what is left of a masked picture.

### FamilyManifests

`home[s]` is the family a SKU is an active member of, `manifest` all versions of
all SKUs (`Variants`) in the order they were made, and `writer[w]` what a write
has seen. A manifest write is two actions, the read view (`Begin...`) and the
commit (`CreateManifest`, `CopyManifest`, `UpdateManifest`, `PublishManifest`)
with its locks on family, SKU and membership. What is read under a lock is
current; regions, assets, the draft count and the last number come from the
view, and unique indexes refuse the rest. Grants take a reference from an
approved asset in three statements (check, number, insert).

`AIOffice` and `BackOffice` extend the components on either side, and state
over all of them the types of their state, `OfficeTypeOK`; `BackOffice` also
names what SOPs and manifests both promise, `LifecycleKept`.

### The harnesses

`MCAIOffice` and `MCBackOffice` each put several components into one instance.
Their components share no state in the program, so each behaviour is of one of
them: `office`, chosen in `Init`, says which, and the others stay as they are. A
component with two hard cases that need different bounds is there twice (`costs`
and `days`; `sops`, `views` and `uploads`; `groups`, `evidence` and `grants`;
`copies` and `pictures`). `MCWorkers` does the same with the queue and the pool.
Components with theorems are extended and get their constants in the `.cfg`, as
the proofs extend them; second instances and the components without theorems are
instances with constants of their own (in `MCBackOffice` the offices `stock`,
`sops`, `groups` and `copies` are the extended ones, and a property there speaks
of these; the offices beside them reach the remaining actions). `OfficeTypeOK`
speaks of what rows say of one another and not of the constants of an instance,
so it holds of every office. The two instances of costs differ in what the
properties do not name, so these speak of both. Where components do interact,
the module says so itself: `JobCreation` over `ContentTemplates`,
`FamilyManifests` with its grants, the executors over `FencedClaims`.

## Runs

| Run | Checks | Bounds |
| --- | --- | --- |
| `queue_safety` | leases exclusive, outcomes honest, projection, refinement of `FencedClaims` | clocks up to 1 tick old, 2 workers, 1 job of 2 pictures, 2 faults, 1 request |
| `queue_liveness` | limits, every job settles; pool slots single, the pool settles | clocks up to 1 tick old, 2 workers, 1 job of a picture and a text, 1 lease a job, 2 faults, 1 request; 3 slots, 2 changes |
| `projection` | exact projections, requeued items run, shape of deadlocks | 3 connections, a text and an image item, 2 executions |
| `text_execution` | paid calls, usage, stored answers | 3 workers, 2 faults, 1 regeneration |
| `image_execution` | images behind results, turns sent once | 2 workers, 2 faults, 1 regeneration, 1 revision |
| `ai_office` | keys, jobs serve requests, templates, lifecycle; review; pricing and allocation; closed months; the stamp | 2 clients, 3 requests on 2 keys, 1 template, 2 versions, 1 withdrawal; 4 results of 2 jobs, 2 edits; 2 ledgers, 2 rate versions; 2 administrators, 2 calls, 3 keys; 2 syncs over 1 bucket or 2 |
| `back_office` | ledger, booking, history, voids, rounding; SOPs whole; references single; manifests in scope; lifecycle | 2 SKUs, 3 kinds of documents, 4 transactions, 1 recosting; 2 editors, 2 versions, 2 uploads of 1 ticket; 2 families, 1 SKU, 2 writers, 2 granters; 3 reference versions, pictures of 3 by 2 pixels |

Five more runs each refute one sentence ([below](#what-the-runs-found)):
`projection_stale`, `text_answer_lost`, `inventory_form`, `references_lost`,
`manifest_incomplete`.

**Why these bounds.** A stale worker and its successor are the worst the queue
knows, since a third worker stands to the second as the second to the first: two
workers and one lapse make every kind of pair; two faults let a takeover itself
fail. The text executor gets a third worker because its races involve one that
prepares, one that calls and one that comes back. `TTL = 2` and `Lag = 1` are
the smallest values at which a lease can be live for one clock and expired for
another. In `queue_liveness` two workers, two items of one job and
`MaxWorkersPerJob = 1` make the limit of a job bind; that of the pool is counted
in the same view by the same statement. One request is a regeneration or a
revision, of an item that waits, runs or has ended; in `queue_safety` both items
are pictures, so that either may be revised beside the other. Two executions per
text item and one regeneration are the first case in which "newest execution"
and "this execution" differ. Three slots let one retire, one stay and one start;
two changes let the limit fall and rise again before the retired slot has left.

In `ai_office` two clients share a key with different and with equal requests;
two versions are the first case of a draft beside a publication; the forms
differ in what publication refuses, and of the two views that slots require one
was photographed. Two jobs in one and two languages let results of one job and
of two meet in one content. Rates come late, for one
tier only, and at a quantity that rounds. Of three keys two have one
fingerprint and one is refused. A day whose bill changes under two syncs, and
two days in two months of which one is closed, are the two instances of costs.

In `back_office` costs of 5 + 1 over quantities 2 and 1 do not divide, charges
are spread over two lines, and four transactions allow a receipt, a movement, a
correction and a void of it. Two editors and a clock that stands still give two
changes within a millisecond; two uploads with one ticket race for it; a SKU
between two families and two writers give every order of regrouping, edit and
publication. Bounds sit in the guards and are named `Max...` (and `Edited`, the
SKUs whose form is opened).

**Fairness** is assumed in `queue_liveness` only, and weakly. Of the queue: an
idle worker polls (the loop in `runWorkerSlot`), an executor returns (provider
calls have timeouts), a live worker's ticker fires, `finish` is called after an
answer, and time passes. Of the pool: its ticker fires and settings can be read
again in the end (`Look`), a `select` takes each ready case sooner or later
(`ReadEnd`, `Wait`), the wait for the goroutines returns (`Return`), and a
goroutine's run ends (`Worked`), it sees that it is to leave (`Leave`) and
sends (`Report`). Nothing is assumed of faults, of users, of new work
(`RunOnce` of the pool), or of which item a worker gets. A worker may still be
cut off `MaxFaults` times.

**Symmetry** over workers, items, connections or clients is used where only
safety is checked.

**Deadlock** is not checked where the system comes to rest (all items done, all
bounds reached); `projection` checks it.

**Old clocks** let a heartbeat extend a lease that has run out, beside the lease
that was granted in its place meanwhile; then more leases are in force than the
limits allow. `ActiveWithinLimits` leaves out just those (`late`) and holds of
all others for clocks of any age; exclusiveness and outcomes hold of all
(`queue_safety`).

## What the runs found

Five runs refute one sentence each of the repository's own documents, comments
or messages. The quotations are under `findings` in `PROJECT.json`.

| Run | The code does |
| --- | --- |
| `projection_stale` | A late text answer that promotes a failed item counts siblings from the read view its plain SELECT fixed, and may write `running` into a job with nothing left to run. |
| `text_answer_lost` | `markProviderFailure` asks for no lease: a worker whose lease was lost while preparing fails the execution its successor has dispatched, whose paid answer is then refused. |
| `inventory_form` | A product form read before a posting and saved after it sets stock, average and value back. |
| `references_lost` | Deleting an item of a draft copied from a published reference version removes the image that both versions name. |
| `manifest_incomplete` | A publication that opened its view before an edit committed validates the old regions and publishes the new ones. |

`back_office` therefore states the properties of the ledger for SKUs that no
late form has overwritten, and `HistoryHasNoGaps` and `ValueTracksAverage` for
SKUs whose entries are filed in the order they were booked: `quantityCorrection`
takes its time before it waits for the SKUs, and the replay starts from the
filing order.

Other disagreements are stated in the modules and refuted when they are checked
there, but have no run of their own:

| Definition | The code does |
| --- | --- |
| `TextExecution.StoredAnswerNotPaidAgain` | After a failed `finalize`, regenerating calls the provider again beside the stored answer. |
| `TextExecution.CompletedHasResult` | A source image that cannot be read completes the item without a result. |
| `ImageExecution.CallsAreAskedFor` | An image attempt that takes over an expired lease makes a new turn and calls the provider again. |
| `CaptureSOPs.UpdateKeepsMultiple` | The view's PATCH resets `allow_multiple` whatever the request says, although `api/openapi.yaml` offers it. |
| `JobCreation.PlatformIsPublished` | `UpdateDraft` changes the template's platform, which jobs of published versions then take. |
| `ProviderSettings.StampProvesConfigured` | A call that ends after the settings were replaced stamps the new ones, against the comment at `image_executor.go:366`. |

Two others are no run's because they are proved:
`AIReferences.DerivativesHideProduct` (`ProductStaysHidden`) and
`ContentTemplates.PublicationsStand` (`WhatIsPublishedStands`).

## Proofs

All theorems hold for every value of the constants that meets the named
assumptions of the modules they extend. Each module has an inductive invariant
that is stronger than what it proves; `TypeCorrect` and the others follow from
it.

### JobQueueProofs

For any number of jobs, items and workers, any limits and any `TTL > Lag`:

| Theorem | Statement |
| --- | --- |
| `TypeCorrect` | `Spec => []TypeOK` |
| `LeasesAreExclusive` | no two workers hold the same item and attempt |
| `OutcomesAreHonest` | completed iff an execution was recorded |
| `JobsShowTheirItems` | the job row is over just when its items are, and says how; `queued` beside others only after `CreateTurn` |
| `LimitsAreKept` | leases in force stay within both limits, but for those a late heartbeat brought back |
| `FreshClocksAreNeverLate` | with `Lag = 0` there are none of these |
| `QueueKeepsPromise` | `JobQueue` implements `FencedClaims` |
| `OneGoroutineEach` | `PoolSpec => []OneGoroutinePerSlot`, for any `MaxWorkerLimit` |

Only `FreshClocksAreNeverLate` assumes anything of `Lag` beyond that. They
assume the four named assumptions of `JobQueue`: each item has a job and each
job an item, pictures are items, the names of "none" are not names, `TTL`
exceeds `Lag`, the bounds are naturals. `IInv` has four layers:

1. `Issued`: types, and a busy worker holds a lease whose attempt number the
   item has reached. Without it a worker might hold a number that `LeaseNext`
   is about to give away.
2. `LeaseExclusive`, from `Issued`: `LeaseNext` gives a number nobody has.
3. `Executed`: `OutcomeMatchesExecutions`, and a worker whose executor
   succeeded left an execution. Without it `Finish` could complete an item that
   has none; and since only the newest lease writes, no execution can appear
   behind a failed item.
4. `Projected`: the job row equals `Aggregate` of its items, or says `queued`
   while a picture waits that was tried before (`PictureWaits`); and no item is
   cancelled, since nothing in the queue cancels one. The second case ends with
   the next count: all who move that picture on, count (`StatusChange`).

Each layer has a lemma per step (`IssuedStep`, `ExclusiveStep`, ...), with one
case per action; `Invariant` joins them. `LimitsAreKept` adds that finitely many
items run, which is what makes counting them mean something; it does not assume
that there are finitely many items. Only `LeaseNext` brings a lease into force
that is not late (`InForceChange`), after it has counted, and what it counts in
an old view takes no lease in force for expired (`Counted`): so no clock delay
has to be assumed away. The refinement maps
each action to `Claim`, `Settle`, `Drop`, `Reopen` or a stutter
(`KeepsPromiseStep`).

The pool of a worker process stands at the end of the module. `PoolInv` says
that the loop's map, the goroutines and the channel of ends fit together: who is
alive has an entry (`Known`), an end is in the channel once (`EndsOnce`) and is
of a goroutine that has left while its entry is there (`EndsAreOfTheGone`), and
who has left has its end there (`GoneHaveEnds`). Without the two in the middle a
second reading of one end could free a slot under the goroutine that was started
there since. That the channel has room follows by counting: the ends in it and
the goroutines alive are different slots (`RoomForEnds`).

### TextExecutionProofs

All that `text_execution` checks, for any number of workers, faults and
regenerations:

| Theorem | Statement |
| --- | --- |
| `TypeCorrect` | `Spec => []TypeOK`, with it at most `1 + regenerations` executions |
| `PaidOnRequest` | at most one call, and one more for each regeneration |
| `DispatchedOnce` | what was called is not called again |
| `UsageRecorded` | usage for the completed executions and no other |
| `ResultsShow` | no failed item beside the results of its newest execution |
| `AnswerStays` | a stored answer is not taken back |

They assume only that the two bounds are naturals. The argument rests on
`ExecutionChange`: a step leaves the executions alone, appends a fresh one
under the lease (`Appends`), or moves one along an arrow of its life cycle
(`MovesOne`), however late its worker is. The invariant has three parts beside
the types: `Located` (a run that needs an execution points to one), `Credit`
(while the newest regeneration is not served, the executions number no more
than the regenerations; the bound on executions alone is not inductive, since
`prepare` decides from the rows and counts nothing), and `Recorded` (a
preparing execution was not called; usage and completion, failure and results,
agree).

### ImageExecutionProofs

All that `image_execution` checks, for any number of workers, faults,
regenerations and revisions:

| Theorem | Statement |
| --- | --- |
| `TypeCorrect` | `Spec => []TypeOK` |
| `ImagesStand` | a result whose commit was acknowledged has its image, a completed item has a result |
| `TurnsStaySingle` | one turn waits at most, and a turn is sent once |

The one assumption is `ImageBoundsAssumption`. The argument rests on
`StepRuns`: a worker's step is a lease, a stop, `prepare`, or a move of one run
that changes its own execution and turn and nothing else, in a table of what
each move keeps and sets. The invariant: `Located` (where a run stands, and that
under the newest lease it works on the newest execution), `Apart` (no two runs
share an attempt or an execution), `OneWaits`, `Stored` (what the bucket and the
rows hold at each step: the image is put before it is recorded, and only a run
whose rows were not seen cleans up), `Unsent` (a turn that waits was not sent,
and a run about to dispatch under the newest lease is the first of its turn).
`Apart` is why a late `fail` or cleanup cannot reach a successor's image.

### JobProjectionProofs

The transactions of one job opened into their statements, for any number of
items, connections and executions, under `TextAssumption` (a job has an item,
text items are items), `ExecutionsAssumption` and `NobodyAssumption` (the holder
of a free lock is no connection):

| Theorem | Statement |
| --- | --- |
| `TypeCorrect` | `Spec => []TypeOK` |
| `QueueIsExact` | what the queue writes into the job row is what the items say |
| `RequeuedRuns` | `Spec => RequeuedItemRuns` |
| `DeadlocksReverse` | every wait cycle goes through regenerate, prepare, dispatch or `CreateTurn` |

`QueueWritesExact` is not inductive: a transaction about to commit must have
counted the truth. `Fits` says, of each connection, which item and whether the
job it holds at each statement (`HasItem`, `HasJob`), what its item still is
(`Before`), and how old its view is: finish and regenerate have none before they
count, so at the commit it is the present. `LeaseNext` may count in an old view,
but its own item runs, and a job with a running item is running whatever the
others do (`RunningAggregate`). Nothing of the kind holds of finalize, which is
why its writes are left out of the property and `NoStaleRunning` fails, or of
`CreateTurn`, which does not count. For the deadlocks, `Fits` says which rows
each statement holds and which it asks for: without the four kinds, whoever
waits asks for a row that comes later in the order than all it holds, and so
does who holds that one, so no circle closes.

### OfficeProofs

For any forms, clients, requests, sources, results, languages, keys, image
calls, ledgers, rates, buckets and syncs, and any number of templates, versions,
jobs, revisions and changes:

| Theorem | Statement |
| --- | --- |
| `TemplatesKeepLifecycle` | `ContentTemplates` implements `VersionLifecycle` |
| `TemplatesShowVersions` | `TemplatesSpec => []TemplateShowsVersions` |
| `WhatIsPublishedStands` | `TemplatesSpec => []PublicationsStand` |
| `KeysAreHonoured` | `Spec => []OneJobPerKey` |
| `RequestsAreServed` | `Spec => []JobsServeRequests`: jobs cover their requests with photographs of the required views, publications are usable |
| `ReviewsStand` | `ReviewSpec => []ReviewedTextStands` |
| `CapabilityStands` | `ProviderSpec => []CapabilityProven` |
| `CostsStand` | `PricingSpec /\ CostSpec => []CostsAddUp` |
| `BooksStand` | `CostSpec => ClosedBooksStand` |
| `OfficesKeepTypes` | all five specifications `=> []OfficeTypeOK` |

They assume `TemplateBoundsAssumption`, `FormsAssumption` (a form comes with a
list of slots), `EntriesAssumption` (its name is there or not, its prompt is one
of four kinds), `RequestsAssumption` (a request has its eight fields, which
`jobRequestHash` covers), `OverridesAssumption` (what is overridden is a
field of the configuration), `ReviewAssumption` (a result is of a job and a
kind, an item is of one job, and some text is valid), `PricingAssumption`
(finitely many metrics, quantities and rates that are not negative, and a bound
on versions of rates) and
`CostAssumption` (a span of days is finite, months are numbered, amounts are
whole numbers of the smallest unit).

Templates: the invariant `Rows` says that versions
are rows of templates that exist; `Entry` maps a row, and lemmas about `Shelf`
show that adding or changing a row adds or changes its entry. `Showing` is
`TemplateShowsVersions` said row by row, which makes it inductive: each
operation changes one row and leaves the other templates alone. `Standing` ties
each row to its publication, and `Kept` says of a step that no publication
changes.

Jobs: `OneJobPerKey` is not inductive alone: an answer must name a job that is
there (`Answers`), callers are in a known state (`Sent`), and `KeysOnce` is the
part about the unique index. `RequestsAreServed` needs the templates too. The
checks are taken by their number (`ChecksRead`); a request that passes them has
slots and canvases that fit and photographs of every view its slots require
(`Passing`), so its items cover it (`ItemsCover`, which needs that of slots with
one key one is taken); one that is
refused for the configuration saw a published version blamed (`Blaming`). That
both stay true while templates change is `Kept` again, and that publication
allows nothing creation calls invalid, but an absent list, is `PublishedPasses`.

Review: that a content has one history does not follow from the histories alone,
for an application writes what it has made of the content it once read.
`Reading` says that whoever holds the SKU has read the content as it is, and is
alone in this; that two results of one job are never applied at once; and that
what is being applied is not applied yet, so a source is new in its history.
`RevisionAdded` then carries the history on by one revision, `ResultChanged`
and `ApplyingChanged` leave it alone (`HistoryStays`).

Settings: `SettingsInv` says that a call in flight has settings, and that it
works with those the row names unless they were replaced under it. What it
stamps at its end is then what it proves. The stamp stays over a change of
models only if the row that was read said the same as the new one, and
`outlived` tells when that row was no longer the one replaced.

Pricing: `PricedIsWhole` speaks of the charges that are there, but a pricing
writes what the charges it once read come to. `PricingInv` says that a ledger
is what *some* of its charges come to (`LedgerHolds`), and that whoever prices
one holds some of them and some of the rates (`IsPricing`). A ledger that counts
as priced has a charge for each metric among those some, and with one charge a
metric (the unique index) they are all there are.

Reconciliation: `CalmSyncBalances` speaks of the end of a sync that nothing
disturbed; `CostInv` of all its way. As long as it is calm it runs alone, and
what it holds is what the tables say (`Settled`): each bucket of its span has
its day still to come, is in hand, is being allocated, or is in order. The
version being allocated has rows for just the jobs it has come to, adds up to
what it has given, and is above every version there is (`HalfAllocated`), so
what broken syncs left is covered by it; the last row takes the rest, which is
why no fact about rounding but that it yields a number is needed. One lemma per
action keeps this; `OneGoesOn` reduces each to the sync that takes the step.
That a closed month stands needs less: the months of a sync were open when it
began (`HasMonths`; all those of the span, `MonthsAreChecked`), and it touches
no bucket out of its span (`TouchedBySync`).

Types: these follow from the invariants above and one more for each office,
about what comes from outside and is handed on before it is written.
`Entered`: templates and versions are what some form had. `KeysKnown`: the key
that is stored, or about to be, was accepted. `RatesInv`: whoever enters a rate
has read no version that is not there, so that versions stay within their
bound. `CostsNamed`: usage, allocations and what a sync has in hand are of jobs.

### BackOfficeProofs

For any editors, uploads, tickets, forms of views, families, SKUs, assets,
writers, requests and tokens, and any bounds:

| Theorem | Statement |
| --- | --- |
| `DraftsAreSingle` | a document that keeps the life cycle has one draft at most |
| `PublicationsNeverChange` | what was published is not edited and is no draft again |
| `SOPsAreWhole` | `SOPSpec => []SOPsStayWhole` |
| `SOPsLive` | `CaptureSOPs` implements `VersionLifecycle` |
| `ManifestsStayInScope` | `FamSpec => WritesStayInScope` |
| `ManifestsLive` | `FamilyManifests` implements `VersionLifecycle` |
| `LivesAreKept` | `SOPSpec /\ FamSpec => LifecycleKept` |
| `ReferencesStaySingle` | `RefSpec => []ReferencesAreSingle` |
| `ProductStaysHidden` | `RefSpec => []DerivativesHideProduct`, for pictures of any size |
| `OfficesKeepTypes` | `Spec /\ SOPSpec /\ FamSpec /\ RefSpec => []OfficeTypeOK` |

They assume `TokenAssumption` (the mark of a picture that came without a token
is no token), `MaskAssumption` and `PictureAssumption` (a mask marks pixels of
the picture, which has some: `neutralizeMaskedProduct` looks at no others),
`OwnerAssumption` (an asset is of a SKU) and, for the types of the stock,
`StockAssumption`. The first two theorems are about `VersionLifecycle`
itself, so that what implements it has them too.

Capture SOPs: `SopInv` has three parts. `VersionsHold` says that the views of a
version have the places 1 to their number, each once, with the front at the
first; that a place is free for each new view, and that the others move up
behind one that is deleted, are lemmas about counting (`PlaceAdded`,
`PlaceDeleted`, `PlacesOrdered`). `PagesHold` adds to `RevisionNamesViews` that
a page, and one half read, is never ahead of its version (`IsPage`): without it
the views read after a row could be those of another revision with the same
stamp. It is kept because a draft only changes with a later revision
(`Onward`), which is what `NextRevision` is for, and a version never becomes a
draft again. `UploadsHold` says that a ticket which is held or has brought an
image is consumed, and is held once or has brought one image (`TicketKept`), and
that what an upload has promoted or a version shows is in the bucket; a late
`AddReferenceImage` can then remove its object without taking another's. Every
step writes nothing, a new draft, or a change of one version (`SopWritten`).

Manifests: `FamInv` says that what a write has seen of a version's family and
SKU is still so, since no write changes either; `ManifestWritten` that a step
writes nothing, a new draft where none is, or a change of a draft, in the scope
of its family at the commit.

For both, `SopWritten` and `ManifestWritten` are what the refinement needs. The
shelf is made of the rows one by one, so a row that is added or changed adds or
changes its entry (`ImageGrows`, `ImageChanges` of `DataFacts`), and the step is
`Create`, `Edit`, `Turn` or a stutter of `VersionLifecycle`.

References: neither half of `ReferencesAreSingle` is inductive. A copy that is
under way counted a version number when there was no draft; `IsRequest` says
that as long as the number is free there still is none, for a draft can only
come by a new version. `TokensKept` is the analogue of `TicketKept`, with the
images a copy under way has read counted as named.

Pictures: what is stored of one is what its mask leaves (`IsDerived`), for
whoever is about to store has found the mask usable (`Brings`), and a token
keeps its mask through all its states (`Carries`). That this hides the product,
and leaves something, is a fact about boxes of pixels alone: a mask lies between
its least and largest column and row (`Spans`), and a usable one leaves a corner
of the picture (`BoxFacts`).

Types: like those of `OfficeProofs`, from the invariants above and what is
handed on: objects keep the numbers they were given (`SopNamed`), a manifest
names dimensions and assets there are, as will what a write or a grant under way
has read (`FamNamed`, `Heard`, `Asks`), a copy takes its text along
(`RefNamed`).

### InventoryProofs

For any finite set of SKUs with any opening stocks, any documents, prices,
charges, corrections and bounds (`StockAssumption`):

| Theorem | Statement |
| --- | --- |
| `InventoryTypeOK` | `Spec => []TypeOK` |
| `StockIsTheLedgers` | stock is the sum of the ledger, and never below zero or its opening |
| `PostedOnce` | posted once, as entered last; a receipt at its worth and charges |
| `VoidsAreLast` | a void undoes the last entry of each of its SKUs |
| `NoGaps` | each entry begins where the one before it ended |
| `ValueFollowsAverage` | value and stock times average stay within half a unit a piece |

Steps are of three kinds, and each is shown to keep the invariant once: a
document is filed (`Proper`: post, void, correct a quantity), a receipt is
costed again (`Recosted`), nothing is booked (`Quiet`). The invariant, beside
the types:

- `Working` and `Matched`: lines name a SKU once and are the entries of their
  row, so that filing a document adds one entry to each of its SKUs.
- `CostsMatch`: the cost of an entry is its line's share; that the shares add up
  is a fact about rounding (`Spreads`), not about the ledger.
- `AddsUp`: the sum itself. It is inductive because a sum over one more entry is
  the sum and the entry (`DataFacts`).
- `StocksFit`: each entry moves the stock by its quantity. A receipt costed
  again needs it, for its replay starts from what an entry had before.
- `Filing`: the filing time of an entry is older than an earlier one's for at
  most one entry at a time, the late correction; later entries are filed after
  both. Without it a replay that starts at an entry could leave out others.
- `StocksFollow` (the stocks of `HistoryHasNoGaps`, in whatever order they are
  filed) and `Voids` (what a void reverses is posted and touches the same SKUs).
- `ValuesNear`: the bound of `ValueTracksAverage` before and after each entry
  too, since a replay starts from any of them.

### Only model-checked

Liveness (`JobsSettle`, `PoolSettles`): fairness and ENABLED are out of the
prover's reach. Theorems of induction cannot be used, since they take an
operator; where sums and maxima are needed, `DataFacts` goes by the smallest
counterexample (`LeastSet`), which is enough for facts about sets and sums.

Every safety property of the passing runs is stated by a theorem, the type
invariants of the two harnesses among them. The sentences of
[the runs that refute one](#what-the-runs-found) are false, and their negations
are for TLC to exhibit.

## Not modelled

`PROJECT.json` gives the reason for each component. Text and prompt formatting,
the provider clients, schema migration, the clients and the shell scripts have
no state that several actors share. Users and sessions, brands and the catalogue
are edits of single rows. The cutover is one transaction run while no worker
runs. Photographs of products (sessions, uploads, provenance) are inputs here:
their approval is `Review` in `FamilyManifests` and `ReviewSource` in
`JobCreation`; their upload runs through the same claim and promotion as a SOP
image. `deleteSKU` would need every table that refers to a SKU.

Within modelled components: the wording of errors and audit, what is in a
result, exchange-rate lookup and validation of bytes are abstracted to the
outcomes the code distinguishes. A request that repeats an idempotency key
changes nothing and is no step of `Inventory`. Deadlocks between documents that
lock SKUs in different orders end in a refusal by InnoDB and write nothing, and
so do those of templates, whose operations are single actions here. A pending
marker left in the bucket by a crash blocks a later upload of the same bytes;
two answers of the provider have different bytes in `ImageExecution`, so the
case does not arise there. A quantity correction of a document that was itself
corrected books the difference to the original; the model does the same
(`QuantityCorrection`) and no property judges it.

## Plan

What is left, in order:

1. Limits that are lowered while leases are in force: `WorkerPool`'s setting in
   place of the constants of `JobQueue`.
2. Selecting an image result and submitting it to the assets
   (`ai/image_results.go`), with the uploads of product photographs, so that
   approval becomes an action of the system instead of an input.
3. `deleteSKU` against the ledger, once the rows that refer to a SKU are
   modelled.
