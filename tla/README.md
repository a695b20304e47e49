# TLA+ verification of omneval

omneval is an LLM observability platform: SDKs export spans, an Ingest API
accepts them, Writers commit them to a DuckLake table store (the Lake), Eval
Workers score sampled spans with a judge LLM, and a Query API serves traces,
prompts, eval rules, datasets and accounts to a Web UI. This directory holds TLA+
models of the services, of the Web UI and of the TypeScript SDK, the TLC
configurations that check them on small instances, and TLAPS proofs for every
instance.

Contents: [inventory](#inventory), [plan](#plan), [modules](#modules),
[runs](#runs), [bounds](#bounds), [fairness](#fairness), [proofs](#proofs),
[known divergences](#known-divergences),
[what is not modelled](#what-is-not-modelled).

## Inventory

### Parts, their state and their operations

| Part | State | Operations | Source |
|---|---|---|---|
| Ingest API | none of its own | accept a batch: stage, enqueue, answer | `internal/handlers`, `services/ingest` |
| Ingest Buffer | S3 objects, one per Batch ID | Stage, Fetch, delete | `internal/buffer` |
| Ingest queue | Redis list and processing list | Enqueue, EnqueueRef, DequeueEntry, Ack, Requeue | `internal/queue` |
| Writer, BatchProcessor | the open window | collect, resolve, commit, mark, ack, enqueue eval jobs | `services/writer/internal/pipeline` |
| Batch Ledger | `committed_batches` | IsBatchCommitted, MarkBatchCommitted | `internal/metadata/*/batch_ledger.go` |
| Reconciliation sweep | a listing | re-enqueue, expire, delete | `services/writer/internal/reconcile` |
| Lake client | an `sql.DB` under an RWMutex | query, insert, ping, delete, reconnect | `internal/lake/lake.go` |
| Quack Server, Table Maintenance | catalog, snapshots, Parquet files | serve, compact, expire, retain, repair | `internal/lake/lakeserver`, `services/quack` |
| Eval queue | Redis list | Enqueue, Dequeue | `internal/queue/redis` |
| Eval Worker | the current job, a prompt cache | dequeue, resolve, judge, retry, post | `services/eval` |
| Score endpoint | none | look up the span, insert the score | `services/writer/internal/handler` |
| Prompt Registry | versions, labels, a cache per replica | create, label, resolve, invalidate | `services/query/internal/handler/prompt*.go` |
| Auth | keys, sessions, a key cache | validate, revoke, resolve a project | `internal/auth`, `services/query/internal/auth` |
| Datasets, eval rules | records that refer to each other | create, import, list, delete | `services/query/internal/handler/{dataset,eval_rule}.go` |
| Dataset runs | runs and their scores | run, list, status | `services/query/internal/handler/dataset_run.go` |
| Admin | projects, keys | delete keys, traces, a project | `services/query/internal/handler/admin.go` |
| Span queries | none | compile DSL, build SQL, paginate, segment | `services/query/internal/{dsl,querybuild,query,spansegment,cursor}` |
| Web UI, shell | page, project list, active project, localStorage | check the session, log in and out, navigate, switch | `ui/src/App.tsx`, `ui/src/components` |
| Web UI, pages | lists, forms, dialogs, requests under way | fetch, create, delete, page, poll | `ui/src/pages` |
| TypeScript SDK | pending spans, prompt caches | start, end, flush, export; get and write prompts | `sdk/ts/src` |
| Metadata stores | SQL tables | one statement per method | `internal/metadata` |
| Harness, probes | signal context, checks | run, drain, stop; probe | `internal/harness`, `internal/probe` |
| Translation, pricing, config, Go and Python SDKs | none, or third-party | pure functions and I/O | `internal/{otlp,normalizer,pricing,config}`, `sdk` |

### How they interact

    SDK -> Ingest API -> S3 (object) and Redis (Batch ID)
    Redis -> Writer -> ledger lookup, S3 fetch -> Lake commit -> ledger insert -> ack
                    -> eval queue -> Eval Worker -> Prompt Registry, judge LLM -> POST -> Writer -> Lake
    sweep (in every Writer) : S3 listing + ledger -> Redis (re-enqueue) or S3 (delete)
    every service's Lake client -> Quack Server -> catalog and Parquet files
    Web UI pages, SDK clients -> Query API -> metadata store, Lake
    an agent -> SDK label cache -> Query API label cache -> metadata store

Nothing here is transactional across two stores. S3, Redis, the metadata store
and the Lake are each called on their own, every call may fail with or without
having been applied, and there may be several replicas of each service.

### What is hard

- *Replicas and sweeps on one batch.* The ledger is read when a batch is
  resolved and written after the commit; a sweep may enqueue the batch again or
  delete its object in between.
- *Failure between two calls.* Object without reference, rows without ledger
  entry, ledger entry without ack, an entry on both Redis lists or on none.
- *Recovery by the sweep alone.* Nothing reads the processing list back.
- *Reconnects under load.* A call replaces the handle that others are using.
- *Retries, shutdown and caches* of the Eval Worker.
- *Caches with a time to live* for prompts and API keys, against changes that
  are made while a lookup is on its way.
- *Overlapping requests of a page.* Answers arrive late, out of order, or after
  the filter, the project, the page or the dialog that asked for them is gone;
  most pages neither number nor abort their requests.
- *Loops of requests*: an import in batches, ten dashboard requests on a few
  workers, polls of running runs and live traces, exports that overlap.
- *References between records*: a rule names a prompt version, a run names a rule
  and a dataset, while somebody else deletes or creates them.
- *Maintenance and deletion* against writers that have not yet committed.

`PROJECT.json` lists them as hazards, each at its line, with the property that
covers it or the reason why none does.

### What makes each part correct

- Ingest: a batch answered 202 is in the buffer or committed, and is eventually
  committed; an uncommitted object is never deleted; an entry is acked only
  when it is committed or back on the queue; the buffer drains.
- Writer: the ledger never names a batch whose rows are missing; eval jobs
  refer to rows that exist.
- Lake client: a call under the lock uses an open instance; none is leaked; the
  client heals after a restart of the server; every call returns.
- Eval: the retry bound holds; a pinned prompt version is the one used; no score
  is repeated without a failure; no job blocks a worker.
- Prompt Registry: a version never changes; a label that moved reaches every
  agent within the two cache lifetimes and the requests under way.
- Keys: a revoked key stops working within the cache lifetime, whichever page
  revoked it.
- TypeScript tracer: an ended span is never lost, an open one never sent, and
  a span is in the trace of its parent as long as all its ancestors are open.
- Web UI: what a page shows belongs to what is selected; loading and polling end;
  pages of a list neither overlap nor skip; the active project is a listed one;
  what is revoked is what the user confirmed.
- Evaluations: an import is a prefix of its file; a stored rule resolves; a run
  shown as complete is complete, and one that ended is not shown as running.

## Plan

Done: `DurableLog`, `IngestPipeline`, `EvalScoring`, `LakeClient`,
`PromptRegistry`, `TracerSDK`, `ApiKeys`, the pages and their compositions
`Explorer`, `Accounts` and `Workspace`; proofs of every safety property that a
passing run checks.

Left, in this order:

1. A composition of a project's deletion with `IngestPipeline`: batches that are
   on their way while the project is deleted.
2. `Maintenance`: the loop of the Quack Server, snapshots and orphaned files.
3. The segmentation of a trace against a reference definition.

## Modules

| Module | What it is |
|---|---|
| `DurableLog` | abstract specification: a submitted batch is pending until stored, never lost |
| `IngestPipeline` | Ingest API, buffer, queue, ledger, Lake rows, Writer replicas and their sweeps; properties; refinement mapping; inductive invariant |
| `IngestPipelineProofs` | theorems about `IngestPipeline` |
| `EvalScoring`, `EvalScoringProofs` | eval queue, Eval Worker replicas with their prompt cache, judge, score endpoint |
| `LakeClient`, `LakeClientProofs` | the shared Lake handle, Go's RWMutex, reconnect, restarts of the Quack Server |
| `PromptRegistry` | versions and labels in the store, a cache per Query API replica, the TypeScript client's caches, writers that race |
| `TracerSDK` | `ManualTracer` and `SpanExporter` of the TypeScript SDK |
| `SDKProofs` | theorems about what clients of the SDK rely on: `PromptRegistry` and `TracerSDK` |
| `KeyParameters`, `ApiKeys` | key store and `CachingValidator`; the specification of keys on which the pages act |
| `AppShell` | `App.tsx` with Login, Header and Sidebar |
| `SettingsPage`, `AdminPage` | the two pages that create, revoke and delete, with their handlers |
| `Accounts`, `AccountsProofs` | composes `AppShell`, `SettingsPage`, `AdminPage` and `ApiKeys` |
| `TracesPage`, `TracesPageProofs` | the Traces list and the keyset-paginated query behind it |
| `TracePanel`, `DashboardPage`, `Explorer`, `ExplorerProofs` | the trace overlay with its live polls, the Dashboard with its request batch, and their composition |
| `DatasetsPage`, `DatasetRuns` | list, create, import and delete; runs on the server and in the page of a dataset |
| `EvalRulesPage`, `PromptsPage` | the two pages with their handlers |
| `Workspace`, `WorkspaceProofs` | composes the four pages over one Metadata Store |
| `MC*` | the same modules with the definitions that the `.cfg` files need |

A definition named `X_Something` or `MutantX` above `X` is a plausible bug in `X`;
no specification uses it. A run whose `X` is replaced by it must violate the
property that `PROJECT.json` names, which shows that the property has teeth.

### IngestPipeline

A batch is its ID. `objects`, `queue`, `processing` and `ledger` are the
Ingest Buffer, the two Redis lists and the Batch Ledger; `lake` holds how many
times the rows of an entry were inserted ("none", "once", "several"). A Writer
replica is its `pc`, the entry it resolves (`cur`), its window (`pending` in the
code) and the index of the loop over it; a sweep is what is left to look up
(`todo`), the object found uncommitted (`cur`) and the ones to delete (`del`).

One action stands for one call to an outside store together with the code up to
the next one, because that is where replicas interleave and where a crash can
strike:

- `Stage`, `EnqueueRef`, `EnqueuePayload`: `StagedQueue.Enqueue`, and the inline
  enqueue of a replica without a buffer;
- `Dequeue`, `DequeueMalformed`, `Lookup`, `Fetch`, `CloseWindow`:
  `collectAndCommit` and `resolveEntry`;
- `CommitLake`, `RequeueEntry`, `Mark`, `EvalSpans`: `commitBatch`;
- `SweepList`, `SweepUncommitted`, `SweepExpired`, `SweepSkip`, `SweepEnqueue`,
  `SweepDelete`: `reconcile.Worker.Run`;
- `Crash`, `RedisRestart`: the environment.

`Spend(n)` counts failures. A call fails before or after it was applied wherever
the store can do that: a lost reply of BLMOVE moves the entry, a failed INSERT may
have been applied once or (by the retry in `lake.InsertSpans`) twice.

Clocks are abstracted: any listed object may be past the grace period or its
retention, and a window may close at any time. This over-approximates the code,
so the safety results do not depend on the configured periods. The flush deadline,
byte size (`MaxWindow`) and idle timeout only decide when `CloseWindow` happens.

### EvalScoring

A job goes from `evalQ` to a worker (`pc`, `job`, `attempt`), its prompt version
comes from the worker's `cache` or from the registry (a pinned version, or the
`label` of the moment), the judge answers (`verdict`), and `req` is the POST with
the Writer's handler working on it, which goes on when the worker has given up.
`Marshal` and `Decode` keep the JSON field names of the two sides. `Stop` cancels
the context of a replica, after which each of its calls may fail; `Kill` loses
what it holds. `cache` entries may expire at any time.

### LakeClient

`handles` are the DuckDB instances opened so far with the incarnation of the
Quack Server each one is attached to; `db` is `l.db`. `readers`, `announced` and
`writer` are the RWMutex. A caller of the `Retrying` kind (query, exec, insert,
ping) reconnects and retries once when `isStaleConn` says so, which it also does
for a cancelled request; a `Single` caller (one row, delete) does not; an
`Unlocked` one (`SpanStartTime`) does not take the lock at all, and may get
"database is closed". A failed reconnect closes the fresh instance and leaves
`l.db` alone. A reconnect's ten seconds are an attach that may fail at any time.
A query ends at its RUnlock: rows it returned are read later, by `database/sql`.

### PromptRegistry

`template[v]` is the stored text of version `v`, named after its author; `label`
is the version the label points to and `lastHeld[v]` when it last left `v`.
`labelCache` and `versionCache` are the `PromptCache` of each Query API replica,
`sdkLabel` and `sdkVersion` those of `OmnevalClient`. A `getPrompt` that misses is
a `call` with four steps (`GetPrompt`, `CacheHit` or `ReadStore` and `FillCache`,
`GetPromptReturns`): the store is read with no lock held, so a label may move and
be invalidated in between. A create or a reassignment is a `writer` that checks,
inserts, labels and invalidates, on one replica only. Time is explicit (`now`); a
hop takes at most `MaxFlight` ticks.

### TracerSDK

`pending` and `ended` are the tracer's map, `received` what the Ingest API got.
`Flush` takes the ended spans, awaits the export, and `ExportSucceeds` drops from
`pending` what that flush had taken; `ExportFails` (refusal, error, timeout, also
after delivery) leaves them. Two flushes may have taken the same spans. `InitSDK`
is called once.

### AppShell, SettingsPage, AdminPage, Accounts

One variable per request under way: `me` (session check), `login`, `logout`,
`lists` (fetchProjects), `newProject`; `fetches`, `dialog` and `revoking` in
Settings; `runs` (fetchAll), `loading` and `deletion` in Admin. The client's
sending, the server's handler and the client's continuation are separate actions,
so other steps come in between, and a `...Fails` action is a refusal, an error or
a lost answer. `Render` is what React does to a page when the page or the active
project changes: effects run again, or the page is unmounted and what it has under
way goes on without it. `localStorage` may fail at every read and write and the
shell swallows that: a failed read is "nothing stored", a failed write or removal
leaves what was there (`StoredItems`, `Persist`; `unsaved` is a history of the
latter). `PopState` is back and forward, which lead from the Login page to the
address of a trace and to no other page. `Accounts` takes `Render` of both pages with every step of
the shell. The server resolves projects, sessions and keys as the handlers do.

### TracesPage, TracePanel, DashboardPage, Explorer

`requests[n]` is the request with sequence number `n` (`requestSeq`); rows carry
the query they were fetched for, so that `FreshRows` can compare them with the
selection. The server's page is `PhaseOne` (newest traces of the project beyond
the cursor, whatever the filters), `MainRows` (the filters) and `Page` (the cut
and the cursor). `Rank` counts the rows that come before one in the ORDER BY; the
LIMIT is a bound on it and `OrderBy` lists a set by it. The panel's effect has an
`AbortController`, which its cleanup aborts together with the interval: `Effect`
drops what is under way. The Dashboard's batch runs `Widgets` requests on `Concurrency`
workers (`workerCount` of them start with a request) and is applied as a whole,
or rejected. `Explorer` has one active project
for both and the overlay above whatever page is on screen.

### DatasetsPage, DatasetRuns, EvalRulesPage, PromptsPage, Workspace

Each page keeps its rows, the view that stands in for them (loading, error,
ready), its form and its requests. `creates` runs `handleCreate` and the import
loop; when it ends it navigates, wherever the user is. `posts[r]` is the request
that starts run `r` with `HandleRun` inside it (`CheckRun`, `CreateDatasetRun`,
`ScoreItem`, `FinishRun`); `Disconnect` cancels its context. `HandleListRuns`
reads runs and counts items in two steps, and ignores an error of the second:
`ReadItems` is any part of the items that were scored, and `whole` in a row is a
history of whether it was all of them. `wanted[d]` records the active project
for which a dataset was created. `Workspace` gives every page the references of
the others (a dataset or rule that a run names is not deleted) and re-renders all
of them with a step of the shell.

## Runs

Passing runs:

| Run | Instance | Shows |
|---|---|---|
| `pipeline_safety` | 2 replicas that both sweep, 1 batch, 2 faults | `Durable`, `LedgerSound`, `NotFoundIsCommitted`, `JobsFollowRows`, `UncommittedNeverDeleted`, `AckedOnlyWhenSettled`, and `DurableLog` is implemented |
| `pipeline_live` | 1 replica, a batch without spans, a payload and a malformed entry, 1 fault | `BufferDrains`, `AckedOnlyWhenSettled` of mixed windows, and `DurableLog` with its liveness |
| `eval_scoring` | 1 replica, 3 jobs (pinned, labelled, unresolvable), 2 faults, 1 SIGTERM | retry bound, pinned versions, no repeated score, no blocked worker |
| `lake_client` | 2 retrying, 1 single, 1 unlocked caller, 1 restart, 1 fault | `LockedCallsUseOpenHandle`, `NoLeakedHandle`, `ReconnectNeverOlder`, `SelfHeals`, `CallsReturn` |
| `sdk_tracer` | 4 spans that may nest, 2 overlapping exports | `EndedNeverLost`, `OpenNeverExported`, `OpenFamilySharesTrace` |
| `prompt_registry` | 1 replica, 2 lookups, 2 writers, 2 versions, 3 ticks | `ReassignmentReachesAgents`, `VersionsImmutable` |
| `traces` | 4 traces of 2 projects, 2 filters, 2 page sizes, 3 requests | `FreshRows`, `EmptyMeansAnswered`, `PagesContiguous`, `LoadingEnds` |
| `explorer` | 2 traces of 2 projects, 2 ranges, 3 widgets on 2 workers | `PanelShowsItsTrace`, `DashboardShowsSelection`, `LiveEnds` |
| `accounts` | 2 projects, 1 key, 3 user actions, 2 instants | `RevokedKeyRefused`, `ActiveProjectKept`, `RevokedAsConfirmed` |
| `workspace` | 1 dataset, 1 rule, 1 run, 2 batches, 2 versions, 1 fault, 2 user actions | `ImportIsPrefix`, `PromptsResolve`, `ShownCompleteIsFull`, `EndedRunIsShown` |

Runs that find a sentence of the documentation, a comment or a test violated
(details and quotations under `findings`):

| Run | Says | What happens |
|---|---|---|
| `eval_verdict` | the score is the judge's | the worker sends `score`, the Writer reads `value`: 0 is stored |
| `project_switch` | the switcher reaches any project of the organisation | prompts, rules and datasets are read and written in `projects[0]` |

## Bounds

- One batch is enough for the races on it: batches meet only in a window, where
  the loops treat entries one by one; `pipeline_live` mixes three entries, and
  the theorems hold for any number.
- `MaxWindow = 2` lets a batch occur twice in a window, or share it.
- `MaxQueue` bounds the queue at which the sweep waits with its next enqueue (in
  the code it does not); 2 lets two copies queue while a third is held.
- `MaxFaults = 2` allows a failure and a failure of the handling of it. The
  theorems hold for any number.
- In `eval_scoring`, `Retries = 1` has a first, a last and no middle attempt;
  `MaxVersion = 2` lets the label leave the pinned version; replicas share only
  the queue, from which a job is popped atomically, so one is enough.
- In `lake_client`, two retrying callers make redundant reconnects; one restart
  and one more fault can fail or repeat any of them.

- In `sdk_tracer`, four spans make a root, a child, a grandchild and a stranger;
  two flushes are what it takes to overlap.
- In `prompt_registry`, `ServerTTL = SdkTTL = MaxFlight = 1` makes every expiry
  happen within `MaxTime = 3`; `MaxWrites = 2` lets two writers race or a create
  meet a reassignment; `Asks` are the label and the version they race for. The
  theorems hold for any of these.
- In `traces`, `MaxSeq` counts the requests of one mounted page: a first page, its
  continuation and one that supersedes either.
- In `explorer`, `Polls` bounds the polls under way (one; overlapping polls are in
  the theorem only) and `MaxRefresh` the changes
  of the Dashboard's selection, two of which supersede each other.
- In `accounts`, `MaxActions` counts what a user does; answers are not counted.
  `Lists`, `Fetches`, `Runs` and `Checks` bound the runs of one function that are
  under way together: one of each, which still overlap with all the others.
  `MaxClock = TTL = 1` has a revocation, a lifetime and an arrival after it.
- In `workspace`, `Tours` are the pages one user visits (prompts and rules, or
  rules and datasets), `MaxActions` counts creations, changes, deletions and
  project switches, `MaxFaults` lost connections, failed polls and reads that
  break off. `Registries`
  starts with version 2 only, so that the numbers up to the latest have a gap.
  `Fetches = {1, 2}` lets a list of a poll overlap with one of the tab;
  `Creates`, `Lists`, `PromptLists`, `RuleLists`, `LabelChanges`, `Polls` and
  `MaxLoads` are 1.

Symmetry is used where no liveness is checked: replicas in `pipeline_safety`,
spans and flushes in `sdk_tracer`, callers and writers in `prompt_registry`.

Deadlock is not checked where the bounds end a behaviour: a user who has spent
`MaxActions` and whose answers have arrived has nothing left to do.

## Fairness

- Writer and sweep loops keep taking steps (weak fairness): both are loops
  without exit as long as the process runs, and a crashed replica is restarted.
- The listing finds every object again and again, and a committed object
  eventually past its retention (strong fairness of `SweepList` and
  `SweepExpired`): the ticker repeats and objects only grow older.
- Nothing is assumed of failures but that they stop (`MaxFaults`).
- Eval Workers and the Writer's handlers keep running; nothing is assumed of the
  judge: its call may fail at any attempt.
- In `LakeClient`, operations end, a reconnect ends
  within its time limit, the Quack Server is restarted, and callers keep
  calling: the readiness probes ping the Writer's Lake and the Query API's
  `ProbeLake` (`server/wire.go` of both). The Query API's own `lk` is not probed;
  there `SelfHeals` rests on users who query, and as long as nobody does it stays
  stale. `SF(Announce)` is the FIFO order of Go's mutex between writers.
- In `TracesPage`, every request is answered, fails or is aborted (the 30-second
  AbortController); in `Explorer`, the panel's interval ticks and its twenty
  minutes pass; in `Workspace`, the tab's interval ticks and its requests and the
  server's handlers end. All are timers of the browser or requests with an end;
  nothing is assumed of what the user does.

## Proofs

`IngestPipelineProofs` proves, for any sets of batches, payloads and replicas, any
window size and any number of failures, from the named assumption
`ConstantsAssumption` only:

| Theorem | Statement |
|---|---|
| `Invariance` | `Spec => []IInv` |
| `TypeCorrect` | `Spec => []TypeOK` |
| `Durability` | `Spec => []Durable` |
| `LedgerSoundness` | `Spec => []LedgerSound` |
| `NotFoundSafe` | `Spec => []NotFoundIsCommitted` |
| `JobsSafe` | `Spec => []JobsFollowRows` |
| `GCSafe` | `Spec => UncommittedNeverDeleted` |
| `AckSafe` | `Spec => AckedOnlyWhenSettled` |
| `Refinement` | `Spec => ImplementsDurableLog` |

The argument. Call a batch *recoverable* while its object is in the buffer or its
ID in the ledger. The ledger only grows and the sweep deletes only what it found
in the ledger, so a recoverable batch stays so; that is `DeletesCommitted` and the
reason why the age of a sweep's lookups does no harm. `Durable` alone is not
inductive: a stale reference could be dropped as "not found" while nothing says
that its batch was ever staged. So `RefsRecoverable` extends the claim to every
copy of a reference, on the queue, with a writer, in a window or in a sweep, and
`RequestsRecoverable` to requests that have staged and not yet answered.
`WindowStored` carries the fact that the Lake commit succeeded through the loop
over the window, and gives `LedgerSound` and `JobsFollowRows` when an entry is
marked or its spans are sampled. `LoopsInRange` keeps the loop index inside the
window. `IInv` is their conjunction, and each action preserves it by a lemma of
its own.

For `AckSafe`, the only steps that shrink the processing list are an ack (of a
committed batch, or of one whose object is gone, hence committed), a requeue (whose
entry is on the queue by then) and a Redis restart.

For `Refinement` the mapping sends a batch to "stored" if it is in the ledger, to
"pending" if it only has an object, and to "lost" if a request that staged it is
not recoverable; by `IInv` the last never happens, and each step changes the
status or the answer of one batch as `DurableLog` allows, or of none.

`LakeClientProofs`, for any callers of the three kinds, restarts, cancelled
requests and failed attaches, from `ConstantsAssumption`:

| Theorem | Statement |
|---|---|
| `Invariance` | `Spec => []IInv` |
| `OpenHandles` | `Spec => []LockedCallsUseOpenHandle` |
| `NoLeak` | `Spec => []NoLeakedHandle` |
| `NeverOlder` | `Spec => ReconnectNeverOlder` |

A call holds a pointer that it read from `l.db`, so that the pointer's instance is
open follows only from what the lock excludes: `LockInv` says that a reconnect
runs alone and that the readers are the operations under way, `HandleInv` that a
reader's pointer is still `l.db` and that nobody holds the instance a reconnect is
attaching. `GenInv` compares incarnations: an instance that waits to be swapped in
was attached to the server of the moment, hence is no older than `l.db`.

`EvalScoringProofs`, for any jobs, replicas, retry count, failures and stops, from
`ConstantsAssumption`:

| Theorem | Statement |
|---|---|
| `Invariance` | `Spec => []IInv` |
| `CallsBoundedTheorem` | `Spec => []CallsBounded` |
| `PinnedVersionTheorem` | `Spec => []PinnedVersionUsed` |
| `ScoredOnceTheorem` | `Spec => []ScoredOnce` |

The three rest on `OnePlace`: a job is not enqueued yet, once on the queue or with
one worker. `CallsPaid` then relates the calls made for a job to the attempt its
worker is at, `PromptOfJob` says that the cache entry under the pinned version's
key holds that version, and `RowsAnswered` that rows appear only with the answer to
the one POST of a job.

`SDKProofs` is about two specifications that share nothing but the client, which
is why `TracerSDK` calls its specification `TracerSpec`. It proves of the tracer,
for any finite set of spans and any flushes, from `SpansAssumption`:

| Theorem | Statement |
|---|---|
| `EndedNeverLostTheorem` | `TracerSpec => []EndedNeverLost` |
| `OpenNeverExportedTheorem` | `TracerSpec => []OpenNeverExported` |
| `OpenFamilySharesTraceTheorem` | `TracerSpec => []OpenFamilySharesTrace` |

The first two are not inductive alone: what a flush drops after its await is what
it had taken, so the invariant says that the spans of an export under way were
ended when it took them and that an export counts as successful only after
delivery. The third is about `findTraceId`, which climbs from a span to its parent
as long as it finds one in memory. `Iteration` shows that the recursive function
that models the climb exists and satisfies its equations, `WalkStays` that it
stays among the open ancestors and keeps their trace; both argue by a least
counterexample (`NatMinimum`, from the well-foundedness of `<` on the naturals),
which needs no induction schema. `FamilyInv` adds that open spans are in memory.

And `PromptRegistry`, for any replicas, callers, writers, versions and lifetimes,
from its `ConstantsAssumption`:

| Theorem | Statement |
|---|---|
| `ReassignmentTheorem` | `Spec => []ReassignmentReachesAgents` |
| `VersionsImmutableTheorem` | `Spec => []VersionsImmutable` |

The age of a label's version is bounded at each place it passes: when the store
is read it is 0; in the request that fills the cache at most one hop; in the
replica's cache at most a hop and what has passed of `ServerTTL`; in the reply one
hop more; in the SDK's cache what has passed of `SdkTTL` more. `AgeInv` states
these bounds, and each step of time or of the label keeps them. For immutability
`TextInv` says that every copy of a text on its way is the stored one, which the
unique key keeps when two creates have both passed the existence check.

`AccountsProofs`, for any keys, projects, requests and validations under way and
any lifetime, from the three assumptions of `KeyParameters` and
`ProjectsAssumption`:

| Theorem | Statement |
|---|---|
| `StoreTheorem` | `Store!Spec => []Store!RevokedKeyRefused` |
| `RevokedKeyRefusedTheorem` | `Spec => []RevokedKeyRefused` |
| `RevokedAsConfirmedTheorem` | `Spec => RevokedAsConfirmed` |
| `ActiveProjectKeptTheorem` | `Spec => []ActiveProjectKept` |

The property of keys is proved of the small specification `ApiKeys` and carried to
the pages by the lemma `UsesStore` (`Spec => Store!Spec`), which is no result of its
own: the pages act on the store through its operations. In `ApiKeys` the strengthening is `EntriesDie`: a
validation that has found the key arrived no later than the revocation, and a cache
entry of a revoked key expires at most a lifetime after the revocation, because its
lifetime counts from the arrival. For `RevokedAsConfirmed` each step that stamps a
key is traced back to the dialog that sent it: the Settings page names the project
that is active at the click, which need not be the one whose keys are on screen,
and the handler's check is what keeps the two apart. For the active project, `ShellInv` says that every list on
its way is a list of projects, which makes the first project of one that is not
empty (a least number, by `NatMinimum`) a listed one, whatever `localStorage`
answers; that `localStorage` holds it is claimed only while the last write did not
fail.

`TracesPageProofs`, for any finite set of traces, any filters, page sizes and
number of requests, from `ConstantsAssumption` (trace numbers stand for the
order of span IDs, the empty filter matches every trace, a page is not empty):

| Theorem | Statement |
|---|---|
| `Invariance` | `Spec => []IInv` |
| `FreshRowsTheorem` | `Spec => FreshRows` |
| `EmptyMeansAnsweredTheorem` | `Spec => []EmptyMeansAnswered` |
| `PagesContiguousTheorem` | `Spec => []PagesContiguous` |

`OrderBySorts` shows that `OrderBy` lists each row once and in order, and
`PageIsSound` what a page then promises of the traces that were stored when it was
read: rows in order, none skipped before the last one. `LatestInv` says that the
request with the current sequence number, and only that one, asks what the page
asks now and continues the list on screen, so that its answer may be appended
(`PageChain`). `ListInv` ties the cursor to the last row. `ChainInv` is
`PagesContiguous` for the list of any project, also one just left behind: without
that a switch back would not be covered.

`ExplorerProofs`, for any traces, projects and ranges, any widgets, workers,
refreshes and polls under way, from `NoTraceAssumption` and `RefreshAssumption`:

| Theorem | Statement |
|---|---|
| `Invariance` | `Spec => []IInv` |
| `PanelShowsItsTraceTheorem` | `Spec => []PanelShowsItsTrace` |
| `DashboardShowsSelectionTheorem` | `Spec => []DashboardShowsSelection` |

`PanelInv`: every request of the panel that has not failed, and its answer, is for
the trace and the project that the panel is open for. `DashInv`: the refresh with
the current sequence number is for the selected project and range, and every
request of a running refresh is answered in its own slot, awaited by a worker, or
still to be taken (`Covered`), and a worker rests only when none is left; so when
all workers rest, all slots hold their answers.

`WorkspaceProofs`, for any datasets, rules, versions, runs and projects and any
requests, polls and lost connections, from `DatasetsAssumption` (the two values
that stand for no dataset and for a deleted one are neither datasets nor records):

| Theorem | Statement |
|---|---|
| `Invariance` | `Spec => []IInv` |
| `ImportIsPrefixTheorem` | `Spec => []ImportIsPrefix` |
| `PromptsResolveTheorem` | `Spec => []PromptsResolve` |
| `ShownCompleteIsFullTheorem` | `Spec => []ShownCompleteIsFull` |
| `CompleteStaysTheorem` | `Spec => [][CompleteStays]_vars` |

`RegistryInv`: versions are only ever added, so what was looked up stays there.
`ImportInv` is why an import is a prefix: a dataset that is being imported belongs
to one run of `handleCreate`, and the store holds as many batches of it as that run
has been through (`Committed`), so the batch that `HandleAddItemsBatch` appends is
the next one; a failure ends the run before it could go on. `ServerInv` ties the
loop of `HandleRun` to its record: it is the record's only writer, the record
appears with the loop, and as long as no item failed the scores stored are those
of the items before `next`; so `complete` is written only with all of them there,
and then nothing is written again (`CompleteStays`). `TabInv` follows an answer of
`HandleListRuns` on its way to the tab: a row says complete only of a complete run,
and because the items are counted after the statuses are read, its count is theirs
if all of them were read.
Each step is shown to keep the four parts one after the other: `TabNext` uses what
`ServerNext` shows, and `ServerNext` needs from `DatasetsInv` that a stored dataset
has a number of items.

Only model-checked: liveness (`BufferDrains`, `ImplementsLiveDurableLog`,
`JobsAreScored`, `WorkersComeBack`, `SelfHeals`, `CallsReturn`, `LoadingEnds`,
`LiveEnds`, `EndedRunIsShown`), because the prover has no fairness.

## Known divergences

Places where the models show that a comment or a document promises more than the
code does, besides the two runs above:

- A batch may be inserted twice with nothing failing: the sweep enqueues a batch
  that sits in an open window again (`reconcile/worker.go:124`; the comment at
  line 6 says the ledger dedupes it). So it may after an `InsertSpans` that was
  applied although it failed, which its retry or the requeue repeats.
- An inline payload held by a writer that crashes stays on the processing list,
  which nobody reads (`queue/redis/redis.go:81` says it is never dropped).
- One failed score POST drops the score (`CONTEXT.md:82` promises retries), and
  SIGTERM cancels the job in flight (`CONTEXT.md:174` promises to finish it).
- A ping does queue behind a slow query once a reconnect waits for that query's
  lock (`lake.go:986`).
- A label change is seen by an agent after up to the two lifetimes together, not
  one, and other replicas of the Query API are not invalidated.
- `OmnevalClient` of the TypeScript SDK sends no API key with `getPrompt`
  (`client.ts:313`), although the route demands a key or a session.
- A filtered trace list may skip matches: the page of trace IDs is cut before the
  filters are applied (`query.go`, `phase1Where`), so a page may be empty while
  older traces match; `PagesContiguous` is about unfiltered lists.
- Traces that start in the same instant may be repeated or skipped between two
  pages: the ORDER BY sorts their span IDs upwards, the cursor predicate goes on
  with smaller ones (`query.go:776` and `778`); `PagesContiguous` leaves them out.
- Deleting a project removes its rows and revokes its keys but leaves the project
  in the list (`admin.go:205` says "Deletes a project").
- A dataset run whose client goes away stays "running" for ever.
- A run listed as complete may show fewer items than it has, or 0, and a mean score
  of those: `HandleListRuns` ignores the error of `ListDatasetRunItems`
  (`dataset_run.go:351`), which returns the rows it had read so far.
- Where `localStorage` fails (`App.tsx:117`), a reload forgets the active project,
  and a logout leaves it for the next user, whose list it is checked against. A
  list of projects that arrives after the logout writes it again.
- Back or forward to `/traces/{id}` leaves the Login page without a session
  (`App.tsx:200`): the page shows, its requests are refused.
- A key whose dialog is closed while it is being generated exists and was seen by
  nobody; the list is fetched at the closing, before the key may be there, so it
  appears with the next fetch only.
- A span whose parent was flushed before it started gets a trace of its own
  (`tracer.ts:174`); `OpenFamilySharesTrace` is about parents that are still open.
- On the pages without sequence numbers (Settings, Admin, Datasets, Prompts, Eval
  Rules) a late answer for another project or an older list may be shown.

## What is not modelled

- The direct pipeline of a Writer without a buffer: it promises nothing when an
  insert fails. Table Maintenance: what a pass does is DuckLake's code.
- Costs, rule matching and sampling: any subset of a window's spans may yield
  jobs. A batch that the Lake rejects every time: failures are transient here.
- Contents: JSON, OTLP translation, prompt text, SQL, CSV parsing, charts, formats.
- In the Web UI: Conversations, Playground, the dialogs that save spans to a
  dataset, the version diff, the rule preview, the Items tab, the expanded results
  of a run, the waterfall and span detail. They display what one request returned.
- Users, invitations and passwords; bookmarks.
- Go and Python SDKs (third-party batching), benchmark, QA scripts, deployment.
