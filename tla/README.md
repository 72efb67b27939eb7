# llm-obs in TLA+

llm-obs collects traces of LLM calls: a Python SDK buffers spans and posts them, a FastAPI
service accepts them idempotently and queues them in Redis, taskiq workers store them in
PostgreSQL and S3, and around that core stand alerting, retention, API keys and the
administration of organizations. This directory models the parts of it that keep state and
share it between concurrent actors, checks them with TLC on small instances and proves with
TLAPS, for instances of any size, that the ingest endpoint implements an abstract promise and
that every other component keeps the safety properties its passing runs check. Where the
repository's documents promise more than the code gives, the promise is a definition too, and
[a section of its own](#promises-the-code-does-not-keep) gives TLC's counterexample.

Contents: [the system](#the-system), [modules](#modules), [runs](#runs), [promises the code
does not keep](#promises-the-code-does-not-keep),
[bounds](#bounds), [fairness](#fairness), [proofs](#proofs), [what the models
showed](#what-the-models-showed), [not modelled](#not-modelled), [plan](#plan).
To repeat a run: `tlc -config X.cfg MCX`; to repeat the proofs: `tlapm M.tla` for `M` each of
`IngestApiProofs`, `OutboxProofs`, `SpanProofs`, `SdkProofs`, `RetentionProofs`,
`AlertsProofs`, `AccessProofs` and `PricingProofs`.

## The system

| Component | State it keeps | Operations | Where it is hard | What makes it correct |
|---|---|---|---|---|
| SDK tracer (`sdk/llm_obs/tracer.py`, `transport.py`) | bounded deque, pending batches with their keys, counters, flush task | record, flush, send with retries, shutdown, exit hook | send is awaited between pop and push back; a lost answer; cancellation | spans are accounted for, one idempotency key per span, oldest first |
| Ingest API (`api/v1/ingest.py`, `services/ingest.py`) | `idempotency_records`, batch status in Redis, the task queue | reserve, reopen, create status, enqueue, commit, fail | five separate writes to three stores; equal requests at once; crashes between writes | a 202 names a batch that was enqueued, a key makes one batch, no record stays PENDING behind a finished handler |
| Span worker (`workers/process_span.py`, `services/span_metric_buckets.py`) | spans, traces, metric buckets, payload objects | process batch, aggregate trace | overlapping transactions on a trace, retries after a commit, partly bad batches | buckets count each span once, a processed batch is stored, one row and exact totals per trace |
| Retry and dead letters (`core/taskiq.py`, `workers/dlq.py`) | retry label of a message, DLQ | on_error, handle_failed_task | a message is popped before it is done | a batch whose message is not lost ends processed or on the DLQ |
| Outbox (`services/outbox.py`) | `outbox_events` | enqueue with the spans, claim, publish, mark | concurrent claims, failure in the middle of a claim, back-off | exclusive claims, bounded publishes, final marks; a waiting row is delivered or given up |
| Alerts (`process_span.py`, `services/notifications.py`, `anomaly.py`) | rules, events, cooldown keys | scheduled check, anomaly check, edit a rule | a copy of the rules is used while they change; cooldown checked and set apart | one notice per task, silence explained by an event, a rule that triggers notifies |
| Retention (`workers/maintenance.py`) | what it deletes: objects, spans, traces | payload batch, row batch, stale traces | S3 between two transactions, partial deletes, late spans | rows go after payloads, only expired rows and their payloads go, expired data does go |
| API keys (`core/auth.py`, `api/v1/projects.py`) | key rows, Redis cache of 60 s | authenticate, create, revoke, rotate | cache filled from a row read earlier, invalidated after the commit | a withdrawn key is refused, a live one accepted |
| Organizations (`api/v1/users.py`, `auth.py`, `projects.py`) | users, memberships, invites | register, invite, accept, change role, delete, assign | the caller's role is read before the transaction; counts are not locked | an admin remains, an invite is used once, members belong, registration closes |
| SDK wrappers (`sdk/llm_obs/__init__.py`, `decorators.py`, `integrations/`) | two context variables per asyncio task, the module-level tracer, a flag per stream | enter and leave a wrapped call, iterate or close a stream, spawn a task, shut down | streams that end in another task or not at all; cancellation; a tracer made again while one closes | one span per call, spans form trees |
| Pricing (`services/cost.py`, `api/v1/pricing.py`) | `model_pricing`, one cached interval per model in Redis, intervals of a batch | create, edit, end; lookup through batch, Redis, table | a cached interval outlives the edit; lookups between an edit's commit and its invalidation | a span is charged a price that was listed for its time |
| Console queries (`services/trace_service.py`, `api/v1/traces.py`, `services/metrics_service.py`) | none: they read what workers write | paged list, detail, dashboards | two pages, or two statements, see different states | paging misses nothing, a detail is whole, panels agree |
| Rate limiter, failed tasks, live stream, health, metrics, migrations, frontend | see `PROJECT.json` | | | [not modelled](#not-modelled), or in part |

Interactions. The tracer calls the ingest API with one key per batch. The ingest API writes a
Redis message that a worker pops; the worker stores spans and, in the same transaction,
outbox rows, then enqueues the aggregation, anomaly and delivery tasks. While it prepares the
spans it looks their prices up; the console reads the rows while they change. Cron labels ask
for delivery, alert checks and retention; the deployed scheduler loads only the last. Retention deletes what workers insert. Ingest and query
requests pass the API key cache or a user's session. The shared state is PostgreSQL (READ
COMMITTED), Redis and S3; no lock spans two of them.

## Modules

Each component is one module; its `MC` module gives the constant functions their values and
its `.cfg` the rest. `PROJECT.json` maps every definition to its lines. Definitions named
`X_...` and commented "Seeded fault" are broken versions of `X`, used to show that a property
can fail; no specification uses them.

**IngestApi.** A request is a program counter `pc[r]`; `rec` is the row of
`idempotency_records` of a key, `enqueued` the messages sent, `batchStatus` the Redis key. Actions follow the
handler: `Arrive`, `RateLimited`, `ReserveInsert` / `ReserveExisting` (INSERT ... ON CONFLICT,
then SELECT), `Reopen` (the UPDATE that follows that SELECT), `CreateAccepted`, `Enqueue`,
`MarkFailed`, `FailRecord`, `CommitRecord`. `DbError`, `DbAckLost` (the commit took place and
its answer was lost) and `Crash` may strike between any two of them. A payload is its hash;
a request without a key skips the record.

**IdempotentIngest** is what the endpoint promises, without handlers, rows and awaits: when a
batch may go to the workers and what each answer means at the moment it is given. 202 names a
batch the workers have, made for the same key and body; "conflict" needs another body under
the key; "in progress" needs another open or broken-off request; a key gets a second batch
only after a recorded failure. `IngestApi` implements it (`ImplementsIdempotentIngest`) under
the mapping `asked` = the key and body of a request that has arrived, `queued` = `enqueued`,
`reply` = `answer`, `failed` = `everFailed`; the record, the batch status and every program
counter are hidden, and the steps on them stutter.

**Outbox.** `status`, `attempts` and `ready` (available_at has passed) of each row; a delivery task is `wpc[w]` with the
rows it claimed. `StartDelivery` is `claim_pending` (oldest due rows, `SKIP LOCKED`, one
transaction), `Publish`, `MarkDelivered`, `MarkFailed` the loop body, which leaves the loop at the first
failure as the code does. `CronTick` is the schedule, enabled only where `Scheduled`,
`BackoffElapses` the passing of `available_at`.

**SpanWorker.** A worker takes a message off the list (gone from Redis at that moment),
prepares spans (payload to S3, its failure swallowed), then one transaction: `InsertSpans`
(ON CONFLICT DO NOTHING waits for a transaction that inserts the same id),
`LookUpTrace` per trace without a lock, `Commit` with trace rows, buckets by minute and outbox rows;
then `PostCommit` and `Finish`. `OnError` is the retry middleware, `HandleFailedTask` the DLQ
task. The aggregation task is two actions, because its one UPDATE counts as of its start
(`CountSpans`) and writes when it has the row (`UpdateAggregates`). History variables:
`raced`, traces whose row was written by a look-up that was no longer true at the commit;
`crossed`, traces of which two aggregate statements overlapped; `uncounted`, traces of which an
aggregate task was lost since the last count; `dropped`, batches whose message was lost.

**SpanQueries** composes the worker with a console reader. A listing is `OpenList` and one
`ListPage` per request, with the `(started_at, id)` cursor of `list_with_cursor`; a detail is
`OpenDetail`, `FindStart` (only without `started_at`), `ReadRow`, `ReadSpans`; a dashboard is
`OpenDashboard` and one `QueryPanel` per statement; each of the queries (`overview`,
`cost_by_model`, `error_fingerprints` ...) is a definition of its own that says which spans it
counts, how it groups them (`Coalesce` for NULL, the fingerprint of an error) and what its LIMIT drops. Each is one SELECT under READ COMMITTED, so the
worker steps in between.

**SdkTracer.** `buffer`, `pending`, `inflight`, the counters, and the flush task's place.
`Record`, `BeginFlush` with `PopNextFlushBatch`, the four outcomes of a send
(`SendOk`, `SendRejected`, `SendRetryable`, `SendUnexpected`, each but the first with or without the
API having accepted the batch where the transport cannot know), `Shutdown`, `FlushedAll` and `Exit`.
asyncio interleaves only at awaits, so code between two awaits is one action.

**SdkClient** composes the tracer with the application above it: calls of `@trace` functions,
manual spans, patched clients and their streams, in asyncio tasks that copy the context of
their parent. `BuildSpan` and `EnterCall` set the context variables, `EndCall`,
`ReturnStream`, `Iterate`, `EndIteration` and `CloseStream` are the ways a call ends, and
`TracerForRecord` and `ShutdownModule` are `get_tracer` and `shutdown` of the package.

**Pricing.** One provider and model. An admin call writes (`UpdatePricing`, `EndPricing`, or the
UPDATE and the INSERT of a create call, which are two actions), scans (`ScanKeys`) and deletes
(`DeleteKeys`), and Redis may fail in either; a batch looks a time up in its
own list, in Redis (`CacheGet`), in the table (`ReadTable`) and fills the cache (`CacheSet`);
no error of these is caught (`cost.py:43-44`), so each may end the batch's task.

**Retention.** `run_data_retention` for each project: `cutoff` from the `retention_days` read
at the start, payload batches (select, S3 delete with partial refusals, row delete), rows
without payload, stale traces. Worker deliveries of late spans interleave (`ipc`).

**Alerts.** Tasks copy the rules (`todo`), evaluate, check the cooldown, send to Slack, send the
email, set the cooldown and record the event, a step each. Rules are edited meanwhile, their
destinations too. `StartScheduled` is enabled only where `Scheduled`. The statistics cache of anomaly
detection may be old: the model reads the statistics of any situation.

**ApiKeyCache.** A request is `LookUp`, `Load`, `Store` with a Redis or database call each;
an admin call commits and then deletes entries (`Invalidate`). `left` is the remaining time to live of an
entry.

**Organization.** A call is authenticated (`Authenticate`: role and organization are read
once), then opens its transaction with its checks and row lock (`Begin...`), then commits
(`Commit...`). A unique address, the foreign keys and the cascade of PostgreSQL are guards and effects of the
commits. Refusals change nothing and are one action.

Abstractions that hold everywhere: contents of spans and payloads are identities; times are
small integers; log lines, Prometheus counters and audit rows (written in the same
transaction, read by nobody) are left out.

## Runs

Passing runs, with their distinct states (each takes at most three minutes on two cores):

| Run | States | Shows |
|---|---|---|
| `ingest_api` | 470,000 | three requests for one key with two bodies (and without key), database errors, lost commit answers, crashes: `AcceptedWasEnqueued`, `OneBatchUntilFailure`, `PendingIsOwned`; the handlers implement `IdempotentIngest`; `EveryReservationResolves` |
| `outbox` | 63,000 | two tasks, two rows, all faults: claims exclusive, publishes bounded by attempts, no mark undoes another task's (`MarksAreFinal`) |
| `span_worker` | 1,530,000 | three batches of a trace on two workers, with database and Redis errors, lost commit answers, errors after the commit, failing aggregate tasks and crashes: `BucketsMatchSpans`, `ProcessedMeansStored`, `StoredSpanIsComplete`; one row per trace at the earliest start unless a look-up was outdated (`TraceRowIsStable`), totals that wait for nothing are exact unless statements overlapped or a task was lost (`AggregatesConverge`), an unresolved batch has its message or lost it (`BatchIsAccountedFor`) |
| `span_queries` | 2,653,000 | two workers with transient and S3 errors, and a reader: a listing shows every row that was there throughout (`PagingMissesNothing`), a detail every span that was there when it was asked for (`DetailShowsWholeTrace`), the panels of a dashboard count the same spans (`PanelsAgree`) |
| `sdk_tracer` | 33,000 | five spans, a buffer of three and an API that takes two, all faults: spans accounted for, `pending_spans` exact, one key per span, order, and `ShutdownEnds` |
| `sdk_client` | 2,091,000 | a `@trace` function, a manual span and a stream in two tasks over a tracer that is shut down and made again: `OneSpanPerCall`, `SpanTreeIsSound` |
| `pricing` | 721,000 | two batches and an admin over two rows, with Redis and database errors: `PriceWasListed`, `SettledPriceIsRight`, `StaleIsExplained` |
| `retention` | 182,000 | one night and the next over two projects, with a refused object, an outage and a late span: `SpansKeepTheirTrace`, `DeletionIsSafe`, `ExpiredRowsGo` |
| `alerts` | 203,000 | a windowed and an anomaly rule, two overlapping tasks, an edit or a change of load, two faults between any two steps: `OneNoticePerTask`, `SilenceIsExplained`, `AnomalyIsNotified` |
| `api_keys` | 566,000 | two requests, two admin calls, one Redis failure: `WithdrawnKeyIsRefused`, `LiveKeyIsAccepted`, `WithdrawalTakesHold` |
| `organization` | 1,025,000 | two calls from the empty database, four possible accounts, two organizations, one invite: `OrgKeepsAdmin`, `InviteUsedOnce`, `MembersBelong`, `ClosedRegistration` |

One run ends in a counterexample. `ingest_reopen_race` checks `OriginalBatchReturned`
(README 257-258, "return the original `batch_id` without enqueueing another batch"): two
retries of a failed key both read FAILED, both reopen the record and both enqueue.

## Promises the code does not keep

Further statements of the repository that the code breaks, each as a definition of its module.
They are not runs of the project; TLC refutes each one on the instance named here, which is a
passing run's `.cfg` with its INVARIANT and PROPERTY lines replaced by the definition and the
changes of the third column.

| Property | What is said | Instance | Counterexample |
|---|---|---|---|
| `EventuallyResolved` | "Retryable failures stay in `outbox_events` for scheduled retry" (`docs/delivery-guarantees.md` 25-26) | `Outbox.cfg`, `Faults = {"publish"}` | the first failed publish raises (`process_span.py:533`) and leaves the other rows of the claim PROCESSING, which no claim selects, although the task is scheduled |
| `EventuallyResolved` | "At-least-once through outbox retry" (`docs/delivery-guarantees.md` 52) | `Outbox.cfg`, `Faults = {"crash"}` | a worker dies after its claim is committed (`outbox.py:90`); the row stays PROCESSING |
| `EventuallyResolved` | the same lines | `Outbox.cfg`, `Scheduled = FALSE`, `Faults = {"publish"}`, one event, `Limit = 1`, `CHECK_DEADLOCK FALSE` | as deployed (`infra/docker-compose.yml:111`, `docker-compose.prod.yml:103` load only `maintenance` and `health`), the retries end before the back-off does and no cron starts the task |
| `TraceRowIsEarliest` | "Trace identity is stabilized by earliest known start time" (`docs/delivery-guarantees.md` 49) | `SpanWorker.cfg`, `Faults = {}` | two transactions look a new trace up before either commits (`process_span.py:450`); it gets two rows |
| `TotalsCatchUp` | totals "can lag until aggregate and outbox workers run" (`docs/delivery-guarantees.md` 56) | `SpanWorker.cfg`, `Faults = {}` | of two overlapping aggregate statements (`process_span.py:553`) the older count is written last |
| `BatchResolves` | queue to worker: "At-least-once" (`docs/delivery-guarantees.md` 48) | `SpanWorker.cfg`, `Faults = {"crash"}`, no `SYMMETRY` | a worker dies with the message it has popped (`core/taskiq.py:80`) |
| `EventuallyDelivered` | services "can rely on the background transport" (`docs/sdk-integration.md` 150-151) | `SdkTracer.cfg`, `SpecWilling`, `Faults = {}` | the buffer (500) drains into a batch larger than the API takes (100, `schemas/ingest.py:98`), which is retried first for ever (`tracer.py:195`), while the API accepts all it is able to |
| `TriggeredRuleNotifies` | "Scheduled tasks evaluate windowed alert rules" (`docs/delivery-guarantees.md` 27-28) | `Alerts.cfg`, `Scheduled = FALSE` | as deployed, no scheduler has loaded the check (`process_span.py:634`) |
| `EditsClearTheCache` | "pricing edits clear cached entries" (README 370-371) | `Pricing.cfg`, `RedisFails = FALSE` | a lookup caches (`cost.py:78`) after the edit's deletion what it read before the edit |
| `NewPriceClosesPrevious` | "adding a new price ... closes the previous active interval" (README 367-369) | `Pricing.cfg`, `Admins = {a1, a2}`, `Workers = {w1}`, `MaxEdits = 2`, `RedisFails = FALSE` | two create calls do not see each other's row (`pricing.py:96-129`); both intervals stay open |
| `YoungPayloadStays` | retention deletes "old span payload objects" (`docs/runbooks.md` 151); `test_retention.py:269` deletes only the expired duplicate | `Retention.cfg` | rows of one span id share an object (`storage.py:160`); the expired one's deletion takes the younger one's payload |
| `TraceRowsOutliveSpans` | retention "removes trace rows that no longer have spans" (`docs/runbooks.md` 152-153) | `Retention.cfg` | a trace row is deleted (`maintenance.py:127`) under a transaction that has found it |
| `AdminAlwaysRemains` | "Organization must keep at least one admin" (`users.py:385`) | `Organization.cfg` | two calls that each take one of two admins both count two (`users.py:373`) |
| `RegistrationStaysClosed` | "After the first user exists, registration stays closed" (README 103-104) | `Organization.cfg` | two bootstrap registrations both count no user (`auth.py:52`) |

A passing run says what the code does give in the same place. Its property carries an
exception for exactly that interleaving, kept in a history variable, so that everything else
is still checked: `raced`, `crossed`, `uncounted` and `dropped` in `SpanWorker`, `skewed` and
`raced` in `Organization`, `restored` and `overlapped` in `Retention`, `overlapped` and
`lateFill` in `Pricing`. Three exceptions have no promise in the table, because no document says
otherwise: `tainted` in `ApiKeyCache` (a request caches a key that was revoked after it read
it; `WithdrawalTakesHold` bounds it), `unrecorded` in `Alerts` (the event could not be
stored), `lost` in `SdkTracer` (a batch in flight when shutdown cancels the flush task). The type
invariant a module states holds in its run too; only that of `IngestApi`, which is proved, is
listed in a `.cfg`.

## Bounds

- `ingest_api`: the third request is what tells "two retries" from "a retry and its original";
  two bodies give the hash conflict. One key suffices because keys share nothing, which the proof
  confirms. Every request arrives once, so the system stops: no deadlock check.
- `outbox`: two rows is the smallest claim with a row behind the failing one; `MaxAttempts`
  and `MaxRetries` 2 reach "given up" and "last retry" (the code has 5 and 3).
- `span_worker`: two batches share a span (a client's repetition), the third is
  independent; the earliest start comes last in some orders; one span never passes
  preparation; spans of different starts fall into one minute. S3 errors, which the worker
  swallows, are left to `span_queries`; every other fault may strike in any combination.
- `span_queries`: two batches on two workers; transient and S3 errors only, since the reader sees
  nothing of the others but rows. One window and one cutoff, with spans on either side of each. A page of one row makes every listing turn pages while
  rows move, `GroupLimit` 1 makes the grouped queries drop a group, and a period that begins
  inside a bucket (`Cutoffs`, `Interval`, `BucketSize`) tells aligned from unaligned series.
  Two error texts have one fingerprint, one model and one provider are NULL.
  One reader suffices: readers write nothing.
- `sdk_client`: three calls nest two deep beside a second task. The buffer is larger than
  the number of spans because overflow is `sdk_tracer`'s question.
- `pricing`: two times and two rows give adjacent and overlapping intervals; two lookups let
  a batch use its own list after Redis or the table. With two workers one can refill the cache that an
  edit has just emptied. With two admins and one worker `StaleIsExplained` passes too (461,000
  states). Symmetry over prices and workers is sound: the properties are invariants.
- `sdk_tracer`: a buffer of three with five spans overflows while a batch is in flight;
  `MaxBatch` is below `BufferSize`, as 100 is below the default of 500.
- `retention`: a batch of two rows, so that a batch can be partly refused and a project needs
  more than one; the clock passes the cutoff of the youngest row. With `Runs = {1, 2}`,
  `Retentions = {2}` and without `ExpiredRowsGo` it also passes for overlapping nights
  (1.6 million states).
- `alerts`: the windowed rule has both destinations, the anomaly rule one, so that a failed or a
  missing second one can follow a success; an edit can add it. The busy window lies above one
  threshold and not above the other; a batch has a slow and an ordinary span.
- `api_keys`: two legacy hashes and one additional key; `TTL` 1 suffices because only "expired
  or not" is observed.
- `organization`: two accounts share an address, so that one can be deleted and invited
  again; two more make two organizations with an invite between them. Roles below admin
  behave alike here, so one stands for both. The supply of ids ends: no deadlock check.
  Symmetry is sound: these are invariants and the permuted values occur in no other constant
  asymmetrically.

## Fairness

- Handlers, workers and tasks that were begun and not killed keep running (`WF` of the step
  of each process): asyncio runs every ready coroutine. A crash disables the process's steps.
  Faults are never fair and most are bounded.
- `Outbox`: `SF` for a delivery task, since another may take its rows first and a claim may
  meet a database error; `WF` for the schedule, where `Scheduled`, and for the back-off (time
  passes). Only `EventuallyResolved` uses it, and its first two instances grant
  even the schedule that the deployment does not have.
- `SpanWorker`: `WF` of a worker and of the DLQ task; only `BatchResolves` uses it.
- `SdkTracer`: `WF` of the flush task and of a POST, which ends at the latest with its timeout:
  `ShutdownEnds` needs no API that accepts. `EventuallyDelivered` is refuted even with `SF` of `SendOk`
  (`SpecWilling`), an API that accepts all it is able to.
- `Alerts`: `WF` of a task that runs. `SF` of `StartScheduled` matters only where `Scheduled`;
  `AnomalyIsNotified` does not rest on it (its task has read the rule already), and
  `TriggeredRuleNotifies` is refuted without a schedule, as deployed.
- `Retention`: `WF` of a run's steps, its start included: `app.workers.maintenance` is loaded
  by the deployed scheduler.
- `ApiKeyCache`: time passes and requests end. Nothing is assumed about admin calls: their
  invalidation may never happen, and expiry must make up for it.
- `SpanQueries` has the fairness of the worker and none for the reader.
- `Organization` and `Pricing` have safety properties only.

## Proofs

`IngestApiProofs` proves, for every set of requests, keys and bodies and under all faults,

- `IngestTypeOK`: `Spec => []TypeOK`;
- `IngestAcceptedWasEnqueued`: every 202 names a batch on the queue with the same key and body;
- `IngestOneBatchUntilFailure`: until a key's record has failed, at most one batch is
  enqueued for it;
- `IngestPendingIsOwned`: a PENDING record belongs to a handler that works or was cut off.

Assumptions: `IngestAssumption` only (`NoKey` is no key, `None` no request and no body, the
faults are those of the model). None of the three is inductive. The invariant `IInv` adds
`HandlerInv` (what a handler at each place has and has not done yet),
`RecordInv` (a PENDING or COMMITTED row names a request with its key and hash, a COMMITTED
one names an enqueued batch, a FAILED one is remembered),
`ReservationInv` (a handler that owns a key, or is about to reopen it, finds its row with its
own hash; only failed keys are reopened) and
`SoleOwnerInv` (while a key has never failed, the row names the only request that enqueued
for it or owns it). The last is the heart: it cannot be kept once a key has failed, which is
exactly the reopen race. `IngestInductive` proves `IInv` inductive, one step per action. TLC
agreed with `IInv` before it was proved.

The same module proves `IngestImplementsPromise`: `Spec => ImplementsIdempotentIngest`,
that is `Spec => Promise!Spec`, from the same assumption. `IInv` does not say what a client
has been told, so `AnswerInv` adds it: an unfinished or crashed handler has not answered, an
aborted one answered 500, a batch is not on the queue before its handler's `Enqueue`, and the
hash in a row, a FAILED one included, is the body of some request with that key (without which a
"conflict" could not be justified). `NextRInv` proves the conjunction inductive, `InitRefines` and `NextRefines` that
the initial state and every step map to the promise's. The mapping is
where each part of `IInv` is used: `SoleOwnerInv` in `Enqueue` (no second batch), `RecordInv`
in the replay of a COMMITTED row, `PendingIsOwned` in "in progress".

The other proofs follow the same pattern: an inductive invariant that TLC checked on
the run first, a lemma per action, and theorems that read the properties off it. Each holds
for every value of the constants that satisfies the named `ASSUME` of its module. Three of these
say more than types: `OutboxAssumption`, that the events of an instance are finitely many (so
that row numbers are numbers), `WorkerAssumption`, that a batch is finite, and
`RetentionAssumption`, that the spans of a trace belong to one project and that a worker puts
a payload under the prefix of its span's project.

`OutboxProofs`: `ExclusiveClaims`, `BoundedPublishes`, and the action property `FinalMarks`. `TaskInv` says that a task works on one
row of its claim; `PaidInv` that a claimed row its task has not come to has been charged an
attempt that no publish has used yet. Without it a row that one task failed and another
claims could be published beyond its attempts.

`SpanProofs`, about `SpanWorker` and `SpanQueries`:

- `BucketsAreExact`, `SpansAreComplete`, `ProcessedIsStored`: for any workers and faults. The
  heart is `TxnInv`: what open transactions have inserted is disjoint from what is stored and
  from each other, and what a transaction did not insert is stored already; that is what
  makes `BucketCounts` add up (by the cardinality of disjoint unions) and what makes a retry
  after a commit harmless. `SeenInv` (a trace whose row a worker has seen keeps having a row)
  covers the UPDATE that matches no row any more: a stale look-up leaves the trace with a row,
  if not the right one. `TaskInv`, `PreparedInv` and `FiniteInv` carry the batch along.
- `BatchesAreKept`: `Spec => []BatchIsAccountedFor`, for any batches, retry limit and faults. It
  is inductive with `IInv` and `IdleInv` (an idle worker holds no message): `OnErrorAccounts` has what
  the middleware does with a message, `OnlyOneTouched` that a worker's step concerns its batch alone.
- `OneRowPerTrace`: `Spec => []TraceRowIsStable`, for any number of workers and all faults: a
  trace of which every transaction committed while the row it had looked up was still the
  first has exactly one row. The excepted traces (`raced`) are those that refute `TraceRowIsEarliest`.
- `CountsConverge`: `Spec => []AggregatesConverge`, for any number of workers and whatever is
  lost and retried. `AggregateInv`: a row whose count is out of date is being written the right count, or
  something will count again (`Pending`: a task waits, or a worker is about to enqueue one), or
  its task was lost since the last count (`uncounted`).
- `DashboardAgrees`: `PanelsAgree` for any workers. It needs that rows are never taken away
  while a request runs, that a span of the period falls into a bucket of `generate_series`
  (`SeriesCovers`, arithmetic of `\div`), and that a group which is missing was cut off by the
  LIMIT (`CutOffByLimit`).
- `DetailIsWhole`, `ListingIsComplete`: for any number of workers and traces outside `raced`,
  whose rows only move to earlier starts. `ListInv`: a trace that was there and has not been shown lies after the cursor, and once
  the listing has ended, before the window. The lemmas about `Page` (its rows are the first,
  it has a last row, the last page is everything that is left) hold for every page size.

`SdkProofs`, about the tracer and the application above it, for any number of spans, calls
and tasks, any `BufferSize`, `MaxBatch` and `MaxAttempts`, and every combination of faults:

- `AllSpansAccounted`, `OneKey`, `InOrder` rest on `TracerInv`. `OrderInv`: buffer and
  batches are increasing and what has left the buffer is older than what is in it. `KeyInv`: a
  span has no key while it is in the buffer, afterwards that of its batch, which a failed batch
  keeps. `DeliveryInv`: of a batch the API has accepted all or nothing (a lost
  answer leaves an accepted batch to be sent again). `CountInv`: at most one batch has left the
  buffer, so `pending_spans` is its size, and `dropped_spans` counts what the full deque pushed
  out. `AccountInv`: every span is somewhere. `DeliveredInOrder` alone is not inductive: a full
  deque drops its oldest span and a failed batch goes back, so the order of all four places has to be known.
- `CallsRecordedOnce` adds `RecordInv`: `CallInv` says which end of a call recorded, the
  wrapper or the stream it returned; `ModuleInv` that the module's tracer is not being closed and
  that the spans of the first tracer are the calls recorded with it.
- `TreesAreSound` adds `TreeInv`: the running wrappers of a task enclose each other (`Nested`),
  each will restore the context of the one around it, the outermost of the main task the
  empty context (`Rooted`), and every context in use or kept to be restored names an entered span of its trace (`Sound`).
- `ClientImplementsTracer`: every step of the wrappers maps to a step of `SdkTracer` or
  changes none of its variables; `ClientTracerIsSound` carries the three properties over.
  Only safety is transferred: the composition has no fairness.

`RetentionProofs`, for any number of projects, rows, overlapping runs and late deliveries:

- `SpansHaveTraces`: `TraceInv` adds the deliveries that have found a row and not committed yet. A stale
  trace row has no stored span, because all spans of a trace are of one project; the row
  a delivery has found may go, and then its trace is in `overlapped`.
- `DeletesSafely`, an action property: `ShortestInv` and `RunSafe` say that a run works
  with periods its projects have had, so that its cutoff stays early enough while the clock
  advances and periods change, that its batch was older than that cutoff, and that an object S3 reported deleted
  can be there again only if a delivery stored it since. No run needs to know of another.
  What is proved of an object is that it is the payload of an expired row of the deleting
  run's batch and under its project's prefix; that no younger row refers to it is not true
  (`YoungPayloadStays`).

`AlertsProofs`: `OneNotice`, `SilenceExplained`. `CooldownInv`: whoever notified a rule did so in
the cooldown that still runs; `KnownInv`: tasks and cooldowns name only rules that exist or existed.

`AccessProofs` has the proofs of `Organization` and of `ApiKeyCache` (whose specification is
`KeySpec`, so that both modules can be extended together).

`WithdrawnRefused`, `LiveAccepted`, from `KeyInv`: `RotationInv` has the lock of the project's row
(the entry a rotation will delete is that of the key in use), `CacheInv` that a dead key
whose deletion neither failed nor is still to come is in no cache entry and in no
request's hands, `RequestInv` what a request may conclude from that.

`MembersDoBelong`, `InviteOnce`, `KeepsAdmin`, `RegistrationCloses`, for
any number of concurrent calls. `CallInv` is what a handler has read that its locks and the
unique keys keep true until it commits, `ApartInv` that two calls never hold the same row,
`RowInv` that an invite names projects of its organization, `AdminInv` that but for the
recorded race one call at a time takes an admin and another admin remains, `RegisterInv` the
same for registrations.

`PricingProofs`: `ListedPrices`, `SettledPrices`, `StaleExplained`. `ListedInv`: every
interval in Redis, in a batch's list or about to be cached gives only prices the table has
given (`Sound`), if rows never overlapped; `SettledInv`: for a settled batch every such
interval is a row now; `StaleInv`: a stale interval is still to be found or deleted by an
edit, or came back late. The proof of `SettledPrices` showed that its former exception for
late fills was not needed, so the property is stated without it. `PriceAt` picks the
greatest `valid_from`: that a finite set of numbers has a greatest element is proved from
the well-foundedness of strict inclusion (`GreatestExists`), since the induction theorems of the library
take an operator and cannot be instantiated.

Only model-checked:

- liveness (`EveryReservationResolves`, `ShutdownEnds`, `AnomalyIsNotified`,
  `WithdrawalTakesHold`, `ExpiredRowsGo`): fairness and ENABLED are out of this prover's reach;
- counterexamples are TLC's; nothing is proved of the promises they refute.

## What the models showed

Besides these counterexamples, modelling the code brought up the following.

- A crash between reservation and commit leaves the record PENDING; later requests with the
  key get 409 until somebody edits the table. `PendingIsOwned` names that case.
- An error after the commit, or in an aggregate task, loses the aggregation for good: the task
  has no `retry_on_error` label, and a retried batch inserts nothing and so enqueues none
  (`uncounted`). The next batch of the trace makes up for it.
- The DLQ queue is consumed by no service of `infra/docker-compose.yml`; the models assume that
  one does (`DlqConsumed`), and a batch counts as ended once it is on the queue.
- A failed payload upload is swallowed (`services/storage.py:183`); the span is stored without key.
- Shutdown cancels the flush task; a batch in the middle of its send is lost, though the API
  may have accepted it (`lost`).
- An error that `transport.py` does not catch ends the flush task, which runs again only if `start()` is called again.
- A manual span that is left in another task than it was entered in loses its record: the
  reset of its token raises first (`decorators.py:66-69`).
- A request that read a key before its revocation may cache it after the invalidation; it is
  accepted for up to 60 s more.
- Retention: a full batch of rows whose payloads cannot be deleted blocks younger rows of the
  project.
- Alerts: a rule that is deleted while its notice is under way ends the task at the event's
  foreign key, with the task's other rules unchecked.
- Pricing: a backdated price is inserted with `valid_to` NULL, so that its interval, once
  cached or kept by a batch, also covers times at which a later row takes precedence; a test
  (`backend/tests/integration/test_cost_service.py:274`) expects the latest `valid_from`. `PriceWasListed` and
  `SettledPriceIsRight` exclude overlapping rows for this reason (`overlapped`). The README
  (370) speaks of cache keys with the interval; the code has one `:active` key per model.
- Queries: the `model` filter of the trace list names a column that `traces` does not have; a
  detail asked for without `started_at` may answer 404 when the worker moves the row between
  its two statements (`ReadRow` models it); the analytics and series leave out spans up to
  five minutes in the future that the overview counts, so `PanelsAgree` compares panels of
  one range.
- A dead-lettered batch cannot be sent again with its key, as `docs/runbooks.md` (543-544)
  advises: its record is COMMITTED, so the answer is the original batch and nothing is enqueued.
  The failed-task retry refuses every row the code writes, since the stored summary has no
  spans.

## Not modelled

`PROJECT.json` lists every component with its reason. Whole components: health probes and the
heartbeat, Prometheus metrics, logging and configuration, the audit log (no state that an
operation reads back), migrations (their constraints are in the models), the frontend, the
CI gates under `scripts/`. Parts of modelled components:

- Rate limiter: a request is admitted or refused freely; the sliding window is one MULTI/EXEC
  per request with no state between two steps.
- OTLP: the mapping of attributes; the batch it makes takes the path of a request without key.
- Live stream: publishing is in `Outbox`; the queues of the subscribers (which drop when full,
  and stay registered when a response generator never starts) are not.
- Failed tasks: the row is stored (`HandleFailedTask`); resolving sets a flag only the listing
  reads.
- Retention: creation and removal of partitions (`maintenance.py` 148-298), which is DDL.
- Alerts: resolving an event.
- `SdkClient`: a `start()` that is still scheduled when shutdown begins (`__init__.py:23-29`), two
  spans of one task that are left in the order they were entered, one `ManualSpan` entered twice,
  error texts, captured chunks.
- `Pricing`: normalisation of names, the multiplication by tokens.
- `SpanQueries`: the status filter, payloads in a detail, ranking by cost or latency, and the
  response caches of the metrics endpoints (30 to 300 s each in `api/v1/metrics.py`), behind
  which panels of different requests may disagree.

## Plan

1. Done: `IngestApi` with proofs, `Outbox`, `SpanWorker`, `SdkTracer`, `Retention`, `Alerts`,
   `ApiKeyCache`, `Organization`.
2. Done: the promise of the endpoint and its refinement (`IdempotentIngest`, proved), the SDK above the
   tracer (`SdkClient`), prices and their cache (`Pricing`), the console's queries beside the
   worker (`SpanQueries`).
3. Done: proofs of every safety property a passing run checks, and the refinements of
   `IdempotentIngest` by `IngestApi` and of `SdkTracer` by `SdkClient`.
4. Done: the promises of the documents that the code does not keep, and the
   properties of `SpanWorker` and `SpanQueries` for any number of workers.
5. Left for the models: partitions, the subscriber queues of the live stream, a `Pipeline` of
   tracer, ingest and worker behind one abstract delivery specification.
