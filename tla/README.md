# A verification project for HenKaiPan (ASPM)

HenKaiPan runs security scanners over repositories, deduplicates what they
find, aggregates it into vulnerabilities and keeps people informed. It is two
Go processes, an API (`cmd/api`) and any number of workers (`cmd/worker`),
around PostgreSQL (the truth), Redis (the Asynq task queue, caches, rate
limits, a pub/sub channel) and external services (scanners, AI providers,
webhooks, SMTP).

Almost every repository method is a single SQL statement that commits on its
own. The handlers string several of them together, without transactions, in
processes that crash, restart, time out and run beside each other. That is
where the system is hard, and what these modules are about.

Paths below are relative to the repository; line numbers are in `PROJECT.json`
(`map`, `hazards`, `findings`).

## 1. Inventory

| Component (source) | State | Operations | Hard parts | What makes it correct |
|---|---|---|---|---|
| Scan creation (`handlers/scans.go`) | row in `scans` | insert, enqueue | the enqueue error is ignored; several scanners per request | a created scan is open until it is completed, given up, or was never queued |
| Queue (`queue/queue.go`, Asynq) | task, retries, lease | enqueue, dequeue, retry, archive, recover | leases, deadlines, shutdown | every task settles; the retry budget holds |
| Scan handler and worker (`tasks/scan_run.go`, `cmd/worker/main.go`, `repository/scan.go`) | `scans.status`, `scans.error` | mark running, failed, completed; recover stuck | crash between statements; sweep of rows other workers run; expired contexts | the row tells the truth, an acknowledged task is a completed scan |
| Ingestion (`scan_run.go`, `repository/finding.go`, `tasks/policy_engine.go`) | `findings`, suppressions, policies, alerts | insert once per fingerprint, suppress, policies, alert | retries, concurrent scans of a project | effects at most once, nothing skipped without a fault |
| Vulnerabilities (`repository/vulnerability_new.go`, `vulnerability/uid.go`) | counts, coverage, confidence, links | upsert, link, recalculate, backfill | read-then-write, two writers, deleted projects | aggregates agree with the links |
| Batch correlation and validation (`repository/finding.go`, `findings/validation_agent.go`) | `finding_correlations`, `confidence_score` | insert, match, replace pairs, recalculate, relate | not transactional, other scans of the batch meanwhile | no finding trusted more than its related findings justify |
| Scan scheduler (`tasks/scan_scheduler.go`, `repository/schedules.go`, `handlers/schedules.go`) | `scan_schedules` | create, edit, delete, list due, run, mark | one scheduler per worker, no lock; copies of rows; LIMIT 50 | no due schedule waits forever, edits stand, bounded repetition |
| Server-sent events (`events/*.go`, `handlers/sse.go`) | hub's map and four channels, client channels, Redis channel | subscribe, cancel, publish, broadcast, relay | select order, full channels, closing | no panic, limit, publishers never blocked |
| SLA monitor (`scan_run.go`) | `sla_breach_attempted_at` | list, enqueue, mark | enqueue before mark, several workers, LIMIT 100 | each breach announced, a bounded number of times |
| Threat intelligence (`tasks/threatintel.go`, `tasks/threat_notify.go`, `repository/threats.go`, `threats/*.go`) | `project_dependencies`, `threat_advisories`, `project_inventory_hits` | fetch, replace inventory, query, match, reconcile, notify | overlapping syncs, loss between upsert and notify, version ranges | a hit is announced once |
| AI summaries (`findings/summary_agent.go`, `tasks/finding_summarize.go`, `handlers/finding_analysis.go`, `repository/finding.go`) | `finding_summary_cache`, columns of `findings` | prepare, enqueue, generate, store, fail | claimed before enqueued; cache and findings written apart | a pending summary is being worked on |
| Triage (`handlers/findings.go`, `handlers/finding_detail.go`, `handlers/comments.go`, `cache/cache.go`) | `findings.status`, `assigned_to`, Redis entry | edit one, edit several, detail, comment | cache set after it was cleared; bulk loop; writers that do not clear it | a detail shows what users edited, but for a race that the TTL ends |
| Jira (`handlers/settings.go`, `repository/settings.go`) | `jira_integration`, `jira_issue_links`, the issues | configure, reserve, create, link, release | requests cut off, Jira answers late | one issue for a finding |
| Reports, digest (`tasks/report.go`, `tasks/digest.go`) | next time in memory | compute, sleep, enqueue, send | boundaries of days and weeks, restarts, settings read before a sleep | every period one report |
| Webhooks, e-mail (`tasks/webhook.go`, `tasks/email.go`, `handlers/webhooks.go`, `repository/webhook.go`, notification settings) | webhooks, their log and statistics, settings | configure, announce, post, count, log, send | four steps without a transaction, retries | an acknowledged delivery arrived, statistics per attempt |
| Accounts (`auth/*.go`, `middleware/token_version.go`, `handlers/users.go`, `handlers/sso.go`, `repository/user.go`, `db/seed.go`) | users, `token_version`, signed sessions | login, create, edit, bump, delete, sign on | change and bump are two statements; sign-on is six | a session carries what its user may do now |
| Tenancy (`handlers/projects.go`, `handlers/applications.go`, `handlers/teams.go`, `datascope`, `middleware/ownership.go`, their repositories) | teams, members, applications, projects | CRUD, bulk creation and assignment | cascades; scope and guard written twice; limit counted before the insert | lists and guards agree, limits hold |
| API keys (`handlers/tokens.go`, `repository/tokens.go`, `ratelimit/bucket.go`) | `api_tokens`, a bucket in Redis | create, rotate, delete, authenticate, scan | reads apart; clocks of several processes | a retired key is refused, grants are bounded |
| MCP endpoint (`handlers/mcp.go`) | none | negotiate, call a tool | two kinds of clients, four places of a version | whoever completes the handshake is served |
| Migrations (`db/migrate.go`) | `schema_migrations`, the schema | lock, split, apply, record | scripts outside transactions, killed starts, a deadlock of two starts, two releases | a release serves only with its migrations recorded |
| AI providers, scanner registry and parsers, snippet enrichment, knowledge base, audit log, metrics, configuration, frontend | rows and formats | | | see section 6 |

Interactions: the API, the scheduler and the threat sync insert a scan and
enqueue its task; the worker's handler writes the scan's row, its findings,
vulnerabilities and alerts; a starting worker writes all of these too
(recovery, backfill). API and worker publish events, which reach browsers
through the API's hub. Requests, agents, the SLA monitor and the loops for
reports enqueue mails and webhooks that the workers deliver. Deleting a project
changes the rows of all of them, deleting a user or a team those of tenancy and
keys.

The full list of what can go wrong, each at its line, is `hazards` in
`PROJECT.json`, with the property that covers it or the reason none does.

## 2. Modules

| Module | Models | Checked by |
|---|---|---|
| `ScanJob` | abstract: what a scan's row and its retries promise | implemented by `ScanLifecycle` |
| `ScanLifecycle` | creation, queue, handler and workers around a scan's row | `scan_lifecycle` |
| `ScanLifecycleProofs` | theorems about `ScanLifecycle` | tlapm |
| `FindingIngest` | the handler's loop over findings, the vulnerabilities it maintains, the backfill, deletion of projects | `finding_ingest`, `backfill`, `backfill_aborted` |
| `FindingIngestProofs` | theorems about `FindingIngest` | tlapm |
| `EventHub` | SSE hub, connections, publishers, Redis bridge | `event_hub`, `hub_leak`, `hub_twice` |
| `EventHubProofs` | theorems about `EventHub` | tlapm |
| `ScanSchedules` | schedule rows, users' edits, the schedulers of several workers | `scan_schedules`, `schedules_quiet` |
| `ScanSchedulesProofs` | theorems about `ScanSchedules` | tlapm |
| `Requests` | goroutines that execute calls statement by statement; shared by the two compositions | |
| `Accounts` | users, sessions, single sign-on | `access` |
| `Tenancy` | teams, applications, projects, scopes and guards | `access` |
| `TokenBucket` | the rate limit of an API key | `access` |
| `ApiTokens` | keys, requests with a key, what MCP tools change | `access` |
| `McpProtocol` | operators: what the MCP endpoint accepts and answers | `access` |
| `McpProtocolProofs` | theorems about `McpProtocol` | tlapm |
| `Migrations` | the starts of processes that migrate the database | `access` |
| `Access` | the composition of these on one database, with the cascades | `access` |
| `TokenBucketProofs` | what the steps of `TokenBucket` keep | tlapm |
| `AccessProofs` | theorems about `Access` | tlapm |
| `VersionRanges` | operators: versions, ranges, matching | `version_ranges`, `response` |
| `Threats` | manifests, inventory, advisories, hits: the sync | `response` |
| `Correlation` | the pairs and scores of a batch, the validator | `response` |
| `Tasks` | the queue as the handlers of a composition share it | |
| `Summaries` | AI summaries, requests and agents | `response` |
| `Triage` | edits of findings by users and policies, cached details, comments, Jira | `response` |
| `Deliveries` | webhooks, e-mail, notification settings, SLA alerts | `response` |
| `Reports` | the loops for report and digest, and their calendar | `response` |
| `Response` | the composition of these | `response` |
| `ResponseProofs` | theorems about `Response` | tlapm |
| `MC...` | instances for TLC | |

Definitions whose comment begins with *Faulty:* are not part of the
specification: each is a plausible wrong version of the definition that follows
it, and shows that a property notices (`mutants` in `PROJECT.json`).

### ScanLifecycle

`status` and `error` are the columns of `scans`; `task`, `retried` and `owner`
are what Asynq keeps; `pc` is the place of the handler executing the task, one
label between each two statements that write. `InsertScan`, `EnqueueScan` and
`EnqueueLost` are `createScanRecords` (the error of `Enqueue` is dropped, or the
process dies before it). `StartScan`, `FailScan`, `FailScanUnrecorded`,
`CompleteScan`, `CompleteScanFails`, `ReturnOk`, `ReturnError` are the
statements and returns of `HandleScan`. `RecoverStuck` is the start of a worker.
Asynq is external: a failed or expired delivery is charged a retry
(`Redeliver`), a dead worker's lease is recovered (`LeaseExpires`), a shutdown
gives tasks back without charge. An attempt that ran into its deadline has no
further effect on the row, because all its statements use the cancelled context.

### FindingIngest

A finding is its fingerprint. `table` is the `findings` table in order of
creation, `link`, `count`, `coverage`, `score` are the columns
`vulnerability_id`, `finding_count`, `scanner_coverage`, `confidence_score`.
The handler's labels are the statements of the loop; `RecalcConfidence` is two
(`ReadScanners`, `WriteScore`) with the number read kept in `seen`. The backfill
walks `batch` with the same two recalculation steps. `Interrupt` is anything
that makes the queue run the handler again from its start. `DeleteProject` is
the DELETE and its cascades: vulnerabilities go, findings stay without project.
`cut`, `overlap` and `faults` are history for stating the properties.

### EventHub

`register`, `unregister`, `events`, `broadcast` are the hub's channels, `clients`
its map, `buf` the clients' channels. Each case of the select is an action; a
send on a channel is guarded by its capacity, a dispatch skips full clients.
`Connect` is the count in the HTTP handler, before `Subscribe`. Publishers are
asynchronous: `SendToHub` then `PublishToRedis`; `Relay` is the API's
subscription. The worker's own hub has no clients and is left out, as are the
scope by project (the same test as the scope by user) and the heartbeat.

### ScanSchedules

`next_run` is NULL, year 1 (what `cron.Next` answers for an expression that
never fires) or an instant, in the order the query sorts. Each worker lists
copies of at most `Limit` due rows (`ListDue`), tries to insert the scans
(`Launch`) and sets `next_run` from its copy (`MarkRun`). Edits never touch
`next_run`.

### Requests and Tasks: how the compositions run

`Handlers` are goroutines of API and workers. `call[h]` is the statement a
goroutine executes next with the values it has read; an action executes one
statement and moves on. A handler of one statement is one step (`AtOnce`).
`CutOff` is whatever ends a call early: the client goes, the context expires,
the statement fails, the process dies. `Tasks` adds Asynq: a task is a record in
a bag, `Lease`d by a goroutine, `Acknowledge`d when the handler returns nil, and
counted as a try by `Retry` when it fails or its worker dies. Here the queue is
coarser than in `ScanLifecycle`, which is about the queue itself.

What a behaviour may do is drawn from `Budgets`, each a number of calls of every
kind. All of them start from one state space: a budget is a question ("three
edits of the integration and a ticket, one fault"), and their union is the run.

### Access: Accounts, Tenancy, TokenBucket, ApiTokens, McpProtocol, Migrations

`users`, `teams`, `members`, `apps`, `projects`, `tokens` are the tables.
`sessions` are the signed tokens that have not expired, with the role and
version they carry; `Accepted` is the test of the middleware. `UpdateUser` and
`ResetPassword` change the row and leave `BumpTokenVersion` as the next
statement. `SSOCallback` to `IssueSSOToken` are the statements of a sign-on,
with the claims of the provider (`idp`, external) taken at its beginning.
`ListedProjects`, `ListedApps` are the queries of the lists,
`CheckProjectOwnership`, `CheckAppOwnership` those of the guards, translated
separately since they are written separately. `CreateUser` and `CreateProject`
look at the limit; the insert is another step. Two routes lead to
`CreateProject`, one for administrators and one for the owner of an application,
whoever that is (`MayCreateProject`); both take the project's application from
the query, any one or none. `KeyRequest` to `PassBucket` are
`APIKeyAuth`, read by read; `ScanByName` and the MCP tools follow. `Allow` and
`Deny` are the two outcomes of the Lua script of the bucket, run with the clock
of the process that calls (`Skews`). `Access` adds the foreign keys: what the
deletion of a user, a project or an application does to the other tables.

`McpProtocol` has no state: a message is judged by itself. `Migrations` runs
scripts that are sequences of the tokens `splitSQLStatements` looks at;
a concurrent index is apart from the other statements. `ExecStatement` leaves it
invalid, `AwaitSnapshots` waits for the transactions there are, `IndexIsBuilt`
makes it valid. A process that waits for the advisory lock waits inside a
statement, so the build waits for it (`"awaited"`) while it waits for the
builder's lock: the database aborts one of the two (`Deadlocked`), whose start
fails; the index of an aborted or killed build stays invalid.

### Response: Threats, Correlation, Summaries, Triage, Deliveries, Reports

`Threats`: `inventory` keeps the snapshots whose rows are in
`project_dependencies`; `ClearDependencies` sees the rows committed by then, and
`UpsertDependencies` is the inserts and the commit. `ReconcileHit` is one upsert
with the rows read before (`LoadPrior`). A hit is its key: the sync passes the
matcher no findings, so no hit is ever more than declared.

`Correlation`: `pairs` is `finding_correlations`; one step for each of match,
clear, pair, read of the score, write of the score. `Score` is the formula of
the query, as a numerator. `InsertCorrelations` is the validator.

`Summaries`: `summaryCache` is the cache by fingerprint, `summaries` the columns
of each finding. A pending finding without a text must have a request, a task or
an agent of its own, unless one for its signature was cut off for good
(`forsaken`). `PrepareAISummary` is called by the request and by the agent;
`ClaimSummary`, `MarkPending`, `StoreAISummary`, `ShareSummary`,
`MarkAISummaryFailed`, `ShareFailure` are its and the agent's statements.

`Triage`: `rows` are status and owner, `details` the cache. A bulk update is a
loop of statements over `todo`. `GetFindingDetail` reads the row, then section by
section what is shown beside it; the Jira link (`ReadJiraLink`) stands for all of
these, as none of their writers clears the cache. Nor does `ExecuteAction`, a
policy's write of a row. `edits` counts the updates by users, `policed` are the
findings a policy wrote, so that the property can tell them apart.
`ReserveJiraIssueLink` to `DeleteJiraIssueLink` are the steps of a ticket, Jira
itself is external: a request that times out may have created the issue.

`Deliveries`: a POST, its count, its log entry and the acknowledgement are steps
of their own. `UpdateNotificationSettings` reads a row that
`SaveNotificationSettings` writes as a whole. `CheckSLABreaches` to
`MarkSLABreachAttempted` are one pass of the monitor; it lists the overdue
findings by their positions in `Overdue`, the order of the query.

`Reports`: `alarm` is until when a loop sleeps. `nextReportTime` and
`nextMonday9am` are translated over a calendar whose days have `HoursPerDay`
hours; the configured hour and minute are natural numbers (`TimeOK`), as the
code's `atoi` keeps the digits and nothing else. `now` lies inside its minute,
since the code's instants are whole minutes and its clock hardly ever is. A loop wakes when its time has come; time passes
only when all loops sleep.

## 3. Runs

| Run | Instance | Shows |
|---|---|---|
| `scan_lifecycle` | 2 scans, 2 workers of one slot, 1 retry, 2 stops | `AckedIsCompleted`, `RunningIsAttended`, `RowIsTruthful`, `CompletedStands`, refinement of `ScanJob` (`JobSpec`), liveness `EveryTaskSettles` |
| `finding_ingest` | 3 scans (two share a fingerprint, the third another scanner's finding of the same vulnerability), one suppressed unlinkable finding, 1 backfill, 1 fault | `CountIsExact`, `ConfidenceNeverOverstates`, `EffectsAtMostOnce`, `StoredIsProcessed` |
| `backfill` | 5 legacy rows of 2 projects, two unlinkable, batches of 2, 2 backfills, 1 deletion, 1 fault | `AggregatesCoverLinks`, `BackfillEnds` |
| `backfill_aborted` | the same without faults, one batch | **violated**: `BackfillLinksAll` |
| `event_hub` | 2 connections of a user with limit 1, 4 events (of each origin, one of them for another user), channels of one slot, 1 lost message | `NeverPanics`, `LimitHolds`, `CopiesAreBounded`, liveness `PublishReturns` |
| `hub_leak` | the same | **violated**: `DisconnectedIsForgotten` |
| `hub_twice` | the same | **violated**: `DeliveredOnce` |
| `scan_schedules` | 2 schedules of which a tick takes 1, 2 workers, an hourly expression and one that never fires, 1 edit, 1 fault | `OncePerInstant`, `EditsStand`, `EarlyRunsAreStale`, liveness `EveryDueRuns` |
| `schedules_quiet` | the same, a tick takes 2 | **violated**: `RunsEnqueueScans` |
| `access` | 3 users, 2 subjects, a team, an application, 3 projects, 2 keys, limits of 2 and 1, clocks 1 s apart, 2 releases; 2 goroutines and 11 mixes of calls | `SessionIsCurrent`, `LimitsHold`, `ListedIsOwned`, `RetiredKeysAreRefused`, `GrantsAreBounded`, `SchemaIsComplete` |
| `response` | 1 project with 2 advisories, 3 findings of 2 scanners, 1 webhook, 1 worker's loops; 2 goroutines and 20 mixes of calls | `HitsAreReportedOnce`, `InventoryIsBounded`, `ConfidenceIsEarned`, `SummariesAreAwaited`, `DetailIsFresh`, `TicketsAreLinked`, `DeliveriesAreAccounted`, `AlertsAreBounded`, `PeriodicalsComeOnce` |
| `version_ranges` | versions of two segments, every list of up to three alternating events | **violated**: `RangesMeanWhatTheySay` |

Bounds, all named as constants: `MaxStops`, `MaxFaults`, `MaxStarts`,
`MaxDeletes`, `MaxLosses`, `MaxEdits`, `MaxTime`. They cap only what the
environment does to the system. Two scans on two workers of one slot are the
smallest instance in which a worker sweeps another's row while a second task
waits; a retry limit of one has both a retry and an archived task; two stops
allow a crash during recovery from a crash. One fault is enough for every
fault property, as each is about the loss of one step; the interference of two
writers needs no fault. Channels of one slot make full channels the normal
case, and the channels' order is what matters, not their length.

In `access` and `response` two goroutines are the smallest number that
interferes, and the properties that count them (`LimitsHold`,
`InventoryIsBounded`, `AlertsAreBounded`) are stated with their number, so that
an instance of three would be bounded by three. A mix puts together the calls
that touch the same rows, with a fault where a call has several statements;
combinations of calls that share no row are left out, and so are longer ones.
Handlers, users, projects and subjects are symmetric. A capacity of 1 with a
rate of 1 and clocks a second apart is the least at which a bucket refills,
expires and is moved back. A list of one breach and two overdue findings make
the LIMIT bite. Days of two hours of two minutes keep every boundary the code
asks for (minute, hour of the report, hour of the digest, midnight, Monday)
within 34 ticks, more than a week. The second script of `Migrations` is the
shape of migration 047: columns, a `DO` block with semicolons in a quotation, a
concurrent index. Two goroutines are what it takes for one start to wait for
the lock while the other builds. `LimitsHold` counts the calls about to insert
with the rows: at the limit of two users, two goroutines that do not look at it
come to four, one more than the races of the code allow, before the first of
them has used an id of the instance.

`CHECK_DEADLOCK FALSE` everywhere: the instances stop when the bounded
environment has nothing left to do.

### What the violations show

* `backfill_aborted`: a finding of a deleted project has a NULL `project_id`,
  which the backfill scans into a string; the whole backfill returns with an
  error at the first such row, at every start of every worker.
* `hub_leak`: register and unregister are two channels; the unregistration may
  be served first, and the client then registered stays, holding a slot of its
  user's limit.
* `hub_twice`: the API subscribes to the channel it publishes on, so its
  clients get its events twice.
* `schedules_quiet`: the scheduler's batch id `"scheduled"` is not a UUID, so
  every insert of a scheduled scan fails, while `last_run` and `next_run`
  advance.
* `version_ranges`: the ranges of an advisory may end and begin again. An
  `introduced` event the version has not reached clears a verdict that an
  earlier one gave, so a version before the first fix counts as unaffected.

Two more places disagree with what is written about them. No run is about them;
the model has them as the code does, and the properties are stated so that they
do not hide them:

* `events.go:232` says "Broadcast sends an event to all clients without
  filtering". The hub passes what comes from its broadcast channel to the same
  `dispatchToClients` as any other event (`events.go:162`), so clients with
  filters, and clients of another user or project than the event's, miss it.
  Only tests call `Broadcast`, with clients that have no filters. Whom an event
  is for is therefore asked of published events only (`CopiesAreBounded`).
* `README.md:171` of the repository says that migrations need "no manual
  intervention". API and worker migrate as they start and exit when that fails.
  The one waits inside `SELECT pg_advisory_lock` (`migrate.go:40`), the other's
  `CREATE INDEX CONCURRENTLY` (migration 047) waits for the snapshot of that
  statement, and PostgreSQL aborts one of them. When it is the build, its index
  stays invalid; the next start skips it by `IF NOT EXISTS`, records the
  migration and serves without the index, although nobody was killed
  (`Deadlocked`, `torn` in `SchemaIsComplete`).

Seen while modelling, without a document that says otherwise (each is in the
model as it is in the code):

* scans: a schedule's update changes the row and answers 500 (ten returned
  columns, nine destinations); suppressed findings are alerted on; a completed
  scan keeps the error of an earlier attempt;
* threats: the rescan for an unconfirmed hit is inserted with the batch id
  `"threat-rescan"`, which is no UUID, so there never is one; no hit is ever
  matched with findings, so the notifications that need one never go out; hits
  of a dependency that has been upgraded stay;
* correlation: two findings inserted at the same time may lose their pair;
* summaries: a finding may stay `pending` although its text is there;
* triage: a bulk update reads the old owner after it has written the new one, so
  nobody is told of an assignment; a Jira link whose request was cut off stays
  pending, and the finding gets no ticket;
* details: only edits by users clear the cached detail of a finding. A new Jira
  link (`settings.go`, `CreateFindingJiraIssue`), a policy's write of status or
  assignee (`policy.go`, `ExecuteActions`), correlations, analyses, risk
  acceptances, summaries and scores leave it as it is, without any race, until
  the TTL of the entry;
* projects: the owner of an application may create projects by the route of that
  application, whose id is ignored: the project goes to the application named
  in the query, owned or not, or to none;
* settings: two updates of the notification settings, or of the Jira
  integration, that overlap lose one;
* reports: an unknown `report_schedule` is a report every fifteen minutes; the
  channel `slack` sends nothing; a worker started on a Monday before nine sends
  no digest that day; on a Monday, from the beginning of the report's hour on,
  the weekly report is next week's; each worker sends its own;
* accounts: role changes from the provider's groups, and the administrator's
  password from the environment, do not raise the version; a session that was
  issued before stays accepted;
* keys: a scan by name and the MCP tools do not ask for the key's project;
* MCP: `mcpNegotiateVersion` prefers the parameters to `_meta` and `_meta` to the
  header, its comment lists the header first;
* migrations: an index whose concurrent build was killed or aborted stays
  invalid, and its migration is recorded by the next start.

### Fairness

* `ScanLifecycle`: a server that is up polls its queue, a handler proceeds or is
  cut by `asynq.Timeout`, the recoverer runs. Nothing is assumed of creators or
  of restarts (`docker-compose.yml` sets no restart policy for the worker), so
  `EveryTaskSettles` has the premise that from some moment on a worker is up.
* `FindingIngest`: the goroutines of handlers and backfills run. Their
  statements may fail (`MaxFaults`).
* `EventHub`: the hub runs and its select passes over no ready case for ever
  (Go chooses at random); publishers and handlers run. Browsers need not read
  or leave. `PublishReturns` is checked under less (`PublishFairSpec`: the
  hub takes events and broadcasts, publishers run).
* `ScanSchedules`: the ticker fires and the goroutine runs. `EveryDueRuns` has
  the premise that fewer than `Limit` schedules are due for ever; without it the
  code does starve the others.
* `Access`, `Response`: only safety is stated, so nothing is assumed. What waits
  for ever there waits because a call was cut off, which the properties name
  (`forsaken`, `dropped`, `lost`, `unmarked`).

## 4. Proofs

`ScanLifecycleProofs` proves, for every set of scans and workers, every retry
limit, concurrency and number of stops, from `ConstantsAssumption` alone:

* `TypeCorrect`, `AckedIsCompletedHolds`, `RunningIsAttendedHolds`,
  `RowIsTruthfulHolds`: the safety properties of `scan_lifecycle`;
* `OneWorkerRowIsRight`: with one worker process, the row of a scan at work
  always reads `running`;
* `CompletedStandsHolds`: the action property;
* `ImplementsScanJob`: `ScanLifecycle` implements `ScanJob`; initial states map
  to initial states, and every step to a step or a stutter.

The properties are not inductive: that an acknowledged task has a completed row
needs that the handler about to return nil has completed it and that nobody else
can touch the row meanwhile. `IInv` therefore adds `HandlerHoldsLease` (a handler
runs under an active lease of a live process), `FreshIsUntouched` (nothing
happens to a scan before its creator has called `Enqueue`), `OkIsCompleted` and
`CompletedIsExplained` (a completed row is being acknowledged, is acknowledged
or lost its acknowledgement). Each has a lemma of its own over the actions that
can disturb it; `IInvHolds` combines them.

`EventHubProofs` proves the safety of the hub for every set of connections,
users and events, every capacity of its channels and every limit, from
`ConstantsAssumption` alone (names are well-typed, capacities are positive).
`TypeCorrect` is inductive; the others are not. `NeverPanicsHolds` needs `SubscribedOnce`:
a connection waits in the `register` channel once at most, and while it waits
there, or has not subscribed, it is neither in the map nor closed; the map and
the closed clients are disjoint, so neither a late `HubUnregister` nor a full
`HubRegister` closes a channel a second time. `LimitHoldsAlways` needs that the
map is finite (`MapIsBounded`), without which its cardinality says nothing.
`CopiesAreBoundedAlways` counts: for each client and event, the copies sent and
the ones under way in `events`, `broadcast` and `redis` (`Occ`, with lemmas on
`Append` and `Tail`) are together at most what the publisher has handed out
(`NoCopyIsMade`), that is 2 for an event of the API and 1 for another, because
every step moves, drops or hands out an occurrence and none makes one. Whom an
event is for is claimed of published events only; the comment on `Broadcast`
says that broadcasts are for all.

`ScanSchedulesProofs` proves the safety of the scheduler for every set of
schedules and workers, every `LIMIT`, expressions and number of edits and
faults, from `ConstantsAssumption` alone. `OncePerInstant` bounds the runs of an
instant; that needs a count: the runs of a row since its last `MarkRun` are at
most the workers now between its run and its mark, and those that never will
mark it; for a deleted row, at most the workers that still have it ahead in
their lists (`RunsAreCounted`). That a list has no row twice (`LoopsOK`) comes
from the query (lemma `ListedCopies`), and that a new schedule has no past from
`OnlyCreated`. `EarlyRunsAreStaleHolds` is about steps: with one worker nobody
else outdates its copies (`OwnCopiesAreFresh`). `EditsStandAlways` is inductive
with the types of what users set.

`FindingIngestProofs` proves all six safety properties of ingestion, for every
set of scans, findings, projects and scanners, every batch size and number of
backfills, faults and deletions. The invariant follows a finding through the
handler's labels:

* `OneHandler`: a stored finding is in the hands of one handler at most, the one
  whose `INSERT ... ON CONFLICT` stored it; `Stages` says what has been done for
  it at each label. With these, effects come at most once, and are complete when
  no handler holds it (`EffectsAtMostOnceHolds`, `StoredIsProcessedHolds`).
* `Ahead`: `finding_count` is at least the links and the links about to be made
  (`Pending`), and the coverage has the scanners of both. Each upsert adds one to
  both sides, each link moves one (`AggregatesCoverLinksHolds`). The deletion of
  a project makes both zero (`LinksOK`).
* `Apart`: as long as no backfill ran beside a handler or another, both link
  only what has no link, so that the count is exact (`CountIsExactHolds`).
* `SeenOK`: a number of scanners read and not yet written as a score is at most
  the present one, as links of a live project only grow; with the monotonicity
  of the score, an arithmetic lemma, `ConfidenceHolds` follows.

`AccessProofs` proves, for every set of users, teams, applications, projects,
keys and names, every limit and every finite number of goroutines, from the
assumptions of the modules (`RequestsAssumption`, `AccountsAssumption`,
`TenancyAssumption`, `BucketAssumption`) the safety properties of `access` but
one. The invariant `IInv` has a part for each component and each component keeps
its own: a lemma says which labels the calls of a component
move to (`AccountCalls`, `TenancyCalls`, `TokenCalls`, ...), others that what
depends on the labels of one component is left alone by the labels of another
(`OtherKeyCalls`, `OtherLimits`, ...), and the composition is a step per disjunct.

* `SessionIsCurrentHolds`: `SessionsOK` relates each session to its row. Ids are
  never given twice, so the row is the one the session was issued for; the
  session's version is at most the row's, and with the same version the row has
  not changed. `RowStep` sums up what a statement may do to a row.
* `LimitsHoldAlways`: rows and calls between the look at the limit and the
  insert are counted together (`Within`): less than the limit, what came without
  a look, and the number of goroutines. A call that looks finds the rows below
  the limit, and fewer than all goroutines are about to insert beside it.
* `ListedIsOwnedHolds`: from the foreign keys (`TypeOK`) alone the two joins
  select the same rows.
* `RetiredKeysAreRefusedHolds`: secrets are generated once, so no two rows share
  one and none that was retired is in a row (`TokensOK`); a call that found its
  secret in a row knows that it was not retired when the call began
  (`KeyCallsOK`), and what is retired stays so.
* `GrantsAreBoundedHolds`: tokens left and requests granted are together at most
  a burst and the refill up to `last_refill` (`GrantOK`, `TokenBucketProofs`).
  When the hash expires, twice a full refill has passed, less what the clocks
  differ: the burst the next request finds is paid for if the clocks differ by
  no more than one refill takes, `Rate * MaxSkew <= Capacity`. The theorem has
  this as its hypothesis, and it is needed: beyond it every expiry of the hash
  gives the difference anew. The API configures a burst that takes a minute to
  refill (`cmd/api/main.go`), and clocks a minute apart are outside of what any
  deployment of it relies on.

`ResponseProofs` proves all nine safety properties of `response`, for every set
of findings, projects, advisories, webhooks and loops, every retry limit, every
mix of calls and every finite number of goroutines, from the assumptions of the
modules (`RequestsAssumption`, `TasksAssumption`, `CorrelationAssumption`,
`TriageAssumption`, `DeliveriesAssumption`, `ReportsAssumption`). The invariant
`IInv` was first checked by TLC on the instance of `response`. `CallsOK` says
what a call holds at each label, `TasksOK` what is queued; the rest is a part
per property. Each action has a lemma for the parts of its component; since
components share no label but `idle`, what is said of the calls of one is left
alone by the steps of another, and the composition is a step per disjunct.

* `InventoriesAreBounded`: `InventoryOK` is about every set of syncs about to
  insert: the snapshots that none of them saw when it deleted, with one more for
  each of them, are at most the goroutines. The set has to be arbitrary, since
  the sync that inserts next leaves it and its own snapshot is unseen.
* `HitsAreReported`: each stored hit was announced, lost with its sync, or is in
  the hands of a call about to announce it; hits are never deleted, so what a
  sync knew when it came to a project is among the rows it reconciles with, and
  none of it is new to that sync (`HitsOK`).
* `ConfidenceIsJustified`: `RefreshesOK` says of the one refresh under way, as
  long as none ran beside it or was cut off, which pairs it has still to write
  (`Unpaired`) and which findings still to score (`Unscored`); the others have
  the score of their matches (`Exact`). When it ends nothing is left over.
* `PendingIsAwaited`: the property is its own invariant, with what
  `PrepareAISummary` returned (`PreparedOK`) and what a state is (`StatesOK`).
* `DetailStaysFresh`: a reader whose finding no user updated meanwhile holds all
  edits of it, and the row as it is unless a policy wrote it (`Current`), and a
  ticket it has read is there, as no ticket is ever removed (`Founded`,
  `LinksStay`); a cached detail is what a reader held, or is about to be dropped
  (`DetailsOK`).
* `TicketsStayLinked`: a link is held by one call (`TicketOK`), which knows how
  many issues there are; without a link every issue was reported as failed.
* `DeliveriesStayAccounted`: what was posted is counted and logged but for the
  calls between their POST and these statements (`TallyOK`), which `Between`
  and `Answered` collect.
* `AlertsStayBounded`: alerts not yet followed by a mark belong to checks under
  way (`Marking`) or cut off; after the mark every alert to come is one of a
  check that listed the finding before (`Listed`), and listings have no position
  twice.
* `PeriodicalsStayUnique`: a loop that sleeps sleeps until later than anything it
  has enqueued, and has enqueued the digest of every Monday after the
  day its worker was started (`DigestsUntil`). It rests on lemmas about the
  calendar: the next Monday at nine is a later one with none between, the next report is later than now.

`McpProtocolProofs` proves, for every set of known versions and every latest one
among them (`McpAssumption`), about the operators that `ApiTokens` uses:

* `ClientIsEchoed`: a standard client that names a version, in the header or in
  the parameters, is answered with that version;
* `HandshakeIsHonoured`: a later message with the version `initialize` answered
  passes the negotiation. For a custom client this needs that the version in its
  parameters is the one in `_meta`; the code prefers the former.

Both are case splits on who the client is and where it put its version.

Only model-checked: all liveness (`EveryTaskSettles`, `BackfillEnds`,
`PublishReturns`, `EveryDueRuns`), since fairness is out of reach of the proof
system, and `SchemaIsComplete`: it depends on how a script is split, which is a
fold over its tokens, and what the split returns for every script is an
induction that the provers cannot do.

## 5. Plan

What is left, in the order of its worth:

1. Abstract specifications: a cache that is stale only until its TTL, a
   notification outbox (each item announced, not for ever), a vulnerability whose
   aggregates are computed from its links in one step.
2. The merge of severities in `FindingIngest`, and the clone directories of the
   workers in `ScanLifecycle`.
3. The fixed windows of `middleware/ratelimit.go` and the counters of failed
   logins, beside `TokenBucket`.

## 6. Not modelled, and why

Inside the modelled components:

* Scans: the clone directory (a timed-out attempt may delete the directory of
  its retry) needs a file system beside the queue; a request for several
  scanners is several scans.
* Findings and vulnerabilities: the merge of severities, how an SLA deadline is
  computed, snippet enrichment (it rewrites what is shown, decides nothing),
  risk acceptances and the bell's notifications, which are plain rows. Of what a
  cached detail shows beside the row, all but the Jira link: it is read, and its
  writers pass the cache by, in the same way.
* Access: counters of failed logins, the fixed windows of
  `middleware/ratelimit.go`, the creation of teams and applications (those of an
  instance exist from the start), GitHub tokens, the coverage report, ownership
  guards of scans and findings, the endpoints that only read. Sign-on begins with
  the claims: the state cookie and the OIDC exchange are the provider's protocol.
  `SessionIsCurrent` is about sessions obtained with a password.
* Response: the bodies of mails, reports and webhooks and the checks of outbound
  URLs; what the queries of MCP and of the dashboard answer; HTTP clients of the
  feeds, reduced to their answers and failures.

Whole components: scanner parsers, AI providers and the registry are formats and
external services; the knowledge base, the audit log, suppressions and policies
are administered by single statements with nothing between them (their
application to a finding is in `FindingIngest`, what that does to a row that
users see in `Triage`); metrics and configuration are
state that no other component depends on; the frontend is a client of the API.
