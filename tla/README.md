# TLA+ verification of the test execution orchestrator

TEO takes a manifest of tests, splits it into shards with a predictor and a
scheduler, and has a fleet of workers, many of them on spot instances, execute
the shards. All durable state is in PostgreSQL; JetStream is an optional faster
way to hand out shards, ClickHouse holds spans, and GitHub shows check runs and
issues. This directory models the parts in which processes meet, checks them
with TLC on small instances and proves the main properties with TLAPS for
instances of any size.

## The system

| Part | State | Operations | Meets |
|---|---|---|---|
| Run intake (`internal/runsvc`) | `teo.runs`, `teo.run_plans` | Create (five statements, no transaction), Cancel (one guarded UPDATE) | itself (same Idempotency-Key), the Run Manager's scan |
| Run Manager (`internal/runmanager`) | status, plan and shards of a run; advisory lock per run | scan, plan, dispatch, finalize, budget sweep, reschedule sweep; any number of replicas | intake, workers, other replicas |
| State machine (`statemachine.go`) | none | table of transitions, which no code consults | nobody |
| Predictor (`internal/predictor`) | history of executions, read only | ML client, fallback, heuristic | called by plan |
| Scheduler (`internal/scheduler`) | none | `PlanFunc`, `Replay` | called by plan and by `teo replay` |
| Worker (`internal/worker`, `internal/spot`) | `draining`, `currentShardID`; `shards.status`, `test_executions` | poll, consume, execute, record, drain, exit | other workers, the sweep, JetStream |
| Dispatch stream (`internal/nats`) | unacknowledged messages | publish, deliver, ack, nak, redeliver | Run Manager, workers |
| Subscription hub (`internal/api/subscriptions.go`, `graphql_ws.go`) | fan-out and loop per run, channels, operations of a session | subscribe, re-read, fan out, close, unsubscribe | its own goroutines, clients, the Run Manager's commits |
| Run observers (`internal/github`, `observer.go`) | check-run id of a run, check runs at GitHub | create, update and complete a check run after a commit | replicas, users, the budget sweep |
| Flake scoring and quarantine (`internal/flake`, `internal/quarantine`) | `teo.tests`, `teo.flake_records`, `teo.unquarantine_tokens`, GitHub issues | score, quarantine, nudge, propose, restore | each other, operators, holders of a link |
| Result pipeline (`internal/resultpipeline`, `cmd/result-pipeline`) | spans, clusters, links of executions | OTLP export, report of a result, backfill | ClickHouse, itself |
| LLM hints (`internal/llmhints`) | hint of a cluster | load, summarize, save | itself, the pipeline |
| Authentication (`internal/auth`, `internal/oidc`, `auth_oidc.go`, `internal/grpcsvc/auth.go`) | API keys and their cache, cookies, sessions, JWKS cache | resolve, revoke, login, callback, refresh, logout | concurrent requests, tabs, the identity provider |
| Migrations (`internal/migrate`) | `schema_migrations`, the schema | Up on two backends, `splitSQL` | other processes |
| Digest, webhook, adapters, log storage, audit, cost, code owners, doctor, metrics, configuration, UI | see "Not modelled" | | |

What is hard in it: every replica acts on a status it read before it took the
lock; users cancel outside every lock; the claim of a shard has two paths with
different ideas of what the shard contains; a worker's two goroutines share one
`currentShardID` with the drain path; jobs work through a list that one SELECT
returned while other jobs write; calls to GitHub and to ClickHouse are inside or
between transactions and may be carried out with their answer lost; caches
outlive what they were filled from; most errors of statements are dropped; and
no transaction spans the steps of Create. `PROJECT.json` lists these hazards line by
line with the properties that cover them.

## Modules

| Module | Models | Composition |
|---|---|---|
| `RunStateMachine` | the table of `statemachine.go` as an abstract specification | implemented by `RunLifecycle` |
| `RunLifecycle` | the rows of `teo.runs` and `teo.shards` under intake, replicas with their three tickers, and workers | refines `RunStateMachine` |
| `ShardExecution` | the shards of one run: polling and JetStream claims, execution, drain, replay | details the worker and sweep steps of `RunLifecycle`: which tests a shard has |
| `Scheduler` | `PlanFunc`, one placement per step, and `Replay` | supplies what `RunLifecycle` abstracts to a number of shards |
| `Planning` | the predictor in front of the scheduler | extends `Scheduler` |
| `RunIntake` | Create with its Idempotency-Key contract | details the two INSERTs of `RunLifecycle` |
| `SubscriptionHub` | live updates of one run: loop, fan-out, Subscribe, the operation of a session | reads what `RunLifecycle` commits |
| `CheckRuns` | the check run of one run at GitHub | follows the commits of `RunLifecycle` |
| `Quarantine` | scoring, quarantine and restoring of tests | reads the executions `ShardExecution` records |
| `FailureClusters` | spans, reports, clusters and their backfill | |
| `RootCauseHints` | hints of the clusters | reads the clusters of `FailureClusters` |
| `Access` | API keys and sign-in | in front of every operation |
| `Migrations` | `teo migrate up` by several processes | |
| `MigrationFiles` | `splitSQL`, which cuts a file into statements | extends `Migrations` |
| `MC...` | definitions for TLC: symmetry, small domains | |
| `RunLifecycleProofs`, `ShardExecutionProofs`, `PlanningProofs`, `AccessProofs`, `QuarantineProofs`, `FailureClustersProofs` | theorems about the module of the name (`PlanningProofs`: also `Scheduler`) | |
| `RunReportsProofs` | theorems about `SubscriptionHub` and `CheckRuns` | |
| `OnceOnlyProofs` | theorems about `RunIntake`, `Migrations` and `RootCauseHints` | |

An operator commented "Seeded fault", or the unused variant just before a
definition (`SavedUnguarded` before `Saved`), is a broken form of the definition
that follows it. No specification uses it; it exists to show that the property
next to it notices the fault.

### RunLifecycle

Variables hold committed rows. A transaction of `tryHandle` is a record in
`tx[m]`; its effect appears at its commit action, and `Rollback` or `Crash` drop
it. `lock` is `pg_try_advisory_xact_lock`; `RowLocked` is the row lock that the
UPDATE to 'planning' takes and that makes a concurrent Cancel wait. `Scan`,
`SkipLocked` and `BeginTx` are `reconcileOnce` and the head of `tryHandle`;
`todo` keeps the status *as scanned*, on which `tryHandle` branches. `LoadManifest`,
`CommitPlan`, `AbortPlan` and `CommitPlanFailed` are `plan`: when an INSERT of a
shard violates UNIQUE(run_id, index) the transaction is aborted, so the UPDATE to
'failed' is lost with it. Predicting cannot fail (`PlanArrives` of `Planning`), so
`plan`'s error path is the missing manifest. A plan is the number of its
assignments. `PublishShards` sends before the commit, any subset of the
messages, since a failed publish is logged only.

The third ticker of `Manager.Run` replays preempted shards: `SweepScan` is the
SELECT of `reschedulePreempted`; `SkipReschedule`, `BeginReschedule`, `Reschedule`
and `RescheduleNothing` are `rescheduleOne`, which takes the advisory lock but
reads neither shard, marker nor run again. It inserts a row at `count(*)`, which
the stored plan does not know, and leaves the original 'preempted'. Workers give
shards up (`PreemptShard`); one that looked at `draining` before writes its
outcome later, over whatever is there (`WriteLate`). Nothing writes 'lost', which
`finalize` and the sweep look for all the same.

`StartFinalizing` stands for a writer of 'finalizing'. The repository has none;
the constant `Finalizer` adds one, so that `finalize` can be verified as written,
and leaves it out to show what the code does today. Nothing is supposed of the
shards when it writes: they may be pending, running or preempted, and workers and
sweeps with old lists go on. `onRecord` remembers what had failed by then. `OldRuns` lets
`RerunFailed` start from a run that ended before the behaviour begins.

### ShardExecution

One run whose plan is committed. A worker has two threads, the polling loop and the
consumer callback, and the drain path of `beginDrain` in three steps: set
`draining`, load `currentShardID`, UPDATE. The gaps between claim and
`currentShardID.Store`, between the look at `draining` and the outcome, and between
load and UPDATE are all there. A test is its position in the manifest, since the
round robin depends on it. All workers subscribe under the same durable name
(`WorkerID` is still empty when `cmd/worker` subscribes), so the stream has one
message in flight. `fromStream` remembers which shards were claimed from a
message, `replayer` which replica replayed one. `SpotNotice` is the watcher of `internal/spot`: at most one
notice, at any time or never. The switches `UseNATS`, `Spot`, `Crashes` and
`DbErrors` turn groups of events on, and `FaultLimit` bounds how many happen, the
end of the run by a cancel or its budget (`RunEnds`) included.

### Scheduler and Planning

`Place` is one turn of the packing loop, `Return` the rest of `PlanFunc`
(sorting in each bin, makespan, dropping empty tail bins, the quarantine lane).
`Replay` walks the stored plan as the code does, which gives the tests in another
order, and plans again. `stableHash` is a parameter: the hash is any
function the configuration allows. The best possible makespan (`Optimum`), which only
the property needs, is stated with `Work`, the cardinality of one unit of time per
test and millisecond, where the code and the model's `load` add up numbers.

`Planning` puts the predictor in front. `AskPredictor` is the ML client, which
answers with any durations or fails (timeout, status, body, length), and the
fallback; `Heuristic` is the median of the history or a cold start, test by test,
or `coldOnly` for all of them when the database does not answer or a row does not
scan (`loadStatsFails`).

### RunIntake

A request is a record in `call[q]` that goes through lookup, insert, the second
lookup after a unique violation, the manifest and the reload. Any statement may
fail; an INSERT may also be carried out and its answer lost. `replies` collects
what clients were told.

### SubscriptionHub

One run, since runs share nothing in the hub but its mutex. A fan-out is named after
the subscriber that created it, so the loop of a cancelled fan-out and the loop
of its successor are both there: `fanout` and `closeRun` look the run up again,
and act on whatever fan-out they find (`Members`). A snapshot is a version and a
status; the run and the shards are two reads in the code, one here. Hints are
merged into the ticks, which never stop. `Fanout` and `CloseRun` are critical
sections. The initial `trySend` of `Subscribe` is outside the lock and is
modelled select by select; the selects of a `trySend` inside `Fanout` need no steps
of their own, because nobody reads a channel before `Subscribe` returns it and
every outcome of the two interleaved is also one of `Fanout` before or after the
other's selects. A send to a channel that `closeRun` has closed panics;
graphql-go recovers it and the operation ends with an error. A loop variable
that is out of scope is set to `NoSnap`.

### CheckRuns

`TryHandle` is a transaction of `RunLifecycle` in one step, except `finalize`, whose
SELECT and UPDATE are `ReadVerdict` and `CommitVerdict`. A 'pending' scan may be
stale: if the run was cancelled or failed and has no rows, the transaction inserts
the shards, commits and notifies. What follows a commit happens
without a lock: `ReadSnapshot`, then `Create` and `Persist`, or `Update`. A call to
GitHub may fail or be carried out with its answer lost; if the rows cannot be
counted, zeros are posted. `Cancel`, `EnforceBudget` and the replays (`SweepScan`,
`RescheduleOne`) change rows and tell nobody; a replayed shard keeps its
'preempted' row, which `shardCounts` counts as lost. `deployed` is the set of replicas
of the deployment, so that one instance shows both one and two.

### Quarantine

Each job is a process (`proc[p]`) with the list its SELECT returned: the flake job
(`FlakeScan`, `FlakeUpsert`, `FlakeBreak`), the sweep (one transaction per test,
with `SweepOpen` or `SweepComment` at GitHub inside it; a failed read of the issue
number, whose error is dropped, takes the former branch where the latter was
due), the SLA nudges and the proposals, which mint and post a link. `testLock` and `recLock` are the row locks an
open transaction holds. `RestoreRead` and `RestoreCommit` are the transaction of
a click on the link; the two GraphQL mutations are one step each. `mishaps[t]` counts the faults that can
leave an issue of `t` that no row names. The Wilson
bound is abstracted to `Classify`: stable, flaky or broken as a function of
the outcomes kept.

### FailureClusters

Each step makes one call to one database. `ExportWrite` inserts the error spans
of a batch, `ExportCount` counts one failure; `export` holds the places in the
batch that are left to count. `ReportUpsert` and `ReportInsert`
are `ReportTestFinished`. A backfill pass pages through failed executions by
cursor (`pendingFailuresPage`), reads the newest stack of the trace
(`StackFor`), looks the cluster up or makes it (`ClusterFor`), caching both per
trace, and links (`Linked`, guarded by `cluster_id IS NULL`). A stack is a
sequence of lines with what normalisation keeps and drops; a fingerprint is the
normalised sequence, since SHA-256 tells texts apart. Two histories serve the
property: `delivered[f]` counts the failures of cluster `f` that arrived, and
`born` has the clusters whose row a backfill inserted.

### RootCauseHints

`PendingClusters` is the query with its order and limit, `Summarize` one call for a
batch, in which every cluster gets a hint of its own or none, `SaveHint` one UPDATE
guarded by `root_cause_hint IS NULL` unless `--restale`. The CronJob runs pass after pass; an operator's pass overlaps it.

### Access

API keys: a request over HTTP looks in the cache, else selects and verifies and
then fills it, with time passing in between; over gRPC there is no cache.
Sign-in: `oidcLogin` sets the cookies of a flow, `Authenticate` is the identity
provider, `oidcCallback`, `Exchange`, `VerifyIDToken`, `RoleResolver` and `Answer`
are the callback, whose answer reaches the browser later. Signing keys rotate,
with an overlap, under the JWKS cache.

A token is named by what it stems from, a sign-in or the API key. The halves
meet in `POST /auth/refresh`, which signs the claims of whoever the middleware let
through: of a token, from the header or the cookie (`refresh`), or of an API key
(`refreshByKey`). `kept[b]` are the tokens a client was given and that have not
expired; a logout (`oidcLogout`) clears the cookie and ends none of them.
`minted` is when a key was last exchanged. A behaviour has the clock and the
revocations, or the rotations, or both halves without either (`part`); TLC's
share is bounded that way, and no proof uses it.

Roles decide nothing in the module. Left out with them are the row of `teo.users`
that the callback selects, or makes, by e-mail, and `Require`.

### Migrations and MigrationFiles

`Execute` is one statement, `Record` the row of `schema_migrations`; on Postgres
both become visible with the commit and a second commit of a version meets the
primary key (`Conflict`), on ClickHouse each stands for itself. The image of a
process has any set of files; what lies below its newest one and is missing goes
to `gaps`, as `Up` will never apply it once the newer one is recorded. Two files
of one number are not modelled. `splitSQL` is
translated over lexemes (quotes, comments, dollar tags, semicolons) and compared
with `Cuts`, which says where a semicolon is outside every quotation. A behaviour
of `FilesSpec` either writes a text or migrates, so that one run asks both
questions without multiplying their states; theorems are about `Migrations` alone.

## Runs

| Run | Checks | Instance |
|---|---|---|
| `run_lifecycle` | `ActiveIsPlanned`, `RowsAreDense`, `FailureIsNotOverlooked`, `FollowsStateMachine` (refinement), `PendingIsResolved`, `BudgetIsEnforced` | 1 run that may be a rerun, 2 replicas, 1 planned shard and up to 3 rows, 1 notice, JetStream, 2 faults, fair |
| `shard_execution` | `ReplayedOncePerReplica`, `PreemptedIsReplayed` | 1 polling worker, 2 replicas, 3 tests, 2 planned shards and up to 4 rows, 3 notices, crashes, skipped replays or cancels, fair |
| `shard_execution_faults` | `EveryTestOnce`, `OneThreadPerShard` | 2 workers, 1 replica, 2 planned shards and 1 replay, everything on, 2 notices, cancels or faults |
| `planning` | `EveryTestPlannedOnce`, `NoEmptyShard`, `GrahamBound`, `ReplayAgrees`, `PlanArrives` | 5 tests, durations 0, 2 and 3, three histories, tags, lanes, two hashes, fair |
| `run_intake` | `SameKeySameRun`, `NoSpuriousError` | 2 callers, 1 key or none, 2 commits, 3 runs, 2 faults |
| `subscription_hub` | `FanoutIsServed`, `EndMeansTerminal`, `ChangesArrive`, `EndCompletes` | 2 operations, 1 change, which may end the run, fair |
| `quarantine` | `OneIssuePerTest`, `LinkWorksOnce`, `QuarantinedIsTracked`, `FlakyIsQuarantined` | 1 test, 2 overlapping sweeps, 1 link with 2 clicks, 1 week, 1 fault (a failed read of the number included), fair |
| `failure_clusters` | `LinkIsOfItsTrace`, `CompletePassLinks`, `CountsDeliveries`, `LinkIsFinal` | 2 executions, 2 traces, 2 passes with pages of 1, 2 deliveries, 1 fault |
| `root_cause_hints` | `HintIsKept`, `HintsArrive` | 3 clusters of which 1 is always refused, 2 per pass, 2 processes, 1 fault, fair |
| `check_runs` | `CompletedIsTrue`, `FewCheckRuns`, `VerdictArrives` | 1 or 2 replicas, 2 rows, planned or replays, 2 faults, fair |
| `access` | `GrantIsJustified`, `SessionOfItsLogin`, `RotationIsTransparent` | 2 requests, cache of 2 ticks, 4 ticks; 2 browsers, 2 sign-ins, 2 calls, 3 signing keys, 1 fault |
| `migrations` | `AppliedOnce`, `UpMeansUp`, `SplitAtTopLevel` | 2 processes, images of any files of 2 versions, 2 statements each, 4 starts, 2 faults; all texts of 10 lexemes up to length 4, of 3 up to 8, of 5 up to 6 |

Each component's module has a `TypeOK`, and every one is a theorem or part of one.

Bounds. Two replicas give every conflict over a lock or a row; a third
only repeats the second, and runs meet only in the batch of a scan. One fault is
enough to leave a plan, an issue or a page half way, two to fail the retry as
well. Two workers with two threads each give both claim paths a rival of both
kinds. Five tests on up to three shards are the smallest instances on which
longest-first packing differs from the optimum, and three runs let one key be
created, conflict and be repeated. Two operations give a fan-out a successor, and
one change is enough for every snapshot to be old or new. Tests do not meet in
`Quarantine`, so one is enough; two sweeps race for it. Pages of one make a pass
cross a page boundary. With a limit of two and three clusters a pass leaves one
over, and the refused one can be in its way. Four ticks let a key be cached,
revoked, served from the cache, expire there and be asked for again. Three rows
let one preempted shard be replayed by both replicas; with two planned shards and
four rows `IInv` holds as well, and so does `MigrationsInv` with three versions. Texts
of eight lexemes hold a dollar quotation with a nested tag and what follows it.
Requests, runs, plans, streams and jobs end, so deadlock is not checked.

Fairness. `FairSpec` of `RunLifecycle` asks that a replica goes on with its
loop: `Manager.Run` selects on three tickers, one of them that of the replays, so no
ready branch is starved.
That of `ShardExecution` asks the same of the poll loop, the consumer, the drain
goroutine and the sweep, and that an adapter returns (it runs under a timeout of
30 minutes). That of `SubscriptionHub` asks that goroutines run and that the
database does not fail every read for ever. `PlanningSpec` asks that a call of
`plan` goes on: the ML client has a timeout. `Quarantine` and `RootCauseHints` ask
that the CronJobs of the sweep and of the hints run again and go on, where they are
enabled (`deploy/helm/teo/templates/flake-job-cron.yaml` schedules them); `CheckRuns` that replicas
go on. Faults are bounded, so a retry in the end succeeds. Users, executions, spot
notices, crashes, lost answers and time are never fair.

## Statements of the repository that do not hold

The properties above hold. The following, each stated by a comment, a document or
a test, do not hold of the code; those with a name are defined in the modules,
and TLC refutes them on the instance named or on that of the module's run.

Runs and shards:

- `StoredManifestIsPlanned` (`internal/runsvc/service.go:136`: "Persist the manifest
  as a run-plan precursor so the Run Manager can pick it up."): a scan between the two
  INSERTs finds no manifest and fails the run. 1 run, 1 replica.
- `FinishedRunEnds` (`docs/architecture/diagrams.md:157`: "running --> finalizing: last shard
  finished", also `overview.md:142`): nothing writes 'finalizing', so a run whose
  shards are done stays 'running' until its budget ends it. No finalizer, fair.
- `NeverReplans` (`leader_election_integration_test.go`: a replica that gets the
  lock late "routes to dispatch, never re-planning"): it branches on the
  scanned status and plans again; the unique constraint stops it. 2 replicas.
- `CancelStopsDispatch` (`docs/backlog/stories.md`, S-04-04): a message already in
  the stream is claimed after the cancel.
- `NoTestLost` (the comment on `loadTestsForShard`, `internal/worker/worker.go`): the
  stream carries the scheduler's assignment and polling recomputes a round robin,
  so a run served by both can lose a test or run it twice. 1 worker, 3 tests,
  2 shards, JetStream. Also after a replay, whose new row changes the divisor of
  the round robin for shards that are still pending; and when a shard that was
  claimed from a message is preempted, since the sweep asks for its round robin,
  may find that done and calls the shard 'succeeded'. `loadShardTests`, which serves
  the same rows over gRPC, knows no reshards, so a replay pulled there gets
  the tests of the round robin.
- `ReplayedOnce` (`internal/runmanager/manager.go:457`: "so we don't reschedule it
  twice") with two replicas, the chart's default: `rescheduleOne` does not read the
  marker again under the lock. Hence `ReplayedOncePerReplica`.
- A sweep with an old list also adds a pending row to a run that has its verdict, and
  writes 'succeeded' over a late 'failed' (hence the exception in
  `FailureIsNotOverlooked`). The stored plan does not list replays, so plan and rows
  agree only in the planned part (`RowsAreDense`), and a run that succeeded may
  keep a 'preempted' row.
- `RunningIsHeld`, `ShardsEnd` and `PreemptedIsKept` (the comment in
  `executeShard`) with spot notices or failing statements: the windows around
  `currentShardID` and `draining`.
- `SilentShardIsRecovered` (`docs/architecture/overview.md`, heartbeats): nothing
  writes 'lost'. The spot watcher also fetches its token once for six hours
  (`internal/spot/imds.go:46`) and sees no notice after that.
- `ExclusiveApart` (S-05-02 AC1 asks for different shards): the code and its
  test (`scheduler_test.go`, TestExclusivityConstraint) put tests with one exclusive
  tag together, where they run in sequence. `ExclusiveTogether` is proved, as what
  the code does; no run counts it among the properties.
- `HistoryIsUsed` (`heuristic_integration_test.go`): one test of the repository without
  recent executions has a NULL percentile, which fails the Scan
  (`internal/predictor/predictor.go:132`), and all tests become cold starts. The
  package comment's rolling mean over 30 runs is a median over 30 days. `plan` never
  sets IsQuarantined and always passes the default constraints.

Live updates and checks:

- `ClientConverges` (`internal/api/subscriptions.go:29`): a subscriber's older initial
  snapshot can replace a newer one. 2 operations, 1 change.
- `TerminalCompletes` (the comment on `Hub`: "The subscription completes when the
  run reaches a terminal status"): `isTerminalRunStatus` knows 'canceled', the row
  says 'cancelled', so the stream of a cancelled run stays open. 1 operation, fair.
- The deferred `stopOp` of a completed operation (`graphql_ws.go:193`) looks its id up
  again and cancels a newer operation that reuses the id.
- Two replicas can create two check runs and reopen a completed one; a run whose
  first snapshot is terminal leaves its check in progress; a cancel and the budget
  never notify; the observer too spells 'canceled'; and there is no retry "on the
  next reconciliation tick". The counts of a success can be N of N+1, because a
  replayed shard's 'preempted' row is counted, or zeros.

Tests and failures:

- `NeverASecondIssue` (S-15-02 AC4, `docs/backlog/stories.md:408`): the error of reading
  the issue number is dropped (`internal/quarantine/quarantine.go:160`), and a failed
  read opens another issue, which takes the place of the first in the row.
- `NeverCountedTwice` (`internal/resultpipeline/backfill.go:28`): a failure that a
  backfill links between `Export`'s write to ClickHouse and its count makes the row,
  with a count of one, and is counted again. Hence the one more of `CountsDeliveries`.
- `BrokenIsNotSwept` (S-15-01 AC3): between the flake job's two statements a test
  that always fails has its new score and is still 'active', and is quarantined.
- `MarkedIsQuarantined` (the comment on `setQuarantine`: the manual and the automatic
  path converge): a late sweep leaves its date on a test that an operator restored.
- "a quarantined test that starts failing 100% of the time is escalated"
  (`docs/backlog/epics.md:110`): the flake job marks only 'active' tests broken
  (`FlakeBreak`).
- Nothing under `src/` writes `otel_trace_id`, which the backfill joins on. The
  branch "SkippedNoFingerprint" is dead, as the fingerprint of an empty text is
  not empty. `StackFor` gives up on a trace whose newest error span has no stack. A
  report that is delivered again counts again (`internal/grpcsvc/workers.go:163`
  says "Idempotent"). Two failures of one trace share a cluster. `otlp.go`
  names ReplacingMergeTree where the schema has MergeTree.
- Overlapping passes of the hint job pay for one cluster twice, and clusters the model always
  refuses can fill the limit of every pass (`HintsArrive` excludes that case).

Access and migrations:

- `RevocationEndsAccess` (FR-805, `docs/requirements/functional.md:107`: "revocation takes
  effect within 30 seconds"): a key is admitted for the lifetime of a cache entry plus
  the flight of the request that filled it, and a token that `POST /auth/refresh` gave
  for it stays good until it expires, and each refresh before that gives it
  another lifetime, whatever becomes of the key. The comment at `internal/api/server.go:208`, by which the
  route works "off the JWT the callback issued", is not true of API keys.
- A callback's answer clears the cookies of a newer sign-in
  in another tab; a refresh answered after a logout restores the session;
  roles are not read again on refresh, a failed lookup gives 'engineer',
  they are those of the row with the token's e-mail, though nothing looks at
  `EmailVerified`, and tokens stay valid after a logout until they expire.
- `Up` compares with the highest version, so a file with a lower number that is
  added later is skipped (`internal/migrate/migrate.go:79`) and `Up` reports success;
  `UpMeansUp` therefore excepts `gaps`. On ClickHouse a slow process can
  execute a statement again after a later version.

## Proofs

All theorems hold for every value of the constants that satisfies the ASSUMEs,
which TLC evaluates on every run. In particular they hold for any number of runs
and replicas, where the run has one and two. Each inductive invariant below
was checked by TLC on the instance of its run before it was proved.

The ASSUMEs say that bounds are natural numbers, that "nothing" values (`None`,
`NoKey`, `NoCluster`, ...) are not members of what they stand beside, that the sets
whose members are counted are finite (`Replicas` and `Shards` of `CheckRuns`,
`Execs` and the batches `Requests` of `FailureClusters`), that the rows, reports and spans a behaviour starts
with or receives have the shape of their tables (`InputsAssumption`: a batch is a
sequence, rows of the history are not linked yet), and that a link may be clicked (`MaxClicks` > 0).
Components of one proof module meet only in their theme; the later ones name their
specification after themselves (`ChecksSpec`, `MigrateSpec`, `HintsSpec`).

- `RunLifecycleProofs`: `IInv` is inductive. The safety properties alone are not:
  `PendingIsUnplanned` needs to know that a plan transaction sees 'pending' exactly
  if its first UPDATE matched (`PlanTxKnowsStatus`), which needs the lock
  (`TxHoldsLock`). That rows stay dense needs that whatever a sweep still has on its
  list is a row that was preempted (`SweptWasPreempted`), of a run with a plan. The
  verdict needs that a run scanned as 'finalizing' never goes back (`ScannedRunsExist`,
  `FinalizeTxKnowsStatus`), that no worker writes over a failure on record
  (`LateWasPreempted`, `OnRecordIsEnded`), and that a replica about to write
  'succeeded' has seen them all (`VerdictStaysTrue`). From it follow the type
  invariant, four safety properties, the two action properties (`TerminalIsFinal`,
  `ShardsAdvance`) and the refinement of `RunStateMachine`.
- `ShardExecutionProofs`: `ClaimInv`. A thread's shard has left 'pending' and no
  action leads back, so a second claim finds its guard false; `RowsAreContiguous`
  makes `count(*)` a free index, so a replay cannot overwrite a row in use.
  `OneReplayPerReplica` holds for any number of replicas: by `ReplayInv` what has been
  replayed carries the marker, and the list of a replica names no shard that this
  replica has replayed. `SharedOutExactly` holds with JetStream, spot notices,
  crashes and failing statements; its cases are in the property, not in a hypothesis
  on the configuration. By `SharesInv`, while nothing is replayed the rows are the
  planned ones, so every claim by polling computes its share with the same divisor;
  what a thread has not to run any more is recorded, or a failed statement
  dropped it.
- `PlanningProofs`: `PackInv` of the scheduler. Every placed test is in one bin, tags
  have one owner, and bins are filled from the first (`FilledFromTheFirst`), because
  the least loaded bin with the lowest index is taken and every duration is
  positive; hence no empty shard survives the cut of the tail. Then `PlanningInv`:
  until the predictor has answered, `PlanFunc` has not begun (`Started`); whatever it
  answers is a natural number, and `PackInv` holds from there on. So the plan is a
  partition without an empty shard whether the durations come from
  the service, the history or neither.

  `BoundFromAnyPrediction` is Graham's bound, which `PlanFunc`'s comment claims.
  `GrahamBound` is about finished plans only; `BoundInv` says it of every bin
  after every placement (`BoundSoFar`) and that a load is the work of its bin
  (`LoadsAreWork`). Because work is a cardinality, the sums are bounded by the
  library's facts about finite sets, without an induction. A test that takes at
  most a third of the optimum is put on a bin that has at most the average of
  the rest (`WorkBounds`); a longer one finds an empty bin or one with a single
  test, and by a pigeonhole argument that fits the optimum (`ThreeInAShare`,
  `LongTestsFit`), since an optimal share has room for two such tests only.

  `ReplayFromAnyPrediction` says that `teo replay` recomputes the stored plan. Its
  hypothesis `HashesDiffer` is that `stableHash` tells the active tests apart: tests
  with equal durations and hashes are packed in the order of the input, which the
  replay changes. `AgainInv` describes a packing without its order of input: every
  test is in the bin that was best for it given the tests sooner than it
  (`Greedy`), so the plan is a function of durations and hashes. While planning again, the
  bins are a beginning of the stored ones (`StoredIsPlan`); the next test has the same
  earlier ones in both, hence the same best bin.
- `OnceOnlyProofs`: `IntakeInv` of `RunIntake`. The index gives one row per key, and
  every answer is traced to a row of its key and commit. `MigrationsInv` of
  `Migrations`: versions are recorded without a gap but those in `gaps` (`NoGap`), since a process goes
  on from a version it read or recorded itself, and on ClickHouse the statements it
  counts have been executed (`ProcInv`). `AppliedOnce` is then kept by the primary
  key, `UpMeansUp` by the order of the loop. `HintsInv` of `RootCauseHints`: a pass
  saves only for clusters it has an answer for, which the step that drops a saved
  cluster from the batch must keep; hence a hint is never emptied, and `HintIsKept`
  follows from the guard of the UPDATE.
- `RunReportsProofs`: `HubInv` of `SubscriptionHub`. `OpenIsMember` and
  `FanoutIsServed` need each other when a fan-out is replaced, and both need that an
  operation owns nothing in the hub before it registers (`UnregisteredIsBlank`);
  `EndMeansTerminal` needs that what a loop has seen of the end is still true when
  it closes the channels, its own or not (`SeenEndIsReal`). Steps that only move
  snapshots are `Quiet` and are handled by one lemma. `CheckRunsInv` of `CheckRuns`:
  a terminal status in a snapshot is the row's, one replica at a time holds a
  verdict, and a shard that fails under a success was written after finalize read
  the shards (`VerdictInv`); until an id is stored a check run belongs to
  a fault or to a replica about to store it, afterwards only replicas about to
  create one can add to their number (`CreateInv`).
- `AccessProofs`: `AccessInv`. For the keys, the cache holds nothing for a wrong
  secret and outlives the SELECT it rests on by `MaxFlight` and `CacheTTL` at most
  (`KeyInv`, `Covered`); a request in flight read the key when it was valid, so a
  key is exchanged for a token no later than it would be let in. For
  sign-in, every cookie and callback refers to a flow of its own browser, and every
  token on its way to a client or in its hands to such a flow or to the key
  (`LoginInv`, `Rightful`). Steps of one half leave the other's invariant alone; the
  exchange of a key is the one step that touches both. `RotationIsTransparent` needs that no token is signed with a key
  newer than the provider's newest (`KidInv`), so that a key that is missing in the
  cache is found by the one refetch.
- `QuarantineProofs`: `QuarantineInv`. `LockInv` says that a sweep holds the row of
  `flake_records` from its UPDATE on and has an issue of its own only where the row
  names none or the number could not be read, `IssueInv` that every issue but the one
  named by the row or held by that sweep is paid for by a mishap, `LinkInv` that one request at a time has read a link and found it
  unspent. So two sweeps, or two clicks, cannot each believe to be the first.
- `FailureClustersProofs`: `ClustersInv`. Rows are inserted whole; what a cache, a
  queue or a fetched answer holds is of the trace it is kept for (`Caches`, `Queue`,
  `SourceInv`); and while a pass has met no error, a failure it must link is
  linked, on its list or ahead of its cursor (`Owed`), so that at its end it is
  linked. `LinkIsFinal` is an action property from the same invariant.
  `CountsDeliveries` is not inductive, as what is exported and not yet counted will
  raise the count without another delivery: `CountsInv` adds the places of the
  cluster still to be counted to its count (`Uncounted`), and knows that a row a
  backfill inserted stays. A delivery pays for the failures of that cluster that
  it carries, and counting moves one from the second number to the first.

Model-checked only, and why:

- liveness (`PendingIsResolved`, `BudgetIsEnforced`, `PreemptedIsReplayed`,
  `PlanArrives`, `ChangesArrive`, `EndCompletes`, `FlakyIsQuarantined`, `HintsArrive`,
  `VerdictArrives`): the prover does not reason about fairness;
- `SplitAtTopLevel`: `splitSQL` is a recursive operator, which the prover does not take.

The other properties of the runs, 30 of 40, are theorems.

## Not modelled, and the plan

Left out for good: child processes and output parsing of the adapters, object
storage, redaction, metrics, token cryptography, floating-point scores, the text
of issues, comments, prompts and reports, the web UI and the ML service. The
digest sends a read-only report and keeps no record of what it sent; the webhook
checks a signature and decodes one event; exports and most resolvers only read;
audit and cost are single statements. `PROJECT.json` gives the reason for each.

In order:

1. The operation ids of a WebSocket session, next to `SubscriptionHub`.
2. Roles: the row of `teo.users` behind a sign-in, and `Require`.
