# Formal model of NewsRadar

NewsRadar collects news from a catalog of sources, clusters it into events and publishes a daily report
with audio. It is one PostgreSQL database, a web application, and one or more *worker* processes that
take durable **operations** from a table and run a handler for each. Everything that takes long, or has
to survive a crash, is an operation. This directory holds TLA+ models of that machinery and of the rules
it applies, the TLC configurations that check them and the TLAPS proofs about them.

`tlc -config X.cfg MCModule` checks a configuration; `tlapm M.tla` checks the proofs of the `*Proofs`
modules. `PROJECT.json` lists the runs, the source lines each definition stands for, the hazards, and for
every property a mutation of the code that breaks it. Paths below are relative to `src/newsradar/`.

## 1. The system

| Component | State | Operations | Hard because | Correct means | Modelled |
|---|---|---|---|---|---|
| **Operation queue and workers** `operations/repository.py`, `worker.py`, `cli.py` | `operation_runs`, `operation_attempts`, `workers`; main thread, handler thread | enqueue, lease, renew, heartbeat, cancel, finish, run_once | lease expiry and late revival, crash, reclaim, cancellation races, a handler that outlives its lease, row lock order | one history of attempts, one final verdict, cancellation decides, late actors change nothing, everything ends | `OperationQueue`, `OperationContract`, `LeaseLocks` |
| **High-value wave** `waves/repository.py`, `runtime.py` | `high_value_wave_members`, progress; asyncio tasks, fetch threads | claim, finish members; judge; event stage | two attempts work on the same manifest; the verdict is read and used later | no verdict lost or overwritten, exact progress, events only from a complete manifest | `WaveMembers` |
| **Daily autopilot** `daily_reports/autopilot*.py` | `daily_autopilot_runs`, continuation operations | one handler per stage, web cancellation | a chain of transactions that a crash can separate, children that fail, duplicates | the run ends, steps are neither repeated nor lost | `DailyAutopilot` |
| **Daily schedule and retention** `daily_reports/automation*.py`, `retention.py` | schedule row, runs of the day, sweep | tick, trash, purge | the clock goes on inside a transaction; a page changes what the sweep has read | one scheduled run per day; nothing unexpired is purged | `DailySchedule` |
| **Daily reports** `daily_reports/repository.py`, `service.py`, `accumulation.py` | reports, rows, items, reviews, revisions, trash | publish, revise, review, archive, trash, restore, purge | what a publication read is stale when it writes; restore and purge rearrange chains | chains ordered and connected, numbers never reused, the day accumulates | `ReportRevisions`, `ReportContent` |
| **Report page and texts** `daily_reports/intelligence.py`, `text_integrity.py`, `web/daily_report_queries.py` | — | list, count, speak, accept | each place decides for itself which rows count | what was accepted is spoken, what is spoken is listed | `ReportPage` |
| **Report audio, purge** `audio_runtime.py`, `purge_runtime.py` | audio rows, staged files, purge queue | generate, publish, purge | file and row are not one transaction | no offered row without its file, no file left by a purge | `ReportAudio` |
| **Operation commands** `operations/commands.py` | — | one enqueue with its guard per type, retry, cancel, recover | check-then-enqueue races | at most one active wave, refresh, remediation, run | in the module of each type |
| **Ingestion** `ingestion/service.py`, `repository.py` | runs, items, snapshots, conditional state, advisory lock | fetch, upsert, commit state | an item fails, an interruption between items, concurrent fetches | idempotent upserts; what the stored state passes over is in the rows, or on record as left out | `SourceIngestion` |
| **Fetchers** `ingestion/fetchers/` | cursor, tag | fetch a page | pages shift while they are walked | nothing is passed over but what a call had no room for | `PlatformPages` |
| **Source rules** `waves/planning.py`, `ingestion/eligibility.py`, `trial.py`, `sources/` | — | plan, admit, probe, weigh answers | five gates that each decide for themselves | what is planned is fetched, a trial names no credential | `SourceRules` |
| **Source catalog refresh** `sources/catalog_refresh*.py` | members, claims, lanes | claim, probe, finish, retry, recover | two handlers, different definitions, members stranded by a crash | one attempt asks for a member, verdicts kept | `CatalogRefresh` |
| **Source remediation** `remediation/` | frozen batch, evidence, probes, trial fetches | enqueue, probe, link, fetch, report | rows of cut off attempts, concurrent commands | what is fetched or verified rests on a complete chain | `SourceRemediation` |
| **Event pipeline, merges** `events/`, `event_merges/` | versions, members, leases, manifests, candidates | publish, split, merge, claim | reads and writes in several statements, expired leases | versions rebuildable, merges join what was reviewed | `EventVersions` |
| **Event rules** `events/clustering.py`, `evidence.py`, ... | — | select, pair, cluster, grade, propose | many thresholds over many fields | events are what the texts bear out | `EventRules` |
| **Model clients** `ai/`, `events/minimax.py`, `chinese_enrichment.py` | usages, kept texts | call, repair, fall back | budget over several attempts, crash between call and record | every text attributed, budget kept | `ModelCalls` |
| **Local database** `local_postgres.py` | cluster, configuration, `.env` | init, repair, start, stop | each step may fail or be killed | the stored address is usable | `LocalPostgres` |
| **Desktop shell, supervisor** `desktop/`, `runtime.py` | child processes | start, stop, quit, clean up | process identifiers are given again, windows die | what a window started is gone when it stops, others are left alone | `DesktopRuntime` |
| **Web application, schema** `web/`, `db/models.py` | — | pages; actions that call commands | an action spans transactions | — | in the module of what changes |
| **Research, origin resolution, coverage closure** | — | offline reports, network I/O | — | — | no (section 7) |

The parts meet in the database. The web application, the command line, the schedule and handlers
*enqueue* operations; workers *lease* the oldest ready one, run its handler outside any transaction and
*finish* it. A handler is told to stop through checkpoints, which read the lease and the cancellation
flag. Handlers write their own tables between checkpoints, so their own fences (a claim, a stage, a
unique index) have to work when the lease was lost meanwhile. The autopilot waits for waves and audio
without holding a worker: it enqueues a delayed continuation and returns.

## 2. Modules

### `OperationContract`
What the rest of the program may assume of an operation: it is submitted once, begun at most
`MaxAttempts` times, given back only when not cancelled, decided once, and CANCELLED exactly if a
cancellation was accepted. Five actions on `status`, `attempts` and `cancel`. `WaveMembers`,
`ReportAudio`, `CatalogRefresh` and `SourceRemediation` are built on it, which replaces leases and workers
there by their effect; `OperationQueue` implements it.

### `OperationQueue`
`operations/repository.py` together with `operations/worker.py` and the loop of `cli.run_worker`.

| TLA+ | Code |
|---|---|
| `status attempts lessee lease due cancel` | columns of `operation_runs`; `lease` is open or expired, `due` says whether `next_attempt_at` has passed |
| `row`, `runner` | `operation_attempts` |
| `current` | `workers.current_operation_run_id` |
| `main`, `held` | the main thread of a process in `run_once`, and the lease it holds |
| `thread`, `seen`, `outcome` | the handler thread, `cancellation_seen`, what it returned |
| `LeaseNext Finish… RequestCancel IdleHeartbeat Enqueue` | one transaction each |
| `MonitorRenew`/`MonitorRead`, `CheckpointRenew`/`CheckpointRead` | the lease guard, which renews in one transaction and reads the cancellation in another |
| `MonitorError` | a lease check that raises: `run_once` finishes the attempt, the handler thread stays |
| `Mature`, `Lapse` | time: a delay or a lease runs out, at any moment |
| `Crash`, `Start` | a worker process dies with its threads, and is started again |

Leases have no clock: an open lease may expire whenever no transaction runs, and a late renewal revives
it as in the code, unless it was reclaimed. `IdOf` maps processes to worker identifiers, so that two
processes under one `--worker-id` can be modelled. `MonitorErrors` switches lease checks that raise, which
leave their handler thread behind; `queue_live` has them.

### `WaveMembers`
The manifest of one wave and the handlers of *all* its attempts, since a reclaim or a raising lease
check leaves the former handler running. The members are interleaved where the code awaits a thread:
`Claim` up to the submission to a thread is one block of the event loop, as is the processing of a
result (`LoopIsFree`). `FetchStart` and `FetchEnd` are the thread with the advisory lock of the source.
`Judge` reads the manifest after the gather, `EventStart`/`EventEnd` the event stage. A checkpoint
(`Passes`, `Raises`) may pass for the handler of an old attempt while another attempt of the same worker
is running, which is what `OperationQueue` shows of the real one.

### `LeaseLocks`
The order in which transactions lock rows, with the modes PostgreSQL uses (FOR UPDATE, an UPDATE that
keeps the keys, the key share of a foreign key check). Each transaction is the sequence of its locks.
It exists because the docstring of `_lock_lease_rows` argues about this order. `Reclaim` is `lease_next` on an
expired lease, which locks in another order (section 4).

### `DailyAutopilot`
One `daily_autopilot_runs` row per run, its continuation operations (`ops`), waves with their reports
and audio as children, and the worker. A handler `Load`s the run, passes a checkpoint (`Confirm`), does
the work of its stage in transactions of their own and ends with `Move`, which writes the run and
enqueues the next continuation in one transaction. `Crash` and `Stall` fall between any two of them.
`CancelRead`, `CancelAudio`, `CancelRun` are the transactions of the web request. `OtherWave` is a wave
of another client, `Trouble` an exception in a stage. Only the content route is modelled: a run is
always created at `enqueue_content_wave`, and the older source refresh and event pipeline stages work
like its wave stages.

### `DailySchedule`
The tick that every worker calls once a minute. It is one transaction that locks the configuration row
and keeps it, so ticks follow each other; but it reads the clock again at every step (`time`, in half
days), and the page trashes, restores and pins reports meanwhile. `tick` is what the open transaction has
read and written; `Commits` and `Rollback` end it. `retained` is place, `purge_after` and `pinned_at` of
each report, `removals` the active purge operations, `autoRuns` the runs.

### `ReportRevisions`
All reports of one day. A report `supersedes` (`parent`) another one: a publication, which accumulates
the archived heads of the day, or a revision of an archived report.

| TLA+ | Code |
|---|---|
| `reports` | `daily_reports`: status, operation, window, `supersedes_report_id`, revision, `deleted_at`; `overview` is the set of operations whose events the overview shows |
| `counter` | `daily_report_revision_counters` |
| `publication` | what a caller of `generate` holds in memory between its reads and its insert |
| `purges` | scopes of the purge operations that are queued or running |
| `PublishBegin`, `PublishCheck`, `PublishInsert`, `PublishEnds`, `PublishConflict` | `begin_publication`, the heads read again, the insert, its answer or error, and the retry after the index refused it |
| `Revise Archive MoveToTrash Restore EnqueuePurge PurgeMember` | one transaction each |
| `LiveRoots`, `LiveChildren` | what the two partial unique indexes count |

A publication takes several steps, because it reads and writes at different points of a READ COMMITTED
transaction and a conflict gives up the lock of the day (`DayFree`). The other transactions lock what
they decide on, or are refused by the two indexes when they lose a race; a refused one is one that did
not happen. Three things are more general than the code: running audio, which also blocks the trash and
the purge of a report, is left to `ReportAudio`; of two heads with the same window end either may be
superseded; and the members of a purge are tried in any order, any number of times. A purged row is kept
as history with its number.

### `ReportContent`
What those reports say: rows of an overview, each one version of an event with its disposition and its
latest review, and the items of the decision edition. `PublishOverview` folds the rows of the heads of the
day and of a new operation as `accumulation.py` does, `Revise` copies one report; new versions, degraded
displays, merges, reviews of the editor and the autopilot, `Archive`, `TrashReport` and `RestoreReport` come
in between (`rare` bounds the unusual ones). The two loops of `accumulation.py` are recursive functions:
`Accumulate` over the rows of one report (`Added` is the body of the loop), `Baselines` over the heads
(`WithHead`). Here a publication is one step; its interleavings are in `ReportRevisions`.

### `ReportPage`
One report from its draft to its audio. Page, archive, script and audio handler each work out by
themselves which rows of the overview count; the module has all four (`Listed`, `Counts`,
`OverviewScript`, what enqueues and what checks an audio) over rows with a tier, a rank, a review and texts
that are whole or damaged. The page lists rows by their position, the script speaks them by their rank.

### `ReportAudio`
One archived report, the handlers of all attempts of its audio and purge operations, and the retention
sweep of that report.

| TLA+ | Code |
|---|---|
| `report` | the row of `daily_reports`: there, in the trash, purged |
| `artifact`, `file` | one row of `daily_report_audio_artifacts` per attempt, and its mp3 file, perhaps cut off |
| `purgeQueue`, `todo` | `daily_report_audio_purge_queue`, and its rows as a purge handler read them |
| `at`, `outcome` | where a handler is between its transactions and file operations, and what it returns |
| `swept` | what the retention sweep knows between reading the busy reports and locking the others |
| `Busy` | `_active_daily_report_ids`, `_trash_block_diagnostic`, `_has_active_work` |
| `ReadReport` | `DailyReportQueryService.detail`, which does not find a report that is in the trash: the audio fails |
| `InsertArtifact Spoken WriteFile Written Unlinked WriteFailed Publish` | `DailyReportAudioHandler`, one action per transaction, checkpoint and file operation |
| `PurgeRows ListFiles UnlinkFile DequeueFile Cleaned` | `DailyReportPurgeHandler` |
| `Retry` | the generic retry, which copies a terminal operation whatever became of its report |
| `Die`, `MonitorError`, `Lease` | a crash, a raising lease check, a reclaim: each is a fault, as is a cancellation |

Rows and files cannot be written in one transaction, so every gap between them is a place where an
attempt can be cut off, cancelled or overtaken by the next one. Only files that were written to the end
count for the purge.

### `SourceIngestion`
Calls of `fetch_source` by any handlers. Each holds the advisory lock of its source from `Acquire` to
`Release`; `Respond` is the request with `_start_run`, whose answer may have all items or some (a fetcher's own
`partial`); every item is a transaction of two steps, `Upsert` (what it finds and decides) and `Commit` (what
others see, with the entry in the audit), because calls for other sources commit in between; `Close` writes
outcome, counts and the state of the next conditional request, after a partial run like after a good one
(`StatesAfter`). `Interrupt` is a checkpoint that raises or a dead process at any point. Items change URL and
external id, so `Target` has to find the row of an item by either.

### `PlatformPages`
The fetchers of feeds, lists and platforms with cursors: what each makes of an answer, which posts it
keeps, and which cursor and tag `IngestionService` stores. Posts are numbered, the newest is shown first;
a walk takes several fetches while posts are added and withdrawn. A cursor that is not of the endpoint is
refused by Mastodon and Bluesky (`MayAsk`, `Refuse`), while GitHub begins again at its first page (`Start`).
`dropped` remembers what a call got beyond its limit.

### `SourceRules`
The gates as functions of a source definition, its latest probe and the configured credentials: the plan
of a wave, the gate of a fetch and of a trial, the choice of a fetcher, the lanes of a refresh, the health
wave; and what answers are taken for by probes and fetches. A definition may have any kind of method at any
kind of host, as `AccessMethod` allows. `Tried` is what a trial fetches after its gates (`Passed`) and the
refusal of the fetcher factory (`Fetcher`), which looks at the one method that the gates let through. The
state enumerates the inputs, and for a sequence of answers the record that the rounds of a refresh keep of it
(`weighed`).

### `CatalogRefresh`
Batches with their frozen members, the commands that create, retry and recover them, and the handlers of
all attempts, each with its own idea of the source definitions (`drift`). The three lanes are phases of a
handler: content members as concurrent tasks (`ClaimContent`, `ProbeEnd`), capability members by provider
(`BeginGroup`, `ClaimGroup`, `GroupProbed`, `FinishCapability`), catalog entries one by one
(`CheckCatalog`, `FinishCatalog`). `ReadPlan` and `EnqueuePlan` are the two halves of a retry or recovery
command, between which other commands run. `probed` remembers which attempts sent a request. `counted` has the
batches whose row has a `progress_total`: the generic retry copies a row without it, while a batch that was
created with no members has 0 of 0, and succeeds.

### `SourceRemediation`
Rows of `source_probe_runs`, `source_acquisition_probe_runs` and `fetch_runs` as sequences, the frozen
batch, remediation and trial operations with their handlers, and the commands of the operator (`clerk`),
which clear a source in one transaction and enqueue in another. `Verified` is the conclusion of the
report, joined from the rows as the report joins them.

### `EventVersions`
Events, their immutable versions and the rows that say when an item joined and left. Pipelines work in two
phases (`plan`, `publish`) with the row read first (`ReadEvent`) and the members by a later statement;
editors validate before they claim; merge decisions name the versions they were made for. Leases expire
between any two steps (`LeaseExpires`); the unique index on version numbers decides what is left
(`MayPublish`, `PublicationConflict`).

### `EventRules`
Selection, blocking keys, pairing, clustering, evidence, tiers and merge proposals as functions; a text is
the set of the terms of the rules' word lists that occur in it. The state enumerates the inputs, and for a run of items its clusters while they are joined pair by
pair (`clusters`, `left`).

### `ModelCalls`
The calls of a batch as tasks of one event loop: slots, a first call and one repair, fallbacks, budgets,
checkpoints; then the results are saved one by one (`Save`), events as well as texts of a report, and a crash
or a checkpoint that raises may fall before any of them (`Die`). It covers the enrichment of events and the
batches of a report, with one handler at a time (section 7).

### `LocalPostgres`
The commands `db init`, `repair`, `start` and `stop`, step by step against the data directory,
`postgresql.conf` and `.env`; each step may fail and the process be killed between any two.

### `DesktopRuntime`
Windows, the service each starts (supervisor, web, worker), and the clean-up of processes that were left
behind, over process identifiers that the system gives again. Processes die by themselves, the system may
deny access to their identity, also when the tree is read that is to be stopped (`Snapshot`), a service of the
command line runs beside. A supervisor that is told to stop ends its children first and itself after them.

### Composition
`MC*` modules hold the model values, input sets and symmetry sets for TLC. `MCDaily` puts `ReportPage`,
`ReportAudio`, `ReportContent` and `LeaseLocks` into one specification, `MCReportRevisions` `ReportRevisions` and
`DailySchedule`, and `MCRules` `EventRules`, `SourceRules`, `SourceIngestion`, `ModelCalls`, `PlatformPages`,
`LocalPostgres` and `DesktopRuntime`. The parts of such a run share no state: `part` chooses the one whose
steps a behaviour takes, and the others keep their initial values, so each part is explored as if alone.
The `*Proofs` modules hold the theorems.

## 3. Runs

| Run | Instance | States | Question |
|---|---|---|---|
| `queue` | 2 operations, 2 workers, 2 attempts, 1 crash | 251 k | safety of the queue, and that it implements the contract |
| `queue_live` | 1 operation, 2 workers, 2 attempts, 2 crashes, raising lease checks | @queue_live | does every operation get a verdict? are histories and checkpoints fenced, also with handlers that were left behind? |
| `wave` | 3 members, 2 attempts, 2 at a time | @wave | manifest, progress, fences, event gate |
| `autopilot` | 1 run, 3 waves with a foreign one, 1 worker, 1 fault, 1 cancellation | @autopilot | chain, stages, publication; does the run end? |
| `reports` | revisions: 4 reports, 2 operations, 1 window, 1 publisher, 1 purge of 1 report; schedule: 1 report, 2 plans, 3 half days, 2 runs | @reports | chains through publication, trash and purge; one run a day, expired reports |
| `daily` | page: 2 rows; audio: 1 audio, 2 purges, 2 attempts, 1 fault; content: 3 reports, 2 events, 2 per section, 2 unusual things; locks: 2 members, with reclaims | @daily | page and audio, rows and files; does the day accumulate? who waits for whom? |
| `events` | 2 events, 2 items, 2 pipelines, 1 editor, 1 decider, 3 versions, 2 at a time | @events | versions, manifests, merges |
| `catalog` | 2 batches, also one without members, 2 attempts, 2 handlers, sources of all lanes | @catalog | requests, verdicts, progress |
| `remediation` | 2 sources, 2 clerks, 2 remediations, 1 trial, 2 attempts, 1 fault, 3 probes, 2 evidence rows | @remediation | chains of evidence, of two remediations at once |
| `rules` | inputs of `MCEventRules`, `MCSourceRules`; ingestion: 3 calls for one source, 2 URLs, 2 external ids, 2 faults; 3 candidates of the model; 3 posts of 13 platforms; 2 ports; 3 process identifiers, 4 processes, 2 windows | @rules | rules, identities and audit, calls, pages, set-up, processes |
| `locks` | 1 member | violation | is the documented lock order kept by the reclaim, too? |
| `cumulative` | 2 reports, 2 events, 1 merge | violation | does a merged event stay in the list of the day? |

Why the bounds are enough. *Attempts*: two attempts show a former and a present holder of an operation.
*Workers*: every hazard of the queue is between the one that had the lease and the one that has it; the
autopilot has one worker because the supervisor starts one. *Crashes*: one crash per operation makes a
reclaim; `queue_live` lets as many crashes as attempts happen. *Members*: three members with a limit of
two make one wait for a slot while two are in flight. *Waves*: a run may enqueue one, enqueue another
after a crash, and meet one of another client. *Clerks*: two can pass the check for an active remediation before
one of them inserts; `MCProbedInTurn` lets the third probe of a source begin only when no more than one of the
requests and remediations is under way. *Slots*: continuations that exist at once;
`ContinuationsAreBounded` shows the bound is not reached. *Reports*: a chain of three and one report beside
it, or four in a row, so that one is purged out of the middle while another takes its place. *Events*: a
pair is what a merge, a split and an exchange of items need; two pipelines race for each. *Ingestion*: two
items that trade URLs and come back under each other's external id, over three calls; sources share no row, and
what a call reads of another source is only copied into the duplicate candidates. *Content*: the third report is the
first that inherits what was inherited. *Half days*: a tick before and after 07:30 and over midnight.
*Identifiers*: three, so that a dead supervisor's number goes to another program while its child lives.
The proofs of section 5 remove these bounds for the modules they cover. The content part of `daily`, and
`cumulative`, have the constraint `HasRoom`: the last report is checked when it is made and not edited any more,
which no property looks at.

TLC's check for deadlock is on where the system always goes on (`OperationQueue`). A wave that was decided, a daily
run that ended, a day without reports left to make, a purged report or an evaluated input do stop, so
their configurations switch it off.

## 4. What the runs show

A checked property is often a conjunction of named parts, which the modules define and comment one by one.

**Queue.** `HistoryIsSound`: types; attempt rows are exactly the history of their operation and only the
newest may be open (`AttemptsAreLinear`); a worker row bound to a running operation is its lessee's.
`CancellationIsExact`: an accepted cancellation decides the verdict in every race with finish, retry and
reclaim, and a lost lease never looks like a cancellation afterwards. `HistoryIsFenced`: results of
reclaimed attempts are dropped. `CheckpointsAreFenced`: a lost lease stops a handler at its next checkpoint, if its worker still waits for it and
has an identifier of its own; checked where lease checks raise and leave other handlers behind. It cannot say so
of those (see below). `ImplementsContract`: the queue refines
the contract. `Settles`: every operation gets a verdict, unless its last attempt was abandoned.

**Wave.** `ManifestIsSound`: progress equals the number of finished members, the event stage selects from
a manifest that no longer changes, success is reported for complete waves only, the incomplete-manifest
guard never decides a wave. `VerdictsAreFenced`: verdicts are final and an older attempt never overwrites a
newer one.

**Autopilot.** `ChainIsSound`: an active run always has a continuation for its stage, and continuations are
bounded by faults and cancellations. `PublicationIsSound`: a report gets audio once, success means
published. `StagesAreOrdered`: stages only advance, a report is archived after its review. `RunEnds`: a run ends wherever a
crash falls, as long as nobody cancels its continuation and faults do not use up the attempts of one; from
there the code has no way on.

**Schedule.** `OneScheduledRun`: one scheduled run of a day at most, through deferrals, midnight and manual
runs. `OnlyExpired`: a scheduled purge removes a report only when its time in the trash is over, although
the page may restore, pin and trash it again meanwhile, and the purge handler does not look at the date.

**Reports.** `LineageIsSound`: nothing supersedes a purged report, revisions grow along a chain, no number
is given twice, a report has one live successor at most and an operation one live root.
`OverviewNeverShrinks`: a report shows whatever the one it supersedes shows, also after those between them
were purged. `LineageIsKept`: a purge changes nobody's ancestors but by the report it removes.

**Content and page.** `DayIsCumulative`: the next publication tells of whatever the heads of the day tell
of, of every event once, and loses no complete display. `RejectedStaysOut`: an event whose complete display
the last head to tell of it rejects is in the next decision edition only with a newer version.
`PageIsSpoken`: the script has the rows the page lists, each once, under its headings, the counts add up,
and an audio that was accepted for a report is made.

**Audio.** `FilesFollowRows`: an artifact that is offered has its whole file, and a purge that was reported
as done left neither row nor whole file, whichever attempts were cut off, overtaken or cancelled.
`NoAudioOfPurgedReport`: a report is not purged under a handler that is making its audio, not even one
whose operation is over, because the running artifact, and not only the operation, counts as work.

**Locks.** `OnlyReclaimsDeadlock`: transactions on the rows of a wave wait for each other in a circle only around
a reclaim that holds the operation, and the maintenance of the very attempt it takes over; member updates,
verdicts, heartbeats and cancellations are in no circle of their own.

**Events.** `VersionsAreKept`: the members of every version can be rebuilt from the rows, and the manifest
of a pipeline names versions that were published. `MergedAsReviewed`: a merge applies to the versions that
were reviewed. `RulesAreSound`: what is selected, compared, confirmed and proposed is what the texts and their
roots bear out, symmetric in its inputs. `ClustersAreEvents`: items of one identity end in one cluster, and
nothing else joins items further apart than the window.

**Sources.** `RefreshIsExact`, `VerdictsAreKept`: requests for a member come from one attempt, progress
counts finished members, one refresh is active, only a worker with other definitions disturbs a verdict.
`TrialsRestOnEvidence`, `VerdictsAreTraceable`: a trial fetch and a verified source rest on one chain of
rows, from the frozen failure to the fetch, also of two remediations at once. `RowsAreKept`: a URL of a source is
one row, and what the next conditional request leaves out is stored, or is in the audit as left out: for a
conflict with two rows, or for a failure in a partial run. `RunsMatchAudit`: counts are those of the audit, and no
run with a failed item is a success. `AccessIsAsAllowed`: what a wave plans its fetch admits; a trial names no
credential and sends no secret header, and its fetcher reads a credential only for a feed or timeline that a
platform with a fetcher of its own offers; what may be tried is refused only if the source is paused or disabled,
or for the first of its methods that may be tried; answers are weighed alike. `NothingIsSkipped`: no cursor or tag
passes over a post that is shown, but for what the call that got it had no room for, which only calls of feeds
and of links made for another limit leave (`LimitsAreAsked`), and for releases that were withdrawn from under the
page numbers of GitHub.

**Model, database, desktop.** `CallsAreAccounted`: every kept text says who wrote it, a report's budget
holds over several attempts, also when one ends between two texts that are saved. `UrlIsUsable`: the address in
`.env` is that of a whole cluster. `NothingEscapes`: a window that stopped its service or quit leaves none of its
processes, unless it died or was denied the identity of one. `OthersAreLeftAlone`: it stops no one else's.

**Fairness.** *Queue*: clocks advance (`Mature`, `Lapse`); the worker loop polls for ever and is started
again; a transaction that can run runs; handlers have a deadline and return, which is strong fairness
because checkpoints interleave with the return; likewise the monitor cannot check for ever after the
handler has ended. No fairness for cancellations, crashes or errors. *Autopilot*: each worker goes on
and leases what is ready; children are strongly fair, because `lease_next` takes the oldest ready
operation and a continuation is younger than its child and delayed.

### Where code and documents differ

Two are kept as runs. `locks`: the docstring at `operations/repository.py:305` has the attempt row acquired first,
since the opposite order "creates a PostgreSQL deadlock with concurrent member completion"; `lease_next` locks the
operation first (line 97) and flushes the attempt of the former lessee after it. A late heartbeat of that attempt
and the reclaim wait for each other, `NoDeadlock` is refuted, and PostgreSQL has to abort one of them. `cumulative`:
`docs/superpowers/specs/2026-07-19-daily-report-lifecycle-closure-design.md:34` has items that were found to be
duplicates marked as such instead of disappearing from the cumulative list; of two rows of events that were merged
the next publication keeps one (`daily_reports/accumulation.py:191`), `MergedRowsStay` is refuted.

The others were met while modelling, with instances that are not kept; each is what the code does, against the
line that says otherwise where there is one.

*Queue.* An operation whose last attempt crashes stays RUNNING for ever (`operations/repository.py:80`
against `docs/superpowers/specs/2026-07-11-raw-item-ingestion-v1-design.md:317`). `renew_lease` ignores the
status of the attempt and compares identifiers: a handler that a raising lease check left behind passes checkpoints
under the lease of a later attempt of its worker, and so does another process of the same identifier. That is why
`CheckpointsAreFenced` speaks of the handlers that are waited for, under an identifier of their own, and why the
other modules let the handlers of old attempts go on.

*Autopilot.* A cancellation that falls between the read and the transition of a handler is overwritten
(`autopilot_repository.py:116`). The draft of a failed run blocks later runs of its day
(`daily_reports/repository.py:126`, `docs/HANDOFF.md:127`). With two workers the order of the stages and
`SuccessIsPublished` are refuted, with as many faults as attempts `RunEnds`. A continuation that is cancelled on the
page of operations leaves its run active. A cancelled run leaves its queued continuation behind. `daily_report_decision_audio_incomplete` is raised for a state that is not reached.

*Schedule.* A tick that passes midnight raises `daily_automation_schedule_not_due`, rolls back, and as a
`ValueError` ends the worker loop, which catches only database errors. A sweep begun before midnight is
marked after it and skips the next day. A failed scheduled run is not tried again that day. Reports that
can never be purged come first in every batch of twenty.

*Reports.* An item excluded in one report can come back in the next (`repository.py:822` against
`accumulation.py:13`). When the last head rejects a degraded display, an older head may still hold a complete
display of an older version, whose key nobody rejected, and that one is selected again: with four unusual
things instead of two TLC finds it, which is why `RejectedStaysOut` speaks of complete displays. With three
events a publication can be refused for the target of a duplicate (`repository.py:1127`), whose row a merge
took away. A review of the editor made during `WRITE_REVIEWS` is overwritten. The integrity of
texts looks only at reviews, while an archive with unreviewed items speaks the texts of its snapshots.

*Audio.* The page lists rows by position (`web/daily_report_queries.py:855`), the script speaks them by rank
(`intelligence.py:91`), so the two orders can differ. A crash leaves an artifact `running` for ever, which blocks trash, sweep and purge of its report.
A purge whose files resist three attempts cannot be finished, its generic retry is refused.

*Sources.* A member left RUNNING by a crash waits for a recovery command
(`catalog_refresh_repository.py:105`); members PENDING in a failed batch are in reach of neither retry nor
recovery. The remediation retry is not "at most once" (`operations/commands.py:747`). Duplicates that
commit at the same moment in two sources find neither each other. An interrupted run stays pending. Items that
failed or conflicted in a partial run are not asked for again, as its tag and cursor are stored (`ingestion/
service.py:306`). Items beyond the limit of a call are dropped while the tag moves on. A cursor of GitHub that is
not of its endpoint is ignored, and the walk begins again (`github.py:30`). By its docstring `ingestion/
fetchers/base.py:229` allows a trial "only for fetchers which never consult credentials"; a feed or timeline at a
host of Reddit or YouTube is allowed (line 240) and fetched by the fetcher of that host (line 207), with its
credentials. A trial is refused for the first method its gate lets through also when the factory would accept a
later one. Failed probes carry no headers, so
Retry-After is lost. A cursor goes to older posts until it ends.

*Events.* The manifest of a pipeline may name a version that a later statement replaced
(`events/pipeline.py:137`). A merged event becomes CURRENT again when its key is published anew. A later
report can split a cluster. *Desktop.* When the system denies the identity of a new service, the controller
keeps that of the former one (`desktop/controller.py:93`), and quitting does not stop the new tree. *Database.* A change of the port is not atomic; an `initdb` that was killed
strands the cluster.

## 5. What is proved

For every value of the constants that the named ASSUMEs of the modules allow; these only type the
constants, make sets finite and sets of names disjoint.

| Module | Theorems | Property |
|---|---|---|
| `OperationQueueProofs` | `SoundHistory`, `CancellationExact`, `HistoryKept`, `NewestDecides`, `FencedHistory` | `HistoryIsSound`, `CancellationIsExact`, `HistoryIsFenced` and its parts |
| | `QueueImplementsContract` | `Spec => ImplementsContract` |
| | `CheckpointsFenced` | `CheckpointsAreFenced`, with or without raising lease checks and shared identifiers |
| `NewsProofs` | `SoundManifest`, `FencedVerdicts` | `ManifestIsSound`, `VerdictsAreFenced` |
| | `Gapless` | `NothingIsSkipped`, for any number of posts, limits, withdrawals and foreign links; what a limit left and what GitHub's page numbers shift is excepted in it |
| | `SoundRules`, `SoundClusters` | `RulesAreSound`, `ClustersAreEvents`, for any texts, items and witnesses |
| `DailyAutopilotProofs` | `SoundChain`, `OneAudio` | `ChainIsSound`, `AudioOnlyOnce`, for any number of workers |
| | `SoundPublication`, `OrderedStages` | `PublicationIsSound`, `StagesAreOrdered`, for one worker |
| `ReportRevisionsProofs` | `SoundLineage`, `Cumulative` and parts | `LineageIsSound`, `OverviewNeverShrinks` |
| | `KeptLineage` | `LineageIsKept`, for chains of any length |
| | `AccountedCalls` | `CallsAreAccounted`, for any number of candidates, any budget, any number of attempts, one handler at a time |
| `CatalogRefreshProofs` | `ExactRefresh`, `KeptVerdicts` | `RefreshIsExact`, `VerdictsAreKept` |
| `RuntimeProofs` | `OneRunPerDay`, `ExpiredFirst` | `OneScheduledRun`, `OnlyExpired` |
| | `FilesAreTracked`, `NothingSpeaksOfPurged` | `FilesFollowRows`, `NoAudioOfPurgedReport` |
| | `OneCircle` | `OnlyReclaimsDeadlock`, with reclaims and any number of members |
| | `PageSpoken` | `PageIsSpoken`, for any number of rows |
| | `UsableUrl` | `UrlIsUsable`, for any set of ports |
| | `NoEscape`, `OthersLeftAlone` | `NothingEscapes`, `OthersAreLeftAlone`, for any number of windows and processes; windows that died or were denied an identity are excepted in the former |
| | `DaysAccumulate` | `DayIsCumulative`, for any number of reports, events, rows and merges |
| | `RejectionStands` | `RejectedStaysOut` |
| | `ContentTypeOK` | the types of `ReportContent`, with one row for an event in every report |
| `SourceRemediationProofs` | `EvidencedTrials`, `TraceableVerdicts` | `TrialsRestOnEvidence`, `VerdictsAreTraceable` |
| `CollectionProofs` | `EveryRunMatches`, `EveryRowIsKept` | `RunsMatchAudit`, `RowsAreKept`, for any number of calls and responses, complete or partial |
| | `VersionsKept`, `MergesAreReviewed` | `VersionsAreKept`, `MergedAsReviewed`, for any number of handlers |
| | `VersionsNeverChange` | `[][Grown]_vars`: versions and published manifests are only added to |
| | `AllowedAccess` | `AccessIsAsAllowed`, for any definitions (any kind of method at any kind of host), credentials and number of answers |

None of the properties is inductive alone. Each module has an invariant that is, one lemma per action that
the action keeps it, and the theorems as consequences.

**Queue.** `Control`: the main thread is in `run_once` exactly while it holds a lease, and the handler
threads know their process. `Leased`: a RUNNING operation has a lessee, and an open attempt is that of the
lessee, which is what `finish_attempt` compares and why its guard is enough. `BoundIsLessee`: a bound
worker row belongs to the lessee of a RUNNING operation, needed because `lease_next` clears only the row
of the previous lessee. `StoppedOnRequest`: a handler that was told to stop while its attempt is open was
told so by a cancellation. The refinement mapping is the identity on `status`, `attempts`, `cancel`.
`Fenced`, for the checkpoints: a process with an identifier of its own that is the lessee of the operation it
holds an attempt of holds the newest, so a renewal granted to a handler it waits for comes from that one.

**Wave.** `Claims`: a member is claimed once it is not pending. `Fenced`: a member in flight in a handler
was claimed by it or by a later one, and has no verdict while the claim is its own; that is the fence of
`finish_member`. `CoveredBy`: what the newest handler has not finished it waits for or holds, so that its
gather ends with every member decided. `JudgedBy`: a handler holds the verdict of a wave only with every
member finished, and an incomplete one only when it is no longer its turn.

**Autopilot.** `Linked`: a handler, also a stale one, has loaded no more of a run than the run has, so each
stage finds what it needs. `OpenChain`: an active run has a continuation for its stage that no handler is
about to finish; a handler that has moved on has enqueued the next one in that transaction, and one that
has not leaves its own to be leased again. `Accounted`: continuations, handlers without a fresh lease and
the cancellation under way are at most the active run, the handlers that have moved on, the faults and
cancellations: every surplus continuation is paid for. With one worker, `Truth` adds what the snapshot of
the handler says of the run as it is. One worker is an assumption of two theorems, stated in them: the
supervisor starts one, and with two the properties are false.

**Reports.** `RowsAreSound` joins the properties, which need each other: a purge keeps the order of a chain
because the chain is ordered, and the overviews because inclusion is transitive. `CounterIsHighWater`, no
row has a number above its counter, is what makes numbers unique once rows are deleted. `MergedInMemory`:
the predecessor an interrupted publication holds was archived, and either it is gone for good or its
overview is contained in the one held. It is needed because the insert does not read it again. The ancestors
of a report are defined as what is in every set that holds the report and the parents of its members, which
is the recursive definition without the recursion; the lemma `GapClosed` shows that a purge, which hands the
children of a report to its parent, leaves all other ancestors as they were.

**Content.** The invariant, `ContentInv`, is small: types, one row for an event in a report, one item for a
key (`ReportsSound`). The work is in what one publication computes. `AddsRow` says what adding one row does:
a row with the same event may only get better (`EachFromOne`), no row is lost but to its survivor
(`EachGoesOn`), and what was added is told of (`Arrives`). `Grown` says the same of the first `k` rows, and
the lemma `GrownByOne` takes it from `k` to `k + 1`; `Accumulated` is `Grown` for all of them, with the rows of
merged events marked. `FoldAccumulates` and `FoldKeeps` carry it over the heads, the latter for whatever some
head tells of. `RejectedStaysOut` needs more than each head preserves: `Remembers` says that the rejection of
the last head to tell of an event is among the verdicts that every later head leaves alone (`Outdated` drops
only what the next head decides itself), so it is there when the new rows come.
A recursive function is defined by a CHOOSE, so these proofs begin with its existence: `Iterated` builds the
states of a sequence of steps, `Upward` is induction over the natural numbers for a set, and both rest on
`LeastNumber`, the well-foundedness of the natural numbers. `Ascending` and `Chronological` are orders of a
finite set (`RisingOrder`): there is one, so what is chosen has the property.

**Page.** `Checked`: what an archived report was checked for stays true of it, since neither its rows nor its
reviews are edited any more, and what is queued was checked. The rest is about counting: a finite set whose
elements have different places can be put in order (`RisingOrder`, which sends every element to the number of
those below it, and `InOrderIs`), and the rows under the three headings are those the page lists, without overlap.

**Catalog.** `Probes`: requests for a member come from its only claimant, once it is not pending. `HoldsOf`:
a member whose probe is awaited has no verdict but that of a worker that did not know it. `Entries`:
whoever checks an entry of the catalog, the verdicts differ only by stale. `Complete`: a batch that is
judged a success awaits nothing, so nothing but other definitions can change it any more.

**Schedule.** `MarkedDays`: a day is marked once it has its run, and its run is the last of them. `OpenTick`:
the run that an open tick will add is of the day it found due or of the next; as `Marks` finds that day due
still, midnight cannot have passed. `ExpiredOnly` says of active scheduled purges that their reports are in
the trash and expired, which the refusal to restore or trash a report under an active purge keeps.

**Audio.** `Track` says for each step of a handler what its row and file are like, and that its row is
running from the insert to the publication; `NoRowsLeft` that a purged report has no row, so no handler is
between those two; `Cleaning` and `SuccessIsClean` that the files still there are in the queue a purge
handler works on; `NotYetStarted` that an attempt that was not leased has no handler.

**Locks.** Rows are ranked: member, attempt, operation, worker. `RankAscends`: a transaction that is no reclaim
asks only for a row that is ranked above what it holds, so the highest row of a set of waiting transactions
is held by one that does not wait for the set (`NoAscendingCircle`). A circle therefore has the reclaim in it,
at the one place where its locks do not ascend: it holds the operation and asks for the attempt, which only the
maintenance of that attempt holds while it waits.

**Local server.** `CommandOK`: nobody serves from a data directory that is being made or moved, an address is
replaced only where there was one, and a command that is about to write the address has seen the database of
the cluster that answers at that port. `ServerOK`: only a whole cluster has a server, at its configured port.

**Desktop.** `Aged`: times of creation are of the past, so that who has died does not come back under the same
identity, whoever gets its identifier. `Family`: a parent that is alive is a supervisor of the same window;
`Owned`: the only supervisor of the window is the process it owns. Then, once the tree was stopped without a
failure, no supervisor of the window runs (`Rooted`), what else runs of it is an orphan that the scan finds,
and once the scan ended without a failure nothing of it runs (`Gone`). `Rightful`: the targets are of the
window or orphans, also while they wait to be stopped.

**Remediation.** `FrozenFailures` and `Requests`: the batch is of failures and stays, and what was asked for
is one of its members. `HandlerOK`: a handler that returns success has left evidence of its own. `Keeps`:
rows are only added and statuses that ended stay, so a chain of rows stays one. The verdict of the report
is about the newest of a set of rows; the lemma `NewestIsOne` shows that there is one, by the
well-foundedness of the natural numbers.

**Ingestion.** `Locked`: the lock of a source is with the one call that is at work on it. `InOrder`: the run
at work is the last of its source, so that a later run is always a later one for the rows, too. `Audited`:
the audit of a run is the response up to the item in hand, and its counts are the counts of the audit.
`Kept`: the row of an item that was inserted, updated or unchanged is as that run left it or as a later run of the
source did; what else the audit has is `LeftOut`, since a run with a failed item ends as a partial one. `Fits`: an open
item transaction goes to the only row with its URL. It was found by a statement before the one that writes,
and remains the only one because rows of a source are written under its lock: without the lock this step of
the induction fails. `Closed`: a run that ended has no call at work.

**Events.** `Grown`: a step only adds versions and published manifests. It is proved first, of every step,
and carries the other parts through what somebody else publishes. `ActiveAreLast`: the active members of an
event are those of its last version, which is why a publication that closes and opens only the difference
leaves rows that rebuild both (the lemma `ReplacedRows`). `PipelineOK`: the version number a pipeline read
may be old and is never one to come, and the version its manifest names was published then or later.
`JoinedAfter`: what a decider merges has the members of both sides at the versions that were reviewed,
since the decision compares the versions under the locks it takes.

**Pages.** `PlaceOK`: a walk that goes on has come down to the floor, so none of the posts below it is passed
over by the next page. GitHub counts pages instead of naming a post; there the lemma `NextPage` adds up: what
is neither among the newest `n` nor among the next `size` is not among the newest `n + size`. `TagOK`: the page
of a tag was kept, but for what the limit left (`dropped`), so that an answer without content hides nothing else.
A foreign link of GitHub is `NoPlace` to the fetch that finds it, which begins a new walk.

**Rules.** `ClustersOK` holds after every pair: the clusters are a partition, items of one identity are together
once their pair was looked at, and a cluster that spans more than the window has an identity in it. A join
keeps the last because it is refused otherwise. For the evidence, `BestRole` says that a root counts in its
best role and `ConfirmedByTwo` that without an official source two different addresses of media are needed,
so echoes of one report confirm nothing.

**Access.** `FirstIs`: the method a gate settles on is the first of those it may use, and there is one if any may
be used; so a method that the plan found usable makes every later gate find one. Of the definitions nothing is assumed
but that they list a method and that HTML needs an approval; `TriedOK` says which fetcher the one that is tried
gets. `WeighedOK`: the record of the
rounds of a refresh counts the good answers, one transient error at most, and the answer that ended it.

**Texts of the model.** `TaskOK`: a task in hand is of a text that is not kept yet and has the record of its
calls so far, and one that is done is attributed; `StoredOK` says so of what is kept. `RequestsOK`: a task that
waits has asked nothing in this attempt, which bounds the requests over attempts. The lemma `AffordableIs` is
what the budget rests on: the candidates that may be asked about are the first ones, whatever is kept, so they
are the same in every attempt; `AuditAgrees` counts the audit of a report from that.

Only model-checked: the liveness properties `Settles` and `RunEnds`, which are out of the prover's reach
(fairness, ENABLED). Every other property of a passing run is proved, `NewestDecides` and the other parts with
the conjunctions they belong to; `StagesAreOrdered` and `PublicationIsSound` for one worker. `NoDeadlock` and
`MergedRowsStay` are refuted (section 4).

## 6. Plan

All modules of the plan exist, and their safety is proved. What could be added: the source refresh and event
pipeline stages of older daily runs, the reconciliation of source definitions, and the interleaving of
providers in a wave plan.

## 7. What is not modelled, and why

Parsing of feeds and pages, network I/O, prompts and schemas of the model, page rendering, command line
output, YAML validation, Windows tray and autostart, origin resolution, coverage closure and the research
reports: pure I/O, formatting or heuristics over text whose result no modelled property tells apart.
Retry delays are ready or not ready; contents of scopes, summaries and error messages are left out, except
the fields named above. PostgreSQL appears as atomic transactions, as single statements where READ
COMMITTED matters (`EventVersions`, `ReportRevisions`, `SourceIngestion`), or as row locks (`LeaseLocks`):
a transaction that would be aborted is one that did not happen.

Some models are narrower than the code:
- `ModelCalls` has one handler at a time. The handler that a raising lease check left behind goes on asking the
  model beside the one of the next attempt; its calls are not counted. (`WaveMembers`, `ReportAudio`, `CatalogRefresh`
  and `SourceRemediation` do have the handlers of all attempts.)
- `DailyAutopilot` has no cancellation of a continuation operation by itself, and proves and checks order and end
  of the stages for one worker and fewer faults than attempts.
- `SourceRemediation` has one failed and one interrupted outcome for all the ways in which a trial fetch fails:
  the report tells only successes from the rest.
- `EventRules` leaves out repository and paper identities of a root, disputed evidence (`_is_disputed`), the
  conditions on shared tokens of a repost and explicit AI terms of a title; what is left is the root that is named, or the
  address.
- `DesktopRuntime` has no child that ignores both signals of its supervisor, and does not say what a window leaves
  behind that died, or was denied the identity of a process it started (`desktop/controller.py:93`).
- Credentials, parsing and the fields of items are classes (named or not, usable or not); a feed that has no
  entries is an empty page.
