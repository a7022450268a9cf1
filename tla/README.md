# TalonHound in TLA+

TalonHound is a self-hosted threat-intelligence platform. An API (`backend/server.js`), a scheduler, integration
workers and a few more background workers share PostgreSQL, Redis (BullMQ) and a directory of published files.
Most of the code is sequential SQL and formatting; what is hard to get right is the order in which several
processes, any of which may stop, write to those three stores. That is what this directory models.

## Inventory

| part | state | operations | what is hard | what makes it correct |
|---|---|---|---|---|
| feed sync queue: `integration/worker.js`, `integration/lib/feedSync*.js`, `backend/lib/integrationQueue*.js`, run-now in `backend/server.js` | BullMQ queue, table `integration_queue_jobs`, advisory locks | run-now, scheduled run, job handler, retry, stalled check, periodic and full recovery pass, shutdown | two stores, crashes, passes that act on what they read earlier | one sync per feed; a global limit; no lock, row or job stays behind |
| published feed generations: `backend/lib/publishedFeedChunkGeneration.js`, `publishedFeedArtifact/` , `routes/publicFeeds.js` | chunk files, recency heads, generation, manifest and chunk rows, pins | build and activate, retention, purge, orphan GC, download | files and rows change in separate steps; content-addressed files are reused | what a manifest or a download refers to is on disk; what nothing refers to goes away |
| schedule sync: `integrationFeedScheduleSync.js`, `integration/scheduler.js` | BullMQ repeatables, feed settings | change a schedule, reconcile, re-arm a broken chain | two syncs with different reads of the settings; a lost iteration | the repeatables come to be what the settings say |
| USOM enqueue: `usomReconciliation.js`, `server.js` | queued and running USOM jobs | incremental, full | check, then add | no full run beside another one |
| published feed tick, projection: `publishedFeedTick.js`, `publishedFeedReconciliation.js`, `publishedFeedProjection.js` | tick guard, projection rows, slice cursor | tick, delta, reconciliation slice | deadline that abandons running work; progress across slices | every bucket is reconciled once per cycle |
| backups: `backend/lib/backup/`, `backup-worker.js`, `routes/backups.js` | backup rows, archives, staging directories, queue | request, run, verify, delete, retention, reconcile stale rows, sweep | crash between file and row; several who delete | no row blocks the others for ever; no dump is left behind; a minimum of recovery points stays |
| deep search and bulk query: `iocDeepSearch/`, `iocBulkQueryJob/`, their workers | job rows, spool of results, pool connections | create, run, cancel, expire, sweep; page through a spool | cancellation racing with completion; a sweep beside a reader | one life cycle; a bulk action sees every match, once |
| search export: `iocSearchExport/`, `ioc-search-export-worker.js` | job rows, files | create, run, cancel, expire, purge | row, queue and file change in separate steps; a job delivered twice | what is offered is whole |
| report analysis: `threat-library-worker.js`, `threatLibrary/analysisConcurrency.js`, `jobOwnership.js`, `jobFence.js`, `pipeline.js`, `startupRecovery.js` | report and job rows, BullMQ jobs, owner tokens | import, retry, cancel, dispatch, claim, stages, automatic retry, shutdown, recovery | a worker that lost its job and goes on; two stores | one live job per report; an end that stays; every analysis ends |
| AI capacity: `threatLibrary/ai/inferenceScheduler.js`, `client.js`, `capacityRecovery.js` | lease rows with expiry, quarantine | wait, claim, heartbeat, release, probe | clocks of holder and database; requests that outlive their caller | no slot is shared; slots come back |
| IOC lifecycle: `iocSourceLifecycle.js`, `iocExpiration.js`, `iocMatchReactivation.js` | memberships, status, suppressions | observe, expire, reactivate, suppress | expiry racing with import | an indicator is active exactly while a source or an analyst says so |
| sessions, setup, administration: `authSessions.js`, `firstRunSetup.js`, `adminProtection.js` | sessions, users, setup state | login, revoke, first-run, demote | double submission | one bootstrap; never no administrator |
| enrichment, MalwareBazaar recovery, custom feeds, rate limit, update check, TLS, time, report extraction, file artifacts, history retention, MCP, TAXII, frontend, migrations | see `PROJECT.json` | | third-party I/O, text, or single statements | |

The parts meet in a few places. API and scheduler add jobs to the queue that the workers take; the workers'
imports change indicators, which the published-feed tick projects into feeds; the tick runs builds, retention
and the orphan GC; public routes read what builds commit. A bulk query reads the spool of a deep search, whose
sweep looks at the bulk jobs; an analysis asks the AI capacity for a slot. Every arrow goes through PostgreSQL, Redis or the
file system, never through a direct call between processes.

## Modules

### FeedQueue

| variable | in the code |
|---|---|
| `bull` | Redis as BullMQ keeps it: list, lock token, attempts, stalled counter of each job |
| `row` | `integration_queue_jobs`: status and the ages of `started_at` and `heartbeat_at` |
| `feedLock` | the session advisory locks of `feedSyncLock.js` |
| `call` | how far a run-now request is (it adds the job, then upserts the row) |
| `proc`, `stops`, `slot` | worker processes, and where each slot's handler is |
| `failMarks` | `failed` events whose `markJobFailed` has not run yet |
| `rec` | recovery passes: phase, the writes left for each job, the rows as they were read |

Each action is what happens between two awaits that write. The handler is `Take`, `RefuseShutdown`,
`TryFeedLock` (or `FeedLockError`), `SkipBusy`, `MarkRunning`, `ImportReturns`/`ImportThrows`/`TimeoutFires`
and `DrainEnds`, `MarkDone`, `ReleaseFeedLock`, and BullMQ's `SettleCompleted`/`SettleFailed`. A recovery pass
goes through its phases: `ScanStale`, and for a full one `ScanActive`, `Decide`, `ScanRemaining`, `ScanLocks`,
`ScanQueued`; the writes it decides on (`FailRow`, `MoveToFailed`, `Purge`) are steps of their own that use what
the scan read. `Crash`, `Shutdown`, `Exit` and `Restart` stop and start processes. BullMQ itself (`Promote`,
`Stalled`, `HasToken`, the settle operations) is external and modelled from how the code uses it.

Abstractions. Time is two ages per row, in ticks, saturating one past the threshold they are compared with.
Whether a queued row is old enough is left open. A pass reads the active list and the rows in one step; the plans
of different jobs interleave. A worker may run a full pass at any time, and each host runs one pass at a time.
Whether a shutdown's abort reaches an import is left open. A BullMQ lock expires at once when its worker dies. An
advisory unlock that fails counts as freed. `integration_runs`, custom-feed run rows and the repair of
`finished_at` are not part of the state.

### FeedGenerations

| variable | in the code |
|---|---|
| `file`, `head` | chunk files and recency heads on disk; a file is `old` once past the orphan GC's minimum age |
| `chunk` | `published_feed_chunks` rows, `old` once past the retention time |
| `gen` | `published_feed_generations` with their manifest (`published_feed_generation_chunks`) |
| `lock` | the feed's generation advisory lock |
| `build` | builders: `generatePublishedFeedSnapshot` around `buildAndActivateChunkGeneration` |
| `sweep` | `cleanupPublishedFeedChunkGenerations`, which ends with the purge |
| `gc` | `runPublishedFeedOrphanGc` |
| `reader` | downloads (`serveChunkedSnapshot`, `streamChunkGeneration`) and their pins |

A build is `Start` (lock, transaction, parent, affected buckets), for each chunk `StatChunk` and `CommitPart`,
then `UpsertRows`, `WriteHead`, `Commit`, `Unlock`; it may fail at each of these places, and `Undo` removes what it
knows it created. What the transaction writes becomes visible in `Commit`. Retention is `SweepCandidates`,
`SweepSkip`/`SweepLock`, `SweepLost`/`SweepDelete`, `SweepUnlink`, `SweepUnlock`, `SweepEnd`; the purge `PurgeRows`,
`PurgeFile`, `PurgeEnd`; the GC `GcScan`, `GcLock`/`GcBusy`, `GcLoad`, `GcUnlink`, `GcUnlock`. `Crash` is the death of
the backend: transactions roll back, the lock and the pins are gone, files stay. A lost database session is a
crash too, as nothing listens for the error of a checked-out client.

Abstractions. One feed and one window: feeds share no file, row or lock. A key is a pair of format and bucket;
which files the affected buckets hold is left open. `.part` files have unique names and are not modelled. Ages
are left open, except that a generation is superseded after the chunks of its manifest were created and that a
download pins within the retention time of reading the rows (`AgeGen`). The inode check of the GC is modelled by
forgetting a scanned file when a new one is renamed into its place. The purge's DELETE waits for rows that an open
transaction has upserted; that the foreign key then makes it fail is `SweepError`. `Legacy` are chunk rows that
lost their manifest before migration 008.

### JobQueue and TrackedJobs

`JobQueue` is what four workers use of BullMQ, which is external: adding, taking, settling, and taking back a job
whose lock lapsed (`TakenBack`, `MaxStalledCount` times). The queues of deep searches, bulk queries, exports and
backups add jobs with one attempt. `TrackedJobs` is the abstract specification of a background search as its user
sees it: the status runs through a fixed life cycle, a result is there from `ready` until its retention lapses, a
cancelled job never becomes ready. `DeepSearch` and `SearchExport` are shown to implement it under the mappings
`Jobs` and `ExportLife` (`DeepPromise`, `ExportPromise`). The mappings differ in what may be claimed: a deep search
only when queued, an export also after it failed.

### DeepSearch and BulkQuery

`row`, `spool` and `bulkRow` are the tables, `queue` and `bulkQueue` the BullMQ queues, `call` and `bulkCall` the
requests between their statements, `slot` and `bulkSlot` the handlers, `signals` the `pg_cancel_backend` calls
under way, `sweep` the clean-up. `runDeepSearch` is `TakeJob`, `ClaimForProcessing`, `CheckBefore`, `BeginInsert`,
`EndInsert`, `CheckAfter`, `Commit`, `MarkCompleted`, with `WipeSpool`, `Caught` and `MarkOver` on its other ways out
and `Settle`; its watcher is `Watch` and `Signal`, and a signal meant for one statement may hit the next one that the
pooled connection runs. The clean-up is `SweepBegin`, `SweepCheck`, `SweepWipe` (a batch), `SweepRow`, `SweepEnd`.
`BulkQuery` extends `DeepSearch`: the two are composed through the tables, each reading what the other writes. A
request resolves its search, inserts its row and adds its job in three steps; the handler reads page after page.
A page is one result row, and what an action does to an indicator is not modelled.

### SearchExport

`table`, `jobs` and `files` are the three stores. A handler claims, parses, streams into the file, marks the row
ready, or drops the file and marks the row failed or cancelled. Rows expire in two ways, by the sweep (file first,
then row) and by any request that reads them late (row only). A file is none, partial or whole.

### InferenceScheduler

`lease` and `ahead` are the lease table, `phase` where a call of `callAiProvider` is, `holder` the closure of
`startHolding`, `renewal` a heartbeat under way, `provider` what the provider is executing, `probe` a quarantine
probe. `TryClaim` is the claiming transaction with its sweep (`Swept`); a claim may commit unnoticed. Heartbeats may
be answered late, fail or hang; a holder that cannot confirm gives up at `LossDeadline`. A request to a local
provider that is aborted, or whose process dies (`Die`), may go on at the provider (`Abandon` ends it): its row is
quarantined until a probe is served. Time is in heartbeats. The classes of the queue are left out, and so is why a
request ends.

### ReportAnalysis

`report` and `job` are the tables, `deliveries` the BullMQ jobs of each row, `importing`, `asking` and `maker` requests
of the API between two statements, `run` the handlers, `pass` the safety timer and start-up recovery, `workers` the
processes. `Dispatch` hands the free slots to the oldest rows that wait. A handler is `TakeDelivery`, `ClaimJob`,
`Reach` (a fenced stage), `Extract`, `BeginAi`, `StopAi`, `PersistOutcome`, and on failure `FailReport`, `FailJob`,
`AutoRetry` and what follows, or `RequeueJob` and `RequeueReport` at a shutdown; `MarkReport` and `MarkJob` are the
`failed` event. `BeatJob` and `GrowStale` are the heartbeat and its silence, `Pause` a process that stops being
scheduled for so long that its token lapses. Recovery is `FailStaleActive`, `ReadInterrupted`, `RecoverJob`,
`RecoverReport`, `RecoverDispatch`. Writes that are not fenced are steps of their own; `Late` says whether an analysis
may end while one of them, named by `Outstanding`, is still to come (see the disagreements). `Copies` bounds the BullMQ jobs of a row that are
known at a time. The stages' texts, checkpoints and the modes other than analyze and retry are left out.

### Backup and ScheduleSync

In `Backup`, a request is `CountBlocking`, `CreateBackupRow`, `AddBackupJob`, `SetJobId`; the worker `TakeBackup`,
`ClaimBackup`, `Dump`, `MarkVerifying`, `PlaceArchive`, `CompleteBackup` or `FailBackup`, `RemoveStaging`,
`SettleBackup`. Deletions (`RequestDelete`, `BeginRetention`, `UnlinkArchive`, `MarkDeleted`) check, remove the archive
and mark the row in separate steps; `CloseStale`, `ListActive` and `SweepTemp` are `reconcileStale`. Ages are what the
code compares them with.

In `ScheduleSync`, `settings` are the schedules in PostgreSQL, `repeats` the repeatables, and a pass (`sync`) lists the
repeatables, collects the iterations that are live, removes what it does not keep (`Kept`, `Weed`) and adds what is
missing (`Ensure`), one key at a time. `SlotMinute` spreads hourly feeds over the hour as the code computes it.
Iterations come due, are taken, end, and may get lost in Redis.

### MC modules and proofs

`MCFeedQueue` gives small instances. The other MC modules put parts
together that share no state, or that would be too large at once: a constant variable `part`, chosen at the start,
says which part a behaviour exercises, and the bounds of a part are conjuncts of the next-state relation
(`Calm`, `Timely`, `Undisturbed`, `ReportBounds`...). The theorems are in `FeedQueueProofs`, `FeedGenerationsProofs`,
`SearchExportProofs`, `BulkQueryProofs`, `InferenceProofs`, `ReportProofs`, `BackupProofs` and `ScheduleProofs`; they
are about each part alone, without the bounds of the MC modules, and say for two of these how the parts combine.

## Runs

| run | instance | shows |
|---|---|---|
| `queue_workers` | a run-now and a scheduled job of one feed, two workers, failing statements, a stop | `TypeOK`, `FeedExclusion` |
| `queue_ceiling` | two feeds, limit one, two stops, no passes | `SyncCeiling` |
| `queue_live` | a job with retries, full passes, a crash and restart, fairness | `TokenOfWorker`, `LockReleased`, `LiveNotReclaimed`; `RunningRowSettles`, `JobSettles` |
| `queue_lock_leak` | one failing statement | `LockReleased` is violated |
| `gen_store` | one bucket, two generations that return to earlier content, retention, a crash; parts collect (GC, fairness) and serve (a download) | `TypeOK`, `ManifestFilesExist`, `RowHasFile`, `DownloadFilesExist`; `OrphanReclaimed` |
| `search_jobs` | parts deep, bulk, export, gate: a search, a bulk job, an export, two AI requests; two slots, a crash, failing statements | `JobsTypeOK`, `CancelWins`, `SpoolHasRow`, `AppliedByOne`, `TimelyBulkIsExact`, `OneWriter`, `SlotsNotShared`, `NoOverload`; the refinements `DeepPromise`, `ExportPromise` |
| `search_live` | parts deep, bulk, export, slots; no crashes of workers, fairness | `SearchSettles`, `SpoolReclaimed`, `ExportSettles`, `SlotRecovered`, `WaiterServed` |
| `search_swept` | part bulk: a search that expires beside a request | `BulkIsExact` is violated |
| `lease_shared` | part gate: a late reply to a claim | `SlotsNotShared` is violated |
| `report_jobs` | parts fence, retry, crash, errors: one report, three jobs, two workers, fairness | `ReportTypeOK`, `OneLiveJob`; `JobEndsOnce`, `OutcomeKept`, `JobsEnd`, `ReportsSettle` |
| `platform` | parts tidy, delete, plan, chain: two backups, two feeds, fairness | `PlatformTypeOK`, `FloorKept`; `BackupsSettle`, `StagingSwept`, `SchedulesConverge`, `IterationsRearmed` |
| `sched_custom` | part custom: two custom feeds, one of them switched off, fairness | `CustomSchedulesConverge` is violated |

The four violations are the findings of `PROJECT.json`, each with the comment of the code that it contradicts: a feed
lock that leaks when `markJobRunning` fails; a bulk job that pages through a spool while it is deleted and is marked
completed; an AI slot that two requests believe they own, because the first counts its lease from a late reply; and
a repeatable of a custom feed that is taken for another one's, because all custom feeds share a job name.

**Bounds.** Two jobs and two slots are what a duplicate trigger, an overrun or a stale token needs; a third actor
adds nothing that two do not show, and the theorems remove the bound for the exclusion. One or two attempts,
timeouts and grace periods of one tick order every pair of deadlines both ways. `MaxStops` and `MaxCrashes` are
one or two: a stop in every state, and where it matters another during the recovery. Two contents of a bucket let a
generation reuse files that are being collected; what a third generation or a second bucket adds rests on the
theorems of `FeedGenerationsProofs`.

- *Searches.* `Calm` keeps the search of the part `bulk` undisturbed, and `NoBulkCalls` keeps bulk requests out of
  the part `deep`: each part then has all faults of its own. There the search does not fail, and requests are
  handled when its handler has settled. `SpoolSize` is two, so that a sweep can be between two
  batches, and a reader between two pages.
- *AI capacity.* `HoldLease` is four heartbeats, the least with a loss deadline that is neither the first
  heartbeat nor the last. `Capacity` is one: the probe cannot tell several lanes apart (see the disagreements).
  `DbPrompt` says that a claim and the progress write after it are answered within a heartbeat; without it
  `lease_shared` fails. `Timely` makes requests of the part `slots` end before their first heartbeat and poll in time.
- *Reports.* Three jobs are one that failed, its automatic retry, and an analyst's `Retry`; in the part `retry` the
  last one is created but not run, and in `crash` and `errors` a retry is not retried again. The parts divide the faults: a paused process (`fence`), a shutdown or crash with
  a write that fails meanwhile (`crash`), a failing statement or request and the failure to record it (`errors`).
  `Late` is FALSE: a write that is not fenced does not outlast the analysis it writes to.
- *Platform.* `Undisturbed` gives administrators a backup that is not closed behind its worker's back,
  `NoAdmins`, `NoIterations` and `Only` keep the parts apart. One change of a schedule and one fault suffice for
  two passes that disagree; the one who is right is the scheduler's next pass.

**Fairness.** Feed queue and generations: timers fire, statements return, an aborted import settles, containers are
restarted (`restart: unless-stopped` in `docker-compose.yml`), BullMQ promotes, hands out and checks jobs, and
periodic passes, sweeps and the GC run. A deletion that every sweep tries again does not fail for ever (strong
fairness of `SweepDelete`). Nothing is assumed of imports, errors, requests, builds or downloads, except that a
download ends. `OrphanReclaimed` also uses that builds are finitely many, so that the GC's `pg_try_advisory_lock`
succeeds in the end: a feed that is built without pause would keep the GC away.

Searches and exports (`SearchFairness`, `ExportFairness`): handlers and sweeps go on, free slots take jobs, requests
that inserted a row add its job, time passes, and a cursor comes to its end. Settling is only stated where workers
do not die and statements succeed: a row in `running` or `processing` whose BullMQ job was given up stays as it is.
AI requests (`InferenceFairness`): working requests and their timers go on, an abandoned execution ends, the clock
ticks. Strong fairness is asked of one thing only, the worker's safety net: a probe that it makes again and again is
served once, and the release that follows succeeds once. Reports (`ReportFairness`): in the parts `crash` and
`errors` only, the worker takes jobs, its handler, timers and requests under way go on, a stopped process is started again.
Cancel requests, failing statements and requests are excluded from `ReportsSettle` because the code leaves a
report behind there (see below). Backups and schedules: the worker, its timers, passes that run and the
scheduler's minute go on; what users ask for and what fails is nobody's duty.

### Further disagreements

What the models show besides, without a run of its own; the constant or action that shows it is named.

- *Feed queue.* With a recovering API (`Recoverers = {api}`, `Manual = {}`, `StaleAfter = 1`, `MaxStops = 0`) the
  `queue_ceiling` instance violates `SyncCeiling`: the second look of a pass drops a live job
  (`integrationQueueBullmqReconciliation.js:383`). A retry keeps its first attempt's `started_at`
  (`integrationQueueJobState.js:45`), so `LiveNotReclaimed` is stated of first attempts. `markQueueJobFailed`
  overwrites a success (`integrationQueueRecovery.js:90`).
- *Generations.* With a chunk row that lost its manifest before migration 008 (`Legacy = {a1}`) `ManifestFilesExist`
  is violated: the purge unlinks a file that a build has just reused (`publishedFeedChunkGeneration.js:759`).
- *AI capacity.* With `DbPrompt = FALSE` `NoOverload` fails too: `onLost` is registered after the progress write
  (`client.js:704`), so a request whose lease was lost during it is sent all the same (`client.js:629-634`). With
  `Capacity = 2` a probe is served by the other lane and releases a slot whose abandoned request still runs
  (`client.js:57`).
- *Reports.* Cancel of a job nobody has claimed leaves the report pending without a job, and Retry then answers
  that it is already running (`routes/threatLibrary.js:1477`, `retryState.js:31`). A cancel during the early stages is
  erased when the AI stage begins (`pipeline.js:462`), though the route has acknowledged it (`:1494`). The `failed` event
  marks a report only while it is analyzing (`threat-library-worker.js:240`). An import commits the report before it
  creates the job (`urlImportService.js:98-137`). A redelivered old BullMQ job may claim a requeued row and exceed the
  limit, against `startupRecovery.js:12-14`. With `Late = TRUE`: the creator's `status: 'queued'` resets a row that was
  dispatched or cancelled (`urlImportService.js:38`), and a requeue's `pending` overwrites a finished report
  (`analysisConcurrency.js:431`, `threat-library-worker.js:283`). So does an automatic retry that read its report as
  failed (`autoRetry.js:83`) before an analyst's `Retry` was run to its end by another worker: no job is live any more,
  so it creates one and sets the report to `pending` (`:129`). The clear of a stale claim does not compare the BullMQ
  id it read (`analysisConcurrency.js:443`).
- *Backups.* Two deletions at once can both pass the check of the minimum (`routes/backups.js:337`), so `FloorKept`
  is stated of one beside which no other recovery point goes. `markCompleted` and `markFailed` write by id, so a row
  that was interrupted or deleted can come back (`backupStore.js:167`). A death between archive and row leaves an
  archive no row names (`runBackup.js:213`), or a row without archive (`routes/backups.js:356`).
- *Searches.* A reader that flips an expired export clears its path and leaves the file
  (`routes/iocSearchExports.js:169`). The limit of active jobs per user is checked and used in two statements
  (`enqueueDeepSearch.js:46`), as is the check for a running backup (`routes/backups.js:86`).

## Proofs

`FeedQueueProofs` proves, for every number of jobs, feeds, slots, processes and recovery hosts, that the state is
well formed (`TypeCorrect`), that a handler past `acquireFeedSyncLock` holds its feed's lock (`LockHeld`), and that
no feed is synchronised twice at a time (`Exclusion`). `FeedExclusion` is not inductive: that a second slot cannot
get as far as importing is only known if the first one is known to hold the lock. The inductive invariant is
`TypeOK` with `HandlerHoldsLock`; two importing slots of one feed would both be the one holder of its lock. Steps of
BullMQ, the API and the passes leave `slot` and `feedLock` alone, so they are dealt with together; a process that
stops frees the locks of its own slots only, and idles them in the same step. The assumptions are the ones on the
constants (`QueueAssumption`). Four more theorems build on it:

- `Tokens`: a lock in Redis is that of a slot with this very job. `TokenInv` adds that a slot without a handler has
  no job and that a run-now request past its check has not added its job yet, so `add` never meets a live token.
- `LocksReleased`, while statements succeed (`~DbErrors`; with errors the run `queue_lock_leak` shows a lock that
  stays): `ReleaseInv` adds that a process that is down runs no handler.
- `Ceiling`, without recovery passes (`Recoverers = {}`, as in the run `queue_ceiling`; with them the ceiling does not
  hold, see above): every handler's job is locked with the handler's own token (`HandlerHasToken`) and the queue
  bounds the active list (`ActiveBounded`), so there is an injection from the importing slots into that list.
- `LiveKept`, while statements succeed: by `FirstInv` a job on its first attempt waits without `started_at` and is
  in one slot only, the timer runs during the import alone, and `started_at` is no older than the timer.

`FeedGenerationsProofs` proves, for every number of buckets, generations, builders, sweeps and downloads, that the
store is well formed (`StoreTypeCorrect`), that links have rows and rows have files (`RowsHaveFiles`), that the files
of every committed generation are on disk (`ManifestsComplete`) and that so is what a pinned download still has to
send (`DownloadsComplete`). Besides the assumptions on the constants (`StoreAssumption`) they assume `Legacy = {}`:
no chunk row has lost its manifest to the schema before migration 008; with one, the property fails (see above).
The inductive invariant `IInv` follows what each actor knows between two of its statements:

- `LockInv`: whoever builds, sweeps or collects past its first statement holds the feed's generation lock, so at
  most one of them has files to remove. Only the purge works without the lock.
- `RowInv`: a linked chunk has its row, a row its file, and every row is linked. The last part is what makes the
  purge harmless: it never finds a row. It survives retention because the sweep deletes a row with its last link,
  which needs `GenInv`: the rows of a generation past its retention are not inside the grace period.
- `BuildInv`, `SweepInv`, `GcInv`: the files a failed build undoes, a sweep or the GC is about to unlink have no
  row, and the files a build has written are there until it commits.
- `ReaderInv`: a generation that a download has chosen and not pinned yet is not past its retention, and a pinned
  one is skipped by the sweep, so either is still committed with its links.

Each action has its lemma; steps that leave the store alone share one lemma per part of the invariant.
`OrphanReclaimed` and the other liveness properties stay with TLC.

`SearchExportProofs` proves, for any number of exports, slots, readers and crashes, that the stores are well formed
(`ExportTypeCorrect`), that an export has one writer (`SingleWriter`), that a ready export has its whole file until it
expires while a failed or cancelled one names none (`ReadyExportsWhole`), and that the worker implements the life of a
tracked job (`ExportLifeCycle`: `ExportSpec => ExportPromise`). `WriterInv` relates each handler to its row and its
file: a handler that may still write has its row `processing` and is the only one with that export, a file is whole
when it is offered, the sweep holds exports past their expiry only, and a path is named by a ready row only.
The refinement takes one step lemma per action; actions that only move a handler,
the queue or a file that is not whole map to stutters.

`BulkQueryProofs` does the same for deep searches with their bulk jobs: `BulkTypeCorrect`; `CancelPrevails`, from
`ClaimInv`, by which the row of a materialising handler is running, and is its alone, until its last write;
`SpoolsHaveRows`, from `SpoolInv`, which says that a search under the sweep stays expired until its last batch and
that no handler fills a spool behind the sweep; from the same invariant `CompletedSearchesWhole`: a completed search has
all of its rows until it expires; `LifeCycle` (`Spec => DeepPromise`, for searches that match something:
`SpoolSize > 0`, as an empty result cannot be incomplete); `OneApplies`, from `OwnerInv`: only a queued row is
claimed and none becomes queued again; and `TimelyExact`, from `PageInv`: the rows a bulk job has read are those
up to its cursor, and while its job is open a search that was timely keeps its spool.

`InferenceProofs` is about the gate in front of an AI provider, for any number of requests, slots and probes.
`SlotsOwned` and `NotOverloaded` assume that a claim is answered within a heartbeat (`DbPrompt`; without it the run
`lease_shared` has two owners). `SlotsNotShared` speaks of closures in processes, the lease of rows in a table; what
connects them is `ClockInv`: what is left of a row's lease and the time its holder knows to have passed add up to the
lease, but for one heartbeat, and a renewal that was executed covers the time since it was sent. As the loss deadline
lies two heartbeats before the end of the lease, a holder that has not noticed a loss has a row that holds; `RowsInv`
counts those. For the provider `QuarantineInv` and `ActiveInv` add that a request that may still be executed has a
row, holding or quarantined, and that a probe is served by an idle provider only, so that the row is released when
nothing is executed. `StepMoves` says once what a step can do to one request and its row; the invariants follow from
it rather than from thirty actions each.

`BackupProofs` proves `BackupTypeCorrect` and `Floor` (`BackupSpec => []FloorKept`) for any number of backups,
administrators, failures and crashes. Three more invariants are needed. `DumpInv`: the handler, which writes
`WHERE id`, never has a row that was completed before. `RequestInv`: there is a number for every check that passed,
so a new row never takes the place of a recovery point. `TodoInv`: a deletion has a target, one of its own candidates.
`PointsStay` concludes that a recovery point is lost only through a request that gives up on it, a failed
verification or a deletion, of which every other deletion under way is told; `CandidatesSpare` counts what the
retention sweep leaves: the recovery points newer than its newest candidate.

`ReportProofs` is about report analyses, for any number of reports, rows, BullMQ jobs and workers. `ReportTypeCorrect`
holds always. `OneJob`, `JobsEndOnce` and `OutcomesKept` assume that no unfenced statement outlasts the analysis it
writes to (`~Late`; otherwise they fail, see above). What a step can do is said once for rows (`RowMoves`: it keeps
those that are live, creates one for a report that has none, or ends some), for a report (`ReportMoves`) and for those
who write without a fence (`MakerMoves`, `HandlerMoves`, `PassMoves`, `AskMoves`). `WritersLive` says that each of them
holds a live row, which nobody ends meanwhile; therefore its `WHERE id` never starts a row again. `NotDone` says that
a report in review has neither a live job nor a retry under way: it holds because an analysis completes as the only live
job of its report and with nothing outstanding. That an automatic retry is under way from the moment it has read its
report, and not only once it has its row, came out of this proof, which failed without it; TLC then found
the interleaving described above.

Two theorems of `ReportProofs` need no assumption on time, and bound what a late statement can do. `RestartsAreUnfenced`:
a job that is completed or failed is started again only by the `WHERE id` statement of the request or the automatic
retry that created its row, never by a claim, a stage, a heartbeat, a requeue or recovery. `OverwritesAreUnfenced`: a
report in review leaves that state only while an unfenced statement to it is still to come (a Retry, an automatic
retry, a shutdown, recovery), or while one of its jobs is live.

`ScheduleProofs` proves the types of `ScheduleSync` (`ScheduleTypeCorrect`) for any number of feeds. The lemma that
carries it, `SlotInHour`, says that `buildHourlySlotMap` finds a minute of the hour for every hourly feed, also when
there are more than sixty of them; the feeds need only be finitely many (`ScheduleAssumption`). `OneRepeatable` adds
that overlapping passes leave one repeatable per key.

The theorems are about single components, the runs `search_jobs` and `platform` about several at once, with bounds.
What connects them is proved too. `ScheduleProofs` shows that a behaviour of `MCPlatform` is one of `Backup` and one of
`ScheduleSync` (`PlatformParts`), hence `PlatformTypeCorrect`. `SearchExportProofs` does it for `MCBackendJobs`
(`JobParts`): AI requests always behave as `InferenceSpec`, searches with their bulk jobs as `Spec` unless exports run,
and exports as `ExportSpec` unless searches run. The exceptions are due to the one variable they share, the count of
crashes, which a step of the other part may change; `JobsTypeCorrect` therefore takes its own induction, in which each
part keeps the type of that count for the other.

Each invariant above was checked by TLC on a small instance before it was proved. Every invariant, action property and
refinement of the passing runs is stated by a theorem. What stays with TLC is every liveness property: fairness and
`ENABLED` are beyond the prover.

## Not modelled

The table of components in `PROJECT.json` says which parts are left out and why. Most of the repository's lines are
presentation, parsers of third-party formats, text heuristics over reports and single SQL statements: there a model
would either repeat the text or say nothing. Within the modelled parts: `integration_runs`, custom feed runs, the
monolithic snapshots that preceded chunk generations, `.part` files, and the removal of a feed; bulk actions over a
plain query, and the synchronous mode; the contents, encryption, upload and restore of backups; the sync of the two
single repeatables (`spamhausDropScheduleSync.js`, `fileArtifactReconciliationScheduleSync.js`); the modes
`refresh_extraction` and `rerun_ai` and IOC-source jobs of report analysis; fairness between the runs of one AI
provider.

## Plan

1. Done: `FeedQueue` and `FeedGenerations` with their proofs; `ScheduleSync`, `Backup`, the job stores with their
   abstract specification, `InferenceScheduler`, `ReportAnalysis`.
2. Done: the theorems about feeds, generations, exports, deep searches, inference, backups, reports, schedules and the
   compositions that the runs explore.
   Every safety property of the passing runs is stated by a theorem.
3. Left to model: the published feed tick with the deadline that abandons work, and the slice cursor of the
   reconciliation; the USOM enqueue; the IOC lifecycle; sessions and first-run setup; MalwareBazaar recovery.
