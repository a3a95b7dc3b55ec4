# usenet-pipeline in TLA+

A model of the agent `ameNZB/usenet-pipeline`: a Go program that polls an
indexing site for requests, downloads torrents, posts them to Usenet and
reports the NZB, and that also posts what operators drop into watch folders.
The modules are translated from the source under `src/`. `PROJECT.json` maps
every definition to the lines it stands for, names the runs, and lists the
hazards and findings.

## 1. The system

| Component | State | Operations | Talks to |
|---|---|---|---|
| Polling loop (`main.go`) | `activeTasks`, `maxDL`, `consecutiveAborts`, `abortPauseUntil`, `oversizeSkip` and its file | poll, claim, skip, pause, stop, stop after current | site (HTTP), task goroutines |
| Task pipeline (`main.go`, `processTask`) | phase, context, `downloadedPath`, attempts; `state.json`, `dl-request-N`, `backup-request-N.nzb` | resume or download, process, upload, report, back up, clean up, release | site, `UploadSlot`, disk budget |
| Backfill (`main.go`) | list of backup files | submit, remove | site, backup files |
| Status reporter, watchdog, VPN control (`main.go`, `services/vpn_control.go`) | last contact (`lastOKNano`), last VPN restart | post status, cancel a task; restart the tunnel, exit the process | site, `JobCancels`, gluetun |
| Torrent download (`services/torrent.go`) | progress, three rejection timers with recovery counts, warnings, seed ratio and deadline | wait for metadata, sample, reject, finish, seed | torrent client, progress callback |
| Job state file (`storage/storage.go`) | `GlobalState.Jobs`, `state.json` | update, save, load; sweep of download directories | tasks, disk |
| NNTP upload (`services/usenet.go`) | two bounded channels, `errs`, worker connections, segments | read, send, connect, post, retry, collect, return | NNTP server |
| Disk budget (`services/disk_reserve.go`) | atomic counter, map of reservations, limit | check, reserve, release, set limit | polling loop, downloads |
| Offline watcher and processor (`services/offline_*.go`, `storage/jobs.go`) | tables `offline_jobs`, `watch_folders` | scan, claim, run, mark, requeue | local UI, `UploadSlot` |
| Site groups sync (`services/site_groups_sync.go`, `storage/groups.go`) | `lastVersion`, `doFullSync`, table `groups` | fetch, upsert, reconcile | site, local UI |
| Layered configuration (`config/*.go`) | tiers `yml`, `env`, `web`; fields of `Config`; `config.yml` | write, apply overrides, refresh, report; directives and acks | site, local UI |
| Secrets (`services/secrets.go`) | passkeys by host, `secrets.yml` | set, reload | local UI, settings report |
| Local UI (`services/localui.go`) | none of its own | create, edit and delete groups, watches, jobs; settings, overrides, secrets | the tables, the configuration |
| Media and staging tools, yEnc/NZB encoders, network monitor | files, external tools | | not modelled, see section 7 |

What is hard here: goroutines that communicate through bounded channels with
one-sided cancellation; checks that are acted on later (capacity before a poll,
free space before a reservation, `SELECT` before `UPDATE`); work that must
survive lost answers, maintenance and crashes; a mutex held across network
waits; a table with two writers; a site that hands the same request out again;
files rewritten in place or by several goroutines; timers that run side by side
over samples a blocking call spaces out; a process that ends itself while a task
holds finished work; configuration set from three sides.

What makes each component correct:

* upload: a nil error means a complete list of stored articles; the call
  returns; it leaves nothing behind;
* polling: one goroutine per request, never above the limit, pause and cooldown
  respected, no exit under a running task;
* pipeline: one upload at a time, finished work is never dropped, tasks end;
* disk: reservations balance and never exceed what the check saw;
* offline jobs: none stranded, the claim returns its own row, a completed job
  leads to its own NZB, every queued job settles;
* groups: the operator's rows are safe, no edit is skipped, no stale row stays;
* watchdog: a blackout ends, nothing is restarted on a stale clock, the exit does
  not take finished work along, a stopped tunnel comes back;
* download: a rejection is deserved and announced, complete downloads are kept,
  dead torrents and cancelled tasks end;
* state file: what is restored was recorded, and what can be resumed is kept;
* configuration: what was acknowledged is on disk, disk and memory agree, agent
  and site converge.

## 2. Modules

| Module | Models | Extends or uses |
|---|---|---|
| `UploadPromise` | what `UploadToUsenet` promises its caller | |
| `NntpUpload` | `UploadToUsenet`, `nntpWorker` | implements `UploadPromise` |
| `NntpUploadProofs` | proofs | `NntpUpload` |
| `Dispatch`, `MCDispatch`, `DispatchProofs` | polling loop, admission | |
| `TaskPipeline`, `MCTaskPipeline`, `TaskPipelineProofs` | `processTask`, backfill, slot | |
| `DiskReserve` | disk budget and its callers | |
| `OfflineJobs`, `MCOfflineJobs`, `OfflineJobsProofs` | offline pipeline | |
| `SiteGroups`, `SiteGroupsProofs` | table `groups`, sync, operator | |
| `Watchdog` | `startWatchdog`, `RestartVPN`, contact clock, end of `processTask` in time | |
| `DownloadWatch`, `MCDownloadWatch` | `downloadAndWaitSeed`, `runSeedPhase`, metadata waits | |
| `StateStore`, `MCStateStore` | `GlobalState.Jobs`, `state.json`, sweep at start | |
| `LayeredConfig`, `MCLayeredConfig`, `LayeredConfigProofs` | tiers, `config.yml`, `Refresh`, directives, secrets | |
| `DownloadProofs` | proofs | `DiskReserve`, `DownloadWatch` |
| `RestartProofs` | proofs | `StateStore`, `Watchdog` |

The `MC` modules only add symmetry sets or concrete constants. `DownloadWatch` and
`StateStore` have prefixed names (`WatchSpec`, `StoreSpec`, ...), since their proof
modules extend two components.

### NntpUpload

Four kinds of goroutine. The dispatcher (`disp`) reads and sends; chunks are
numbered and only it sends, so the channel `jobs` is the interval
`taken+1 .. sent`. Each worker (`wpc`, `hand`, `attempt`, `conn`) receives,
generates a Message-ID, connects and posts up to `MaxRetries` times, and sends
to `results`. The closer is `CloseResults`. The caller is `Collect` and
`Return`. Details kept because properties depend on them: the send on `jobs`
does not look at the context, a worker that finds the context cancelled returns
without closing its connection, the sends on `errs` do not block, a post may
fail after the server stored the article, and the file may have shrunk since
`Stat`. Backoff sleeps, progress figures and the encoded bytes are left out.

### Dispatch

`poll` walks through one round of the loop: configuration, checks, poll, claim.
The guards are read where the code reads them, so other goroutines and the site
may move in between. A task is reduced to what admission sees: the cooldown
check, some work, its outcome as `fail()` classifies it, then report,
bookkeeping and release in that order. `overMem` and `overDisk` are the cooldown
map and its file, which is rewritten as a whole and may end up old, new or
truncated. `Crash`, `StopAfterCurrent` and `Boot` end and start the process.
`cooling`, `unsaved`, `forgotten` and `inPause` are history variables: `cooling` has
the requests reported too large until their 30 minutes are over, whatever becomes
of the process; `unsaved` the marks a failed save kept from the file; `forgotten`
those whose process ended while they were unsaved or not yet marked.

### TaskPipeline

One task per request (established by `Dispatch`). `pc` follows `processTask`;
the deferred calls are steps of their own in Go's order: `Unwind` unlocks
`UploadSlot`, `Cleanup` and `CleanupDone` remove the download directory (not
atomically), `Release` ends the run. `content` is what `dl-request-N` holds,
`pathRec` the recorded `DownloadedPath`s. `CompleteOk`, `CompleteErr` and
`CompleteMaint` are the outcomes of `site.Complete`; an error may hide a success.
The offline processor appears as the other user of the slot, and `runBackfill`
runs beside everything. `Boot` may forget any recorded path, which is what
`StateStore` shows `state.json` can do. `lost` is a history variable.

### DiskReserve

`ReserveDisk` and `ReleaseDisk` touch an atomic counter and a map one after the
other, so each is two steps. `CheckOk` and `ReserveAdd` are separate, as in
`downloadMagnet`; `FromTorrentFile` is the path without either. `StatErrors`
are jobs for which `statfs` may fail, where the code goes on with a warning.
Sizes are small numbers; `Need` keeps the factor 2.1 and its truncation. `raced`
records that two checks overlapped or one was bypassed. A download resumed after
a restart, which holds disk space without a reservation, is not an entry point
of this module.

### OfflineJobs

Each SQL statement is a step. `ClaimNextJob` is `ClaimUpdate` and `ClaimSelect`;
`started` holds `started_at` as a number, 0 for NULL, and a claim gets one above all
others (`Latest`), as `time.Now()` does. The processor then looks up the group,
works and marks the row by id. The operator works from a page that may be stale
(`page`). `orphans` are rows that a failed statement left in processing. One
watch folder stands for all of them, since `source_path` is unique.

### SiteGroups

One sync round is `Fetch`, then `UpsertSelect` and `UpsertWrite` per group, then
for a full sync `ReconcileSelect` and one `ReconcileDelete` per stale row.
`EndRound` advances `lastVersion`. What a group says is reduced to who wrote it:
the catalogue version or the operator. `Bumped` is the trigger. The site is
external; that it numbers edits with one increasing counter is inferred from
`since_version` and `MaxVersion`. A 404 counts as an empty response, as in the
code. `mine`, `heard`, `missed`, `gone` and `leftover` are history variables.

### Watchdog

Time in units of the watchdog's 30 s ticker; the run has the code's own values in
these units. `age` is the time since `lastOKNano`, which any response moves
(`RoundTrip`), whatever its status. `hb` is the status reporter, one request at a
time; a request begun in an outage may hang until the client's 120 s timeout even
if the outage ends. The watchdog looks once per tick (`WatchdogIdle`,
`WatchdogExit`, `RestartBegin`) and is inside `RestartVPN` while `wpc` is not at
the ticker: `PutStopped` and `PutRunning` on the path of the configured VPN type,
`PutFails` with or without effect. The task is the end of `processTask`: progress
post, up to three `site.Complete` with sleeps, maintenance waits, backup. Durations
are upper bounds. `back` (how long the site has been reachable) and `atRisk` (at
the last contact there was no longer time for all attempts) are history variables.
The `ClearMyLocks` call at start, which delays the first tick, is left out.

### DownloadWatch

One torrent. `Sample` is one tick of the loop: progress, the slow rule, the
full-seed gate, the stall rule, the low-peers rule, and the warnings of the callback, in
this order. A rule is its `since` and `recovery`; three good samples in a row clear
it. Speed is the difference between two samples, as in the code, and between them
lie one to `MaxGap` units, since the callback is an HTTP post inside the loop. Progress
may fall back when a piece fails its hash. `run`, `spell` and `frozen` are history
variables: `spell` is the time since a rule last had three good samples, `frozen`
the rules whose timer was running when the download passed 95 %.

### StateStore

`state.json` is a sequence of tokens, enough to tell a whole JSON object from one
with a tail or without its end; the tokens `begin` and `end` are its outer braces.
`SaveState` is `Marshal`, `Open` (which truncates) and `Write`; `WriteFails` is a full disk. Each job has its own goroutine. After a
crash `LoadState` takes the file or nothing, and `SweepOrphanDownloads` removes
what the loaded map does not refer to. `shells` are the outer directories `dl-<job>`,
which only the sweep removes. The `DownloadedPath` that `main.go:999` looks for lies
inside one and is removed by `processTask` (`main.go:1094`); that directory and what
it holds are in `TaskPipeline`, so the properties here speak of the shell. `stale`, `recorded` and `kept` are history
variables.

### LayeredConfig

`yml`, `web` and `setup.env` are the tiers, `cfg` the fields `Refresh` sets, `file`
is `config.yml`. `Layered.mu` (`mu`) is held from the merge to the rename of
`WriteYml`; `Refresh` is two steps without a lock. The polling loop's block is
`PollGot` to `PollAck`; `/config`, `/web-override` and `/secrets` run beside it.
Any call to the site may fail before or after the site did its part. A value is a
model string with what matters about it: whether it parses as a number and what
`loadYml` reads back (`Reread`). `Setups` are the environments a run starts in,
with the bounds of each. One key is managed through `config.yml`, so that the
per-key read locks of `Refresh` need no steps of their own. `writer` and `unsaved`
are history variables.

## 3. Runs

Passing runs (where a module has no theorem about its types, its type invariant
is a conjunct of one of the invariants checked):

| Run | Instance | Shows |
|---|---|---|
| `nntp_pool` | 2 workers, a file of 5 chunks that was 6, 2 attempts | complete lists, stored articles, connections closed, call and dispatcher end, refinement of `UploadPromise` |
| `dispatch` | 2 requests, 2 goroutines, limits 1 and 2, threshold 2, 1 crash | exclusivity, limit, pause, graceful stop, cooldown |
| `pipeline_safe` | 2 requests, 2 attempts, 1 maintenance window | serialised uploads, the slot is given back |
| `pipeline_live` | 1 request, 3 attempts, 2 windows, 1 crash | finished work kept through retries, crash and backfill; tasks end, the offline processor gets the slot |
| `disk_budget` | 3 jobs, sizes 2 and 4, capacity 10, limits 0 and 9 | reservations balance, no overcommitment without a race |
| `offline_jobs` | 2 paths, 2 rows, 2 retries, 1 error, 1 crash | ownership, claims, outputs, jobs settle |
| `groups_sync` | 2 names, 2 edits, 2 operator writes, 1 error, 1 restart | overrides safe, no edit skipped, edits show up, no stale row |
| `watchdog` | the code's thresholds, waits of 30 s and 2 min | blackouts end, no restart on a stale clock, finished NZB safe before exit, tunnel restored |
| `download_watch` | 8 levels of progress, timeouts of 3 units, 4 settings | rejections justified and announced, complete downloads kept, dead and cancelled ones end |
| `state_store` | 2 jobs, 2 crashes | only recorded paths restored, a quiet file is current, resumable downloads kept |
| `layered_config` | 1 key, 3 directives, 4 environments | acknowledged is durable, file matches tier, agent and site converge |

One run ends in a violation of what a comment of the repository says (quoted
under `findings` in `PROJECT.json`): in `pipeline_resume` a partial download is
resumed through a stale `DownloadedPath` and reported as completed.

Properties that hold with an exception say so in their comment; behind each
exception is a behaviour of the code that its comments do not mention:

* `NNTP_CONNECTIONS=0` starts no worker, and `UploadToUsenet` returns an empty
  list with a nil error (the theorem `UploadComplete` assumes a worker).
* `main.go:592` wants backups submitted before polling; `go runBackfill` runs
  beside it, so a request may be downloaded again while its backup waits.
* `UploadSlot` is unlocked at the end of `processTask`, after the completion loop,
  so it is held through a maintenance window (`NobodyStuck` assumes that
  maintenance ends).
* `downloadTorrentFile` reserves nothing (`raced` covers it in
  `NoOvercommitUnlessRaced`).
* `main.go:76` says that a restart does not reset the oversize cooldown. `fail()`
  tells the site first (`main.go:891`) and marks the request afterwards
  (`main.go:898`), and the save of the mark is best effort (`main.go:120`), on a disk
  that was just found full. A process that ends between the two calls, or whose
  saves failed or left a truncated file, forgets the cooldown, and the request is
  worked on again after the restart (`forgotten` in `NoWorkInCooldown`; leaving out
  either cause makes TLC find a violation).
* `ResetQueuedJob` has no condition on the status: a retry from a stale page
  requeues the job being worked on, which the processor's final `UPDATE` then
  settles.
* A failed upsert is skipped while `lastVersion` advances: the edit is fetched
  again only after a restart (`missed` in `UpToDate` and `EditShowsUp`).
* The trigger on `groups` adds one to a version pulled again unchanged; the column
  is only displayed.
* A worker that receives a chunk after cancellation returns at `usenet.go:289` with
  its connection open (`ConnectionsReleased` exempts cancelled uploads).
* `downloadMagnet` checks free space and reserves it in two calls
  (`torrent.go:329`, `torrent.go:343`); two tasks whose checks overlap overcommit
  the disk (`raced`).
* `titleFromEntry` strips the extension (`offline_watcher.go:117`), so two entries
  that differ only there write one NZB file; `CompletedHasNzb` is checked for
  entries with different titles.
* A group the operator saves between the `SELECT` and the `UPDATE` of
  `UpsertSiteGroup` (`groups.go:205`) is overwritten; `OverrideKept` covers the
  groups that were local when the round began.
* A finished NZB needs up to 510 s to be reported or saved in an outage (a progress
  post, three attempts of 120 s, sleeps of 10 and 20 s), 90 s less than the
  watchdog waits. A maintenance wait, which may be as long as the watchdog's
  ten minutes, followed by an outage loses it (`atRisk` in `SavedBeforeExit`).
* The reporter may hang in an old request for 120 s after the network came back,
  and the watchdog then restarts a tunnel that works (`NoNeedlessRestart` bounds this).
* The stall rule has no percent gate, so it can reject a download that has just
  become complete while the callback blocked (`RejectionJustified`). It asks for three
  progressing samples in a row: a download that progresses in one sample of three is
  rejected, which the comment at `torrent.go:599` ("zero progress") does not say.
* The slow and low-peers timers keep their start above 95 % and count on when the
  download falls back (`frozen`). The comment at `torrent.go:562` speaks of skipping
  the first 30 s; the code has no such condition.
* Downloads from a `.torrent` file get no `DownloadOpts` (`torrent.go:244`): only the
  stall rule applies, and with `StallMins` 0 none. A seed phase with a ratio target
  alone may never end (`EndsWhenTold` is about those with a time limit).
* Saves of `state.json` that overlap may leave the older snapshot, or a text that
  does not parse, until the next save (`stale` in `FileTrustworthy`). A process that
  starts on such a file loads no job, and its sweep removes every download;
  `ResumableKept` is about what one process has loaded or recorded.
* The polling loop does not apply a nil map of overrides (`main.go:646`). If the site
  leaves an empty map out of its answer, overrides cleared there stay in force
  until a restart, while `/web-override` does apply the nil map (`Visible`).
* A `WriteYml` that fails leaves its value in memory, and the next one that succeeds
  writes it to disk although its caller was told of an error (`unsaved`).
* A directive for an env-only key is acknowledged as a success with nothing written,
  and one whose ack was lost is applied again over a later edit.
* Values with quotes or backslashes are written with `%q` and read back by trimming
  quotes only (`Plain`); a host with a port in `secrets.yml` loses the port.
* An override that does not parse gives the default, not the next tier's value.

### Bounds, and why they are enough

* Five chunks over channels of capacity four (two workers) let `jobs` fill while
  the dispatcher still has a chunk to send; two workers let one give up while
  the other goes on, and `errs` be full when the second gives up. The sixth
  chunk, gone since `Stat`, makes the dispatcher meet the end of the file.
* Two requests and two goroutines make every pairwise interleaving of claims,
  releases and reports; limit values 1 and 2 allow the site to lower the limit
  under two running tasks. The abort threshold 2 stands for 5: the counter only
  matters up to it. Goroutines of the model beyond the limit would never start.
* One crash between any two steps, followed by a restart, reaches every
  persistent state a crash can leave; the recovery code runs once per start.
  A second crash would only repeat it from such a state.
* Two maintenance windows let a task meet a new window after having waited for
  one. Two requests meet in `UploadSlot` only, so `pipeline_safe` has two of them
  and a retry, and `pipeline_live`, with one, has the crash and the code's three
  attempts.
* Three jobs of two sizes on a disk for one large or two small ones.
* Two rows let an orphaned row sit beside the one being claimed, a path be queued
  again after its deletion, and a retry hit either.
* Two edits over two names let one name change while the response with the other,
  or with its own older state, is being applied; two writes let the operator
  create or save a group and remove or rename it in the same round.

* The watchdog run has no reduced bound but the waits: 30 s fits into the margin
  before the exit, 2 minutes does not.
* Timeouts of three units and gaps of up to two let a rule recover, flicker and
  expire in the same download; eight levels, one of them above 95 %, are enough for
  two rules to be at different stages.
* Two goroutines make every overlap of two saves, of equal and of different length;
  the second crash can hit the process that started on what the first one left.
* Two changes of overrides let an older answer be applied after a newer one; one
  local edit, one restart and two directives let a second writer get between a
  directive and its ack. The environments cover a read-only `config.yml`, a
  value in the process environment and a site that omits empty maps.

Deadlock is checked in `dispatch`, `watchdog`, `state_store`, `layered_config`, the
pipeline, disk and groups runs. It is off for the upload and the download, which
end, and for offline jobs, where the bounds on rows and crashes stop the system.

## 4. Fairness

* `NntpUpload!FairSpec`: weak fairness for each goroutine. The Go scheduler runs
  what can run, and the server is assumed to answer or to drop the connection
  (the code sets no deadline, so this is an assumption about the server).
  Nothing obliges anyone to cancel.
* `TaskPipeline!FairSpec`: weak fairness for each task, except that a running
  download needs not end unless cancelled. Strong fairness for taking
  `UploadSlot`: `sync.Mutex` hands itself to a waiter that starves.
  `MaintEnds` is weakly fair: the site comes back from maintenance.
* `OfflineJobs!FairSpec`: the supervisor restarts the process, and the processor
  goroutine runs when it can. Nothing is assumed of the operator or the watcher.
* `SiteGroups!FairSpec`: the ticker keeps firing and steps of a round are taken;
  strong fairness for `Fetch`, since 404 is not the site's answer for ever.
* `Watchdog!FairSpec`: the supervisor restarts the process, goroutines run, and time
  diverges (strong fairness of `Tick`, which the bounds of pending calls suspend).
  Strong fairness of the two `PUT`s: gluetun's control server is not down for ever.
* `DownloadWatch!FairSpec`: the loop and the seed phase keep ticking. Nothing is
  assumed of peers; progress is free.
* `LayeredConfig!FairSpec`: the loop and started handlers run on; strong fairness of
  the successful outcome of each call to the site, which does not fail for ever.

## 5. Proofs

All theorems are proved by TLAPS for every value of the constants, from the named
`ASSUME` of each module only: finite sets of workers, goroutines and tasks, natural
numbers, distinguished values outside the sets. The ones that say more are

* `Watchdog`: the VPN is restarted after at least two ticks (the code: 10), and the
  order of the thresholds, as in the code;
* `DownloadWatch`: positive timeouts, and 95 % is less than all;
* `LayeredConfig`: the values that survive `%q` are values;
* `StateStore`: job names differ from each other and from JSON's punctuation.

Together they state every safety property of the passing runs.

* **Upload** (`NntpUploadProofs`). `SuccessIsComplete` says nothing about the way
  to a return, so it is not inductive. The invariant `Inv` follows every chunk:
  `Dispatched` (order along `jobs`), `Hands` (a worker holds a chunk exactly while
  it works on it), `Once` (a chunk is in one place: a hand, `results`, or the
  list), `Covered` (in a run that was neither cancelled nor saw an error, every
  received chunk is somewhere), `Endings` (why each goroutine ended). When `Return`
  yields nil, all workers have exited, none had failed, so each saw `jobs` closed and
  drained; nothing is in a hand or in `results`, hence everything is in the list
  (`UploadComplete`, which needs one worker: without any the statement is false,
  see section 3). `Posted` ties articles to Message-IDs (`SegmentsTruthful`) and
  `Released` ties open connections to cancelled uploads (`BudgetKept`).
  `UploadKeepsPromise` maps every step to a step of `UploadPromise` or a stutter.
* **Polling** (`DispatchProofs`). `IInv` is types, `OfferInHand` and
  `OneTaskPerRequest` (`TypeCorrect`, `ClaimsExclusive`). Each of the others needs
  to know what an earlier check still guarantees: `RoomForOne` from the capacity
  check to the claim (`LimitRespected`), `FirstInPause` for a pause that begins
  with a poll in flight (`PauseHolds`), `CoolingRecorded` for the gap between
  report and bookkeeping and for restarts (`CooldownHolds`): a request that is cooling
  and not forgotten is about to be marked, or is marked in memory and, unless a save
  failed since, in the file; so the file has it when the process ends.
  `StopIsGraceful` follows from `IInv`.
* **Pipeline** (`TaskPipelineProofs`). `UploadsSerialised` with the types is
  inductive as stated (`SlotCorrect`). `WorkNeverLost` needs `AckedIsDone`: what
  `runBackfill` is about to remove, the site has stored.
* **Groups** (`SiteGroupsProofs`). `OverridesSafe`: the invariant `Aim` says that a
  row found local when the round began stays local, and that neither the row being
  updated nor the rows being deleted are among them. `TableKeepsUp` (`UpToDate`)
  needs `Mirror`: `KeepsUp` (each edit that the next round will not ask for again is
  still to be upserted, being upserted, or in the table), `AnswerHolds` (the answer
  in hand is what the catalogue still says, up to the version the round ends with)
  and `Targets` (what the operator may have done to the rows a round is about to
  write or delete). `StaleRowsGone` (`NoStaleRows`) needs `Heard`: after the full
  sync all rows of the site were named since the start, and during the
  reconciliation the others are those still to be deleted.
* **Disk** (`DownloadProofs`). The invariants are sums over the set of tasks. What
  `SumFunction` computes is an induction over finite sets, which the prover cannot
  take from its library; it is done by the absence of a smallest counterexample
  (`SmallestSubset`), and gives `SumBounds` and `SumChange`, the effect on a sum of
  changing one summand. `Budget` is types, `Entries` (which phases have an entry and
  of which size) and `Balanced` (`CounterBalances`). `ChecksKeepTheirPromise` follows
  the sum of counter and checks passed but not yet reserved through every step.
* **Download watch** (`DownloadProofs`). `Timers`: a running timer belongs to a rule in
  force, its warning is shown, its recovery count is the number of good samples in a
  row, and it is no older than the spell without three of them, unless it ran on
  unwatched. `OneRule` is what a sample does to one rule; from it follow
  `OnlyBadDownloadsRejected` and `RejectionsAreAnnounced`.
* **Offline jobs** (`OfflineJobsProofs`). `Claims`: types, `Rows` (one row per entry),
  `Hands` (what the processor holds in each of its states), `Stamps` (start times
  are distinct, and the claimed row's is the latest until the `SELECT` has looked),
  `Grip` (a claimed row still in processing is the one worked on) and `Owned`. The claim's `SELECT` finds
  the row its `UPDATE` chose (`ClaimIsReturned`), and rows in processing have an owner
  or are the known orphans (`NoJobStranded`). `Nzbs` follows a file from the processor's
  hand to its row; `NzbIsItsOwn` has the hypothesis that entries have different
  titles, without which it is false (section 3).
* **Watchdog** (`RestartProofs`). `Blackout` relates the age of the last contact to the
  restart under way (`BlackoutEnds`), `Fresh` the age to how long the network has been
  back (`RestartsNeeded`), and `InTime` the age to the time the remaining attempts may
  take (`NzbSafeBeforeExit`): from the last contact on, the sum of both stays below
  the exit threshold.
* **State file** (`RestartProofs`). Most of the work is the text: what `FlattenSeq` joins
  (again by a least counterexample), that the only `end` of a text is its last token
  (`TextIsWhole`), and that different job maps have different texts (`TextTells`,
  cutting off the last job's entry at its name, `Cut`). So a text written over
  another is left alone or unreadable (`OverwriteLeaves`), and one cut short is
  unreadable (`PrefixIsBroken`). The invariant `Stored` is types, `Saves` (all that is
  saved or about to be is backed by records and outer directories) and `Current` (as long
  as saves do not overlap, the one under way is of what memory holds). It gives
  `RestoredIsRecorded` and `ResumableNeverLost`.
* **Configuration** (`LayeredConfigProofs`). `Shape` is types and who holds `mu` where.
  `InSync`: with `mu` free and no failed write, what `loadYml` would read is the tier
  (`FileIsTier`). `Once`, `InTier` and `Durable` follow a directive from the answer
  through merge and rename to its ack (`AckIsDurable`).

Only model-checked: the liveness properties `NothingHangs`, `NobodyStuck`, `JobSettles`,
`EditShowsUp`, `TunnelRestored`, `DeadTorrentDropped`, `EndsWhenTold`,
`SiteAndAgentConverge` and `DirectiveSettled`: fairness and `ENABLED` are beyond the
prover.

## 6. Mutants

Each property of a passing run has one mutant or more in `PROJECT.json`: a definition
beside the real one that changes it as a plausible bug would (a dropped guard,
an early close, a new Message-ID on retry, a claim that accepts anything), under
which TLC finds the property violated.

## 7. Not modelled

* Media probing, screenshots, samples, PAR2, 7z, obfuscation, the blocklist:
  wrappers around tools, part of one step that succeeds or fails.
* yEnc and NZB encoding, HTTP requests, templates, SSE, the network monitor:
  formatting and I/O without state that others depend on.
* A private task whose `.torrent` body is empty continues with an empty path
  (`main.go:1046`); the pipeline model has no such branch.
* In `SiteGroups`, names are trimmed already (the code compares untrimmed names
  in the reconciliation), and the site's counter never goes back.

* `LayeredConfig` leaves out environment variables that are set to nothing, which
  only the settings report tells apart from unset ones.

## 8. Plan

Done, in this order: upload, polling, pipeline, disk, offline jobs, groups with the
first proofs; then watchdog, download watch, state file and configuration; then the
proofs of the remaining safety properties. Next:

1. A composition of `Dispatch` and `TaskPipeline`, and an abstract job queue that
   `OfflineJobs` implements.
2. `YEnc`: the encoder as a recursive definition against a decoder, TLC only.
3. `SiteGroups` with untrimmed names and a catalogue that is rolled back.
