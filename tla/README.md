# Verification of `utilities` (sftp-loadtest and its siblings)

TLA+ models of the concurrent core of the repository, the TLC instances that
check them, and TLAPS proofs about them. Paths are relative to `src/`;
`internal/` means `sftp-loadtest/internal/`.

## 1. The system

The repository holds four programs. `sftp-loadtest` is by far the largest and
the only one with substantial concurrent state, so it comes first.

| Component | State | Operations | Interacts with |
|---|---|---|---|
| Report store, CSV stream (`report/`) | ledger of per-file records, three indexes, hash counters, the append-only CSV | AddUpload, attach track-id / download, FlushFinalized, stamp, close, release, live read | every goroutine of a run; the CSV handler |
| Run pipeline (`runner/`, `trackid/`, `metrics/`) | upload goroutines, watcher's pending map and results channel, workers' seen sets, counters, stop reason | dispatch, upload, poll, match, download, flush, stop, drain, join, seal | report store, SFTP server, client pools |
| Client pools, protocol clients (`runner/`, `protocol/`, `sftpx/`, `bastion/`) | slots with lazily redialled connections | get, markDead, closeAll | uploads, download workers |
| Run registry and scheduler (`web/web.go`, `web/schedule.go`, `web/vault_migrate.go`) | map and order of retained runs; one JSON file per schedule; `startedAt` | start, register and evict, create / cancel / list schedules, sweep, migrate credentials | run pipeline, vault, disk |
| Run archive (`persist/`) | CSV and meta files | seal, list, recover interrupted runs | run pipeline, web |
| Cluster (`cluster/`, `web/cluster_handlers.go`) | active flag, worker list, archive directories | start with rollback, status, stop, archive | other instances over HTTP |
| Tunnels (`sshtunnel/`, `web/spawn_handlers.go`) | SSH client, listener, wait group; registry of spawned workers | spawn, forward, keep alive, close | remote hosts |
| Mock servers (`mocksftp/`, `mockftp/`) | one map of files per server, routes, open uploads | write, close, list (promotes and routes), read (may evict), delete, rename | the load test's own clients |
| Run doctor (`rundoctor/`, `web/rundoctor_handlers.go`, `persist/diagnosis.go`) | one log of diagnoses per run | analyse, follow up, append, read back | AI provider, run archive |
| Alerts (`alerts/`, `web/web.go`) | configuration in memory and in `alerts.json` | post, test, decide at the end of a run, deliver to each channel | run registry, webhooks |
| Vault (`vault/`, `web/vault_*.go`) | secrets in memory, encrypted file, unlocked binder | create, open, set, save, change passphrase, lock, migrate | schedules, starts |
| Trust stores (`hostkeys/`, `sftpx/client.go`) | trusted keys in memory and in a JSON file; the `known_hosts` file and its snapshot | verify, add, remove, first-use callbacks, capture, reload | dials, probes |
| Latency histogram (`latency/`) | bucket counters, count, sum, maximum, each atomic on its own | add, snapshot with percentiles | uploads and downloads, status page, seal |
| Sources, sinks, generator, config, quirks, analysis, security, probes | little or none | pure or I/O | run pipeline, web |
| `http-cmd-runner` | none between requests | run a command, cap its output | - |
| `threaddump-analyzer` | sessions in memory and on disk | parse, analyse, save, load | - |
| `sftp-admin` (C, first phase) | SQLite schema, config | migrate, load | - |

What is hard to test in it:

* **Two goroutines write the report.** `FlushFinalized` copies records under the
  mutex, writes without it, and takes it again to release them. The background
  flusher is not joined before the seal, attaches go on in between, and a write
  can fail halfway.
* **Results race the records they belong to.** A server may route a file before
  `uploadOne` records it; a download may arrive when its row has been sealed; a
  track-id result may be dropped on a full channel.
* **Counters are read while they move.** A percentile walks the buckets of a
  histogram one load at a time, between the two increments of another goroutine.
* **Shutdown must finish although the network hangs**, and must come after every
  upload.
* **Read, then act much later.** The sweep, the migration and the starts read the
  schedule directory or the registry, dial for seconds or minutes, and write
  back what they read.
* **Crashes.** Only files survive; a schedule may have fired without being
  settled, a seal may stop between its CSV and its metadata, a row may be cut.
* **One temporary name per file.** The stores write `x.tmp` and rename it. Where
  two saves may overlap, one truncates what the other is about to rename.
* **A call that failed may have taken effect.** A worker that the cluster master
  could not reach may be running; a spawn that was refused may have left a
  process behind.
* **A lock that covers less than the decision.** Verify and Add of a host key,
  the read and the write of the alert configuration, the get and the close of a
  pool are each atomic and together not.

`PROJECT.json` lists each of these at its line under `hazards`, with the
properties that would catch it, or a note saying why no run checks one.

What makes each part correct, in a sentence: the store loses no row, writes none
twice or too early and stays searchable; the run seals a complete report and
always gets there; the scheduler fires each occurrence at most once, not in
bursts, not after downtime, not after cancellation; the registry never loses the
handle of an active run; the archive lists every run once and for good; the
cluster leaves no worker running that nobody can stop; the pool closes every
connection it dialled; a percentile read during a run is between two exact ones;
a closed tunnel has told its worker to stop; what the vault,
the trust stores, the dump sessions and the alert settings acknowledged is on
disk.

## 2. Modules

### ReportStore

`internal/report/report.go`, with `isRecordFinal` (runner.go) and the live-CSV
handler (web.go). `slot`, `rec` and `index` are `Store.records`, the records
behind it and the three indexes, which are always added to and pruned together;
`csv` and `stream` are the file and the writer; `pc`, `batch`, `snap` are the
locals of `FlushFinalized`, one set per flusher (`"bg"` for `streamFlusher`,
`"seal"` for `sealAllAndWriteMeta`). `FlushCollect`, `FlushWrite` /
`FlushWriteFails` and `FlushCommit` are its three parts, split where the code
gives up the mutex. A record is reduced to what properties tell apart: upload
failed or not, track-id settled, how the download ended, the hash verdict. Time
is abstracted to `GraceExpires`. Failing writes keep any subset of the batch and
leave the writer broken for good, as `csv.Writer` does.

`SettleTrackID` and `SettleDownload` state what the store relies on: a track-id
is settled once, for a successful upload. RunPipeline is shown to respect that
(`StoreContract`).

### RunPipeline

Extends ReportStore with a whole run: `up` (each `uploadOne`), the watcher
(`pending`, `overdue`, `watch`, `results`; `tick` is split where it releases its
mutex or calls the network), `consumer`, the download workers (`worker`, `seen`),
`flusher`, and the supervisor (`sup`), whose order of waiting, draining,
cancelling, joining, tearing down and sealing is the one at the end of
`StartWithPersistAndTLS`. The server (`ServerRoutes`) is external: it may rename
and route any stored file to any outboxes, at any time or never. A seal that
cannot make its directory writes nothing, and the state is released all the same
(`FinishUnsealed`, with `AbandonSeal` of the store).

### Scheduler

`startRun` with registration and retention, `scheduleSweep` (of which
`SweepBetweenDials` is what runs without the network), the schedule handlers and
`applyScheduleMigrations`. Each of the schedule store's `list`,
`save` and `delete` is atomic, as its mutex makes it; every point between two of
them is a place where others may step, in particular `dial` inside `startRun`,
which can take minutes. `Restart` may happen in any state: memory is lost, files
stay, `startedAt` moves. A schedule is its time, period, sink template and
whether its credentials are literal. `lastFire`, `created` and `cancelled` are
history.

`NextRunAt` is the advance loop of the sweep as its result: the least
`RunAt + k * every` after the sweep's time. `Evict` is the retention loop as its
result: of the finished runs the oldest `len(order) - maxRetainedRuns` go, the
rest (`Kept`) close ranks (`Rank` is a position's place among those left).

### RunControl, ListClients, ClientPool

What runner.go decides around the pipeline. **RunControl** holds both dispatch
loops, the semaphore (`sem`, `flights`), the disable policy (`consecutive`,
`retired`), the speed-floor sampler, Stop, the deadline, and the closing
goroutine up to the sealed reason (`reason` is the first that was claimed,
`cause` is history: what really cancelled the dispatch). A select with two ready
cases may take either, so a loop may still dispatch after the cancel.
**ListClients** is the shutdown of the download workers: a server that never
answers List frees a worker only when `closeListClients` closes its connection,
and a worker that reconnects meanwhile registers a new one. After a listing the
worker transfers the files inline (`"transfer"`), over connections that nobody
closes under it; `HardCap` is for a worker that hangs there. **ClientPool** is
one user's pool: `get` split where it releases the pool's mutex, the slot's own
mutex held through a redial, `markDead` on whatever the slot holds by then, and
both teardowns (`Forced` is the one that does not wait for transfers).

### Tunnel

`sshtunnel/tunnel.go` and `web/spawn_handlers.go`: one action per step of a
bootstrap (dial, reap the orphan, install, launch, forward, wait, register), the
accept loop, keep-alive and forwarded connections as `tasks`, Close with its
steps, despawn, and the master's shutdown. Workers live on `Machines`.

`pkill` is what it is on the remote: a signal to whoever was started under the
usual name (`Named`; a request may choose another path for its binary,
spawn_handlers.go:136) at the bind address, so that it reaches another tunnel's
worker on the same machine and misses one with another name. A worker that got
the signal shuts down in its own time (`dying`, `WorkerExits`) and holds the
address meanwhile. The command may fail on a session that works, and both callers
go on: the reap logs the error, Close ignores it (`TryPkill`, which keeps in
`unreached` whose last one did not run).

Sessions may stall, answer again or be lost. A ping fails at any moment on a
session that does not stall, and one that is answered resets the count.

### Latency

`internal/latency/histogram.go`: Add and Snapshot as their single atomic
operations. A counter is the set of the samples it counts, so that a formula can
say which samples a percentile has seen. Buckets have one width and
the rank asked for is any between one and the count.

### Cluster

The coordinator, its handlers and the worker handlers it calls. The mutex covers
the coordinator's fields only; each call to a worker is a step of its own and
may be refused, time out after taking effect, or lose its answer. Workers also
serve other operators (`MaxForeign`). The rollback, the stop, the status and the
archive with its per-worker files are the code's own sequences.

### RunArchive, RunHistory, RunDoctor

**RunArchive** is a run on disk: CSV, trailer, temporary and final metadata,
recovery at boot, and `GET /api/runs`, which reads the registry and then the
disk. The process may die between any two steps and inside a flush, where it cuts
a row that still parses (`"torn"`) or no longer does (`"broken"`).
**RunHistory** is the abstract promise of the reports directory: a run is listed
at most once and an entry never changes. `HistoryKept` states that RunArchive
implements it (`history <- meta`). **RunDoctor** is the diagnosis log of one run
under concurrent analyses, with lines that a full disk cuts short. A follow-up
collects its thread one turn at a time, and each turn reads the log again
(`WalkParents`), so that others append in between.

### Vault, TrustStore, KnownHosts, Alerts, DumpSession

Five stores that keep a copy in memory and one on disk. **Vault** models Vault
objects (several may be open on one file), the binder, every handler that uses
it, and Save as truncate, write and rename of one temporary file. **TrustStore**
stands for the SSH and the FTPS store, which differ only in what they compare;
`storeMu` is held through the save. **KnownHosts** is the file mode of
`sftpx/client.go`: append, capture, rewrite, and the snapshot that runs dial
with. **Alerts** is the configuration file and, per finished run, the dispatcher
with its copy of it. **DumpSession** is a session of threaddump-analyzer.

### MockServer

The file map the SFTP and the FTP double share in design; every operation is
atomic under `mockFS.mu`, uploads stay open across them, and any client's list
promotes and routes what is complete.

### Proof modules

| Module | Theorems about |
|---|---|
| `ReportStoreProofs` | ReportStore |
| `RunPipelineProofs` | RunPipeline and that it implements ReportStore |
| `SchedulerProofs` | Scheduler |
| `RuntimeProofs` | ClientPool, Tunnel, RunControl, ListClients, Latency |
| `ClusterProofs` | Cluster |
| `RunArchiveProofs` | RunArchive and that it implements RunHistory, RunDoctor |
| `TrustStoreProofs` | TrustStore, KnownHosts |
| `StoresProofs` | Alerts, DumpSession, Vault, MockServer |

Section 5 says what they prove and along which argument.

### MC modules

`MCReportStore`, `MCRunPipeline` and `MCScheduler` add model values and symmetry
sets only. `MCStores` and `MCRuntime` each put several components that share no
state beside each other: `component` is chosen once, only that component moves,
and the rest of the state stays at its initial value. The set of behaviours is
the disjoint union of the components' own, so checking them together costs the
sum of their states. Every `.cfg` assigns constants and replaces nothing.

Operators whose comment says "Slip", or that describe a wrong variant directly
above the right one, are plausible bugs that the properties are shown to notice;
the specifications do not use them.

## 3. Runs

Passing:

| Run | Instance | Shows |
|---|---|---|
| `report_store` | 2 files, both flushers, failing disk, no reader | `ReleasedRowsOnDisk`, `LiveRecordsIndexed`, `OneRowPerFlusher`, `BackgroundRowsSettled`, `SealedForGood` |
| `run_uploads` | 2 uploads, results channel of 1, no downloads | `AwaitedRecordsLive`, `SealedReportComplete` |
| `run_downloads` | 1 upload, 1 worker, 1 list error (about 380,000 states) | `SightingsCountedOnce`, `StoreContract` (refinement: the run implements ReportStore's `Spec`), `StoppedRunSeals` (liveness, under two conditions, see section 4) |
| `scheduler` | 2 schedules, 1 manual start, 1 restart, times 0..3, failing saves | `OneShotCancelHolds`, `NoCatchUpBurst`, `NoMissedReplay` |
| `run_registry` | 3 manual starts by 2 handlers, 1 schedule, cap 1, 4 run ids, all faults, migration, 1 restart | `ActiveRunsReachable`, `OverCapOnlyActive` |
| `schedule_liveness` | 2 schedules, times 0..2, 1 manual start (about 880,000 states) | `DueSettles` (liveness, under two conditions, see section 4) |
| `stores` | ten components, two concurrent actors each, every fault (about 975,000 states) | see below |
| `runtime` | five components (about 460,000 states) | see below |

`stores`, component by component:

| Module | Properties | In a sentence |
|---|---|---|
| ReportStore (1 file, hashes, 1 live-CSV request) | `MatchedRowsCounted`, `MissedRowsOnDisk` | a verified row is counted; what the reader missed is on disk |
| Cluster | `NoStrayRun` | a worker that fails in a start, a rollback or a stop strands no other worker's run |
| RunArchive | `RecoveredOnBoot`, `ListingMissesNoRun`, `HistoryKept` | no interrupted run is forgotten, no run falls between the two reads of a listing, no entry ever changes |
| RunDoctor | `PromptThreadWhole` | a follow-up is asked with its whole chain of parents |
| Vault | `StoredSecretsDurable`, `FileAlwaysWhole` | an acknowledged secret is on disk and the file can be opened, but for two windows named in the property |
| TrustStore | `ConsentOnDisk`, `ConsentAdmits` | an accepted key is on disk and admits the next dial |
| KnownHosts | `SoloProbesKeepTrust` | probes one after the other lose no approved entry |
| DumpSession | `SavedDumpsKept` | overlapping uploads lose no dump |
| MockServer | `AckedUploadsDelivered` | an acknowledged upload is delivered whole |
| Alerts | `EveryChannelTried`, `SoloSavesAtomic` | one failing channel stops no other; saves that do not overlap are atomic |

`runtime`:

| Module | Properties | In a sentence |
|---|---|---|
| RunControl | `TokensMatchUploads`, `MaxFailuresMeansAll` | the semaphore leaks nothing; "max-failures" is the truth |
| ClientPool | `NoConnectionLeaks` | every connection ever dialled is closed in the end |
| ListClients | `WorkersReturn` (liveness) | a cancelled run gets back every worker that hangs in no dial and no transfer, though List never answers |
| Tunnel | `ClosedTunnelsStopTheirWorker`, `LeftoversReaped`, `LostSessionsClosed` (liveness) | a closed tunnel told its worker to stop and a new one reaped the leftover under the usual name, unless the pkill did not run; a session that stays broken is closed |
| Latency | `PercentileBracketed` | a percentile read while samples arrive lies between two exact ones |

`MCRunForeign.cfg` (MCRunPipeline) checks the safety properties of
`run_downloads` with another run's file in the outbox as well, so that a listing
has two names; without the liveness property it takes a minute for 695,000 states.

Violations, each a sentence of the repository that the code does not keep
(quoted in `findings`):

| Run | The repository says | What the code does |
|---|---|---|
| `orphans` | orphans are files this run did not upload (persist.go:81-82) | a file routed before `uploadOne` recorded it is an orphan for good (runner.go:1750-1759) |
| `succeeded` | total minus errors gives successes (runner.go:501-502) | errors of other kinds are subtracted too (runner.go:504-518) |
| `schedule_overlap` | cron firings never spawn surprise overlaps (web.go:1547-1548) | the gate does not see a start that is still dialling (schedule.go:356, web.go:1568-1579) |
| `schedule_cancel` | cancel deletes a pending schedule (schedule.go:249, docs/howto.md:153) | the sweep writes a recurring one back (schedule.go:376) |

Further instances of the same kind, kept as `.cfg` files beside the others; TLC
finds each of these violated within seconds:

| Config (module) | The repository says | What the code does |
|---|---|---|
| `MCFireOnce` (MCScheduler) | one-shots fire at most once (schedule.go:383-384) | the migration writes a fired one back (vault_migrate.go:156) |
| `MCMigration` (MCScheduler) | the file is rewritten with references (vault_migrate.go:9-11) | a sweep that listed earlier writes the literals back (schedule.go:376) |
| `MCConfigKept` (MCScheduler) | the form snapshot is locked at schedule time (docs/tutorials/06:131-132) | the template repair reaches the stored config through a shared pointer (web.go:1528, 1764) |
| `MCSinks` (MCScheduler) | sink paths stay disjoint (web.go:1560-1566) | two concurrent starts do not see each other (web.go:1567, 1579) |
| `MCReportStoreIndex` (MCReportStore) | the index survives a flush (report.go:255-258) | a flush prunes finished records (report.go:557-571) |
| `MCReportStoreReader` (MCReportStore) | a live download is correct (web.go:2171-2173, report.go:869-871) | a row flushed between its two reads is missing; LockForConcat is never called |
| `MCReportStoreCount` (MCReportStore) | FlushedCount counts moved records (report.go:440-441) | both flushers move and count the same one |
| `MCRunBlank` (MCRunPipeline) | no row with silently empty download columns (report.go:583-585) | a dropped track-id result leaves one (report.go:597, watcher.go:94-98) |

Sentences of the repository that the new components do not keep, as formulas
beside the passing properties. To see TLC's counterexample, add the name to the
`INVARIANTS` or `PROPERTIES` of `MCStores.cfg` or `MCRuntime.cfg`:

| Formula (module) | The repository says | What the code does |
|---|---|---|
| `NeverHalfRunning` (Cluster) | all-or-nothing start (cluster.go:136-138) | a worker whose start timed out and took effect is not rolled back |
| `OneClusterRun` (Cluster) | one cluster run at a time (cluster.go:17) | the active flag is tested before the workers are called and not again |
| `ArchivedCsvIsOwn` (Cluster) | the archive holds the cluster run's CSV (archive.go:55-56) | the archive asks with `?id=`, the worker reads `?run=` and answers with its latest run (archive.go:395, web.go:2168) |
| `StopArchives` (Cluster) | a stop archives the run (cluster_handlers.go:125-128) | a stop with an error answers 502 before the archive |
| `ArchivesOnlyStopped` (Cluster) | archives hold finished runs (archive.go:3) | the coordinator is read again after the stop, when another run may be recorded |
| `RecoveredAsSealed` (RunArchive) | recovery restores the counts of the process (recover.go:71-72) | it counts rows, the seal counts successes |
| `ReplyNamesOwn` (RunDoctor) | the reply is the diagnosis just stored (rundoctor_handlers.go:425) | it is the last line of the log by then |
| `SingleVault` (Vault, `MaxRequests = 4`) | one Vault per process (vault.go:104-105) | an unlock opens a second one while a handler uses the first |
| `PassphraseChangeKeepsSecrets` (Vault) | re-encrypts the vault (vault.go:368) | a change on a closed Vault writes an empty one |
| `MigratedCredentialsKept` (Vault) | the plaintext is stored before the marker (vault_migrate.go:118-122) | it is stored in memory; the save comes after and may fail |
| `SkipLeavesStore` (TrustStore) | a skipping probe has no role in the store (web.go:652-654) | it may pin the leaf |
| `NoSilentReplacement` (TrustStore) | no auto-fix of a changed key (callbacks.go:33) | two overlapping first dials, or the probe's late Add, replace a key |
| `OneKeyPerHost` (KnownHosts) | first-time dials cannot race (client.go:106) | the mutex belongs to one callback |
| `ApprovedReachesRuns` (KnownHosts) | the next start sees the entry (web.go:575-576) | a reload may install an older snapshot |
| `DumpFileIsItsDump` (DumpSession) | dump content never mutates (persist.go:66) | a stray file of an earlier crash is taken for the new dump |
| `AuxRecorded` (DumpSession) | auxiliary files are recorded (persist.go:77-78) | every Save builds `meta.json` anew without them |
| `EvictionLeavesNothing` (MockServer) | memory is bounded by in-flight files (mocksftp/server.go:58-59) | not for a user without a pair |
| `OnlyCompleteRouted` (MockServer) | an upload is routed once it completes (mocksftp/server.go:7) | a dropped connection completes it too |
| `AlertsFileWhole` (Alerts) | a crash does not corrupt the file (web.go:149-151) | overlapping saves share the temporary file |
| `UrgentAlwaysFires` (Alerts) | always-on triggers (alerts.go:112-116) | not when the metadata cannot be read (web.go:996-997) |
| `SealedReasonIsCause` (RunControl) | the trailer has the actual cause (runner.go:1545-1546) | a late Stop or floor overrides a deadline |
| `RedialOnce` (ClientPool) | one redial between two uploaders (runner.go:911-912) | markDead may close the connection just redialled |
| `IndexInRange` (ClientPool, `Forced = TRUE`) | - (runner.go:1017-1018) | a get may index the slice that closeAll set to nil |
| `TunnelServesItsWorker` (Tunnel) | defensive cleanup of any orphan (tunnel.go:271) | the pkill may fail (tunnel.go:275-280) or not match; the orphan holds the address and `waitRemoteReady` takes it for the new worker |
| `OnlyOrphansReaped` (Tunnel) | reaps orphans of a previous master (tunnel.go:271) | a second spawn on a machine kills the first one's worker |
| `FailedSpawnsAreClosed` (Tunnel) | everything is torn down before the error returns (tunnel.go:142-143) | the dial of an abandoned request goes on and its session stays open |
| `ExitLeavesNoWorker` (Tunnel) | no orphans (web.go:179-180) | the pkill of a Close may fail unnoticed or not match (tunnel.go:787-788), and a spawn under way is in no registry |

### Bounds

Every bound is a constant: `MaxAttach` (counted hash comparisons), `MaxErrors`
(list errors), `MaxTime`, `MaxStarts`, `MaxRestarts`, and the sizes of the sets.
Two files let one flusher hold a batch while another record moves and while the
other flusher holds the same one; a second download user adds no new
interleaving with the store, since workers share nothing but the ledger. In
`schedule_liveness` times 0..2 with period 1 let a recurring schedule fall due
again while another one, or the manual run, still waits or runs; times
0..3 with period 1 let a recurring schedule sleep through several occurrences
and be caught by a restart. `Retain = 1` with four run ids puts the registry
over its cap with active and finished runs mixed. A run identity returns to use
once its run ended and was evicted, which keeps `RunIds` finite without
limiting the length of a behaviour.

In `stores` two actors use two of each datum: two is what every race above
needs. `MaxRequests`, `MaxProbes`, `MaxUploads`, `MaxRuns`, `MaxCalls`,
`MaxDiagnoses` and `MaxPuts` bound how many requests a behaviour has, and are
set so that one actor can finish, and come back, while the other is still in the
middle; `MaxCrashes = 2` lets the recovery itself be interrupted;
`MaxRotations = 1` spends one key renewal or one reboot; `MaxAlertCrashes = 1`
and `MaxBoots = 1`. In `runtime` `MaxDispatched = 4` over `Streams = 2` fills the semaphore and
skips, `Threshold = 2` and `RequiredTicks = 2` need two failures or low ticks in
a row, two samples in three buckets and two percentiles let an Add come between
any two loads of a walk, `MaxConns = 4` over two slots leaves room for redials
of both, and two spawns meet on one machine, one of them under a name that pkill
does not match (`Named`). `MaxFails = 2` where the code has 3, so that a ping can
fail, be answered, and fail again. Of the tunnels' faults one is spent at a time
(`OneFaultAtATime` in MCRuntime): no new stall, failed pkill or failed ping
before the trace of the last one is gone, except what a lost session entails.
The theorems about tunnels have none of these bounds. The symmetry of `MCStores`
exchanges actors, hosts and keys, which no definition tells apart; its temporal
properties are safety properties.

The runs of ReportStore and RunPipeline, `stores` and `runtime` say
`CHECK_DEADLOCK FALSE`: a run ends, and so does a bounded supply of requests.
The scheduler's check it: its sweeper never stops.

`run_registry` turns every fault on; `scheduler` leaves out failing deletes and
the migration, with either of which a fired one-shot can come back
(`MCFireOnce`; for the delete, whose error the code discards, see the
hazard at schedule.go:385).

## 4. Fairness

The clients set no deadline: `cfg.Timeout` bounds the TCP connect
(sftpx/client.go:431-436, 466, 491), not the handshake, the sftp open or a
transfer (526-540), and `uploadsWG.Wait()` (runner.go:1354) waits without limit.
So no fairness is assumed of anything that a server has to answer. Where the
code's promise depends on such a call returning, the property says so in its
premise, and TLC checks it over the behaviours in which it may also hang.

* `FairRunSpec`: weak fairness of `StopDispatch` (the deadline timer), of the
  bookkeeping of an upload that came back, of deadlines passing and of the
  supervisor but for `Teardown`. `StoppedRunSeals` has the premises
  `UploadsReturn` (no upload hangs for ever) and `TeardownReturns` (closeAll
  takes each slot's mutex, runner.go:2323, which a get holds through its dial,
  964-990, 1030-1037). Nothing is assumed of the server's routing, of the
  watcher's and workers' network calls or of the flusher: for those the
  supervisor has its own timeouts. That "a worker that's wedged in some other
  library call still can't hold the run alive forever" (runner.go:1369-1371) is
  kept to that extent only: a worker wedged in a download is waited for with a
  limit, but one that hangs in a redial holds the mutex that the teardown after
  it wants, and an upload that hangs is waited for without one.
* `FairSpec` of Scheduler: weak fairness of the sweeper between its dials
  (`SweepBetweenDials`, a ticker). `DueSettles` has the premises
  `SweepDialsReturn` and `RunsEnd`. Handlers may dial for ever. `MaxStarts`
  bounds manual starts; with an endless stream of them a due schedule may wait
  for ever, because the gate needs an idle server.
* `ListFairness`: weak fairness of each worker's own steps (`PollerStep`) and of
  the closing goroutine; strong fairness of a worker returning at its select,
  because a select with both cases ready takes each of them again and again.
  Nothing is assumed of the server (`ServerStep`: List, dials, transfers);
  `WorkersReturn` is about a worker that is in no dial and no transfer for ever
  (`CallsReturn`). That closing a connection returns, and ends the List on it, is
  assumed.
* `FairTunnel`: per tunnel, weak fairness of TCP giving up on a silent peer, the
  keep-alive noticing a failed ping on a lost session, Close's steps and the
  goroutines that end once their connection is closed, taken together: as long as
  one of them can run, one does. A bootstrap may take for ever. A peer whose
  kernel acknowledges while its sshd hangs is outside: TCP never gives up on it,
  and no request of the tunnel has a deadline.

`RuntimeFairness` is the last two, each where its component is the chosen one.

## 5. Proofs

`ReportStoreProofs` proves, for every set of files and readers and every
combination of options (`StoreAssumption`: `Files` finite, the options Boolean,
`MaxAttach` natural):

| Theorem | States |
|---|---|
| `StoreInvariant` | `Spec => []StoreInv` |
| `TypeCorrect` | `Spec => []TypeOK` |
| `NoRowLost` | `Spec => []ReleasedRowsOnDisk` |
| `LiveIndexed` | `Spec => []LiveRecordsIndexed` |
| `NoRowTwice` | `Spec => []OneRowPerFlusher` |
| `NoSilentBlank` | `Spec => []BackgroundRowsSettled` |
| `AppendOnly` | `Spec => SealedForGood` |
| `MatchesNeverUncounted` | `Spec => []MatchedRowsCounted` |
| `MissedAreOnDisk` | `Spec => []MissedRowsOnDisk` |

None of the properties is inductive alone. `StoreInv` adds what they rest on:

* `CommitWritten`: when a flusher is about to commit, every file of its batch
  has a row on disk. `ReleasedRowsOnDisk` needs it: the commit is where
  slots are released.
* `BatchUploaded`: a batch holds only files that have a record, live or
  released. An absent file must not be released.
* `SealFlushPhase`: the seal's flusher is in `FlushFinalized` only while the
  seal is `"stamped"`, so it flushes once.
* `RowAccounted`: a row on disk belongs to a record that is released, to a batch
  its flusher is about to commit, or to a stream that is no longer open. This is
  why a flusher never writes a row twice: it would have to select a record that
  is still live, and then the stream's sticky error stops it.
* `NoRowYet`: a flusher about to write has no row of its own for its batch, as
  long as the stream is open.
* `SnapSettled`: the copies the background flusher holds are settled, even if
  the record has changed since.

The proof has one lemma per action and, within it, a step per conjunct the
action can disturb.

The last two have invariants of their own. `MatchedRowsCounted` compares rows
with a counter while a match travels from the record to a flusher's copy and on
to the row: `MatchesCounted` counts the three as one set, so that only an attach
adds to it, and the attach counts before it lets go of the lock.
`MissedRowsOnDisk` needs `DueUploaded`: what a reader is due has a record.

`RunPipelineProofs` proves the run, for any files, download users, foreign files
and queue bound (`PipelineAssumption`; it asks `MaxAttach`, which bounds the
attaches of a store standing alone, to leave room for every download of every
worker, so that the bound removes no behaviour of a run):

| Theorem | States |
|---|---|
| `RunInvariant` | `RunSpec => []RunInv` |
| `RunKeepsContract` | `RunSpec => StoreContract`, the refinement of ReportStore |
| `AwaitedFound` | `RunSpec => []AwaitedRecordsLive` |
| `ReportComplete` | `RunSpec => []SealedReportComplete` |
| `CountedOnce` | `RunSpec => []SightingsCountedOnce` |

The refinement maps the store's variables to themselves, and what has to be shown
is that no goroutine of the run does to the store what the store does not offer.
It carries the theorems above over to whole runs, and `RunInv` starts from
`StoreInv`. What it adds:

* `RecordedUploads`, `UploadsJoined`, `SealLast`: a file has a record from the
  moment its upload was recorded; after the join no upload is on its way; the
  seal comes after that and the state is released last. Hence `SealTakesAll`:
  the seal's batch is all that is left in memory, and after its flush nothing is,
  unless the stream broke. That is what makes the report complete.
* `UploadsCounted`: the two upload counters add up to the finished uploads, and
  the metadata repeats them.
* `ExpectedUnsettled` and `WatchedOnce`: a file whose track-id may still be
  reported is pending, being sent or in the results channel, in one of these
  only, and its record is not settled. So the background flusher leaves it and
  the consumer finds it.
* `TodoUnseen`, `HashesCompleted`: a worker has not acted on a name it still has
  to look at, so no sighting is counted twice, and every comparison of hashes
  belongs to a completed download.

`SchedulerProofs` proves, for any schedules, handlers, run ids, periods and
bounds (`SchedulerAssumption`; `NoneAssumption`: a missing file is no schedule):

| Theorem | Assumes | States |
|---|---|---|
| `DueInvariant` | - | `Spec => []DueInv` |
| `NoReplay` | - | `Spec => NoMissedReplay` |
| `OneShotCancel` | `~Migrations` | `Spec => []OneShotCancelHolds` |
| `AtMostOnce` | `~Migrations`, deletes succeed | `Spec => NoCatchUpBurst` |
| `RegistryInvariant` | - | `Spec => [](RegistryInv /\ SweeperCall)` |
| `ActiveReachable` | - | `Spec => []ActiveRunsReachable` |
| `OverCapActiveOnly` | - | `Spec => OverCapOnlyActive` |

The assumptions of `OneShotCancel` and `AtMostOnce` are needed: `MCFireOnce` and
the hazard at schedule.go:385 show what happens without them. Crashes and
failing saves are allowed. For the schedules the argument is built in three
layers:

* `DueInv`: the entry being fired is due and not from before `startedAt`. It
  survives the minutes a start may dial because the sweep works on its snapshot
  of the directory and of the time.
* `CancelInv` adds `AsCreated`: the files and the snapshot keep the period that
  was asked for. So the settle that writes a file back belongs to a recurring
  schedule, and a cancelled one-shot stays away.
* `FireInv` adds `OccurrencesUnfired`: every time on disk or in the snapshot lies
  after the last firing, or before `startedAt`, or belongs to the entry that was
  fired and is not settled yet. A restart in that last case moves `startedAt`
  past it (`ListCurrent` says that file and snapshot agree on the time); a
  settle deletes it or advances it past the sweep, which is `NextRunAtLater`,
  from the arithmetic of the advance loop (`NextOccurrence`).

For the registry, `RegistryInv` says that no run is listed twice, that a run
between its start and its registration belongs to one caller and is not listed,
and that every active run is listed or in a caller's hands; `SweeperCall`, that
the sweeper holds a start only while it fires. `EvictKeeps` is what an eviction
does to such a list: every active run stays, and the list is still longer than
the cap only if nothing finished is left. It needs that ranks are places
(`RankOntoPlaces`), which follows without induction: an injection between finite
sets of one size is onto. That an over-long list holds active runs only then
follows from the least position of a finished one.

`RuntimeProofs` proves, for any movers, slots, spawns, machines, users, streams,
workers, samples, buckets and thresholds:

| Theorem | States |
|---|---|
| `TunnelInvariant` | `TunnelSpec => []TunnelInv` |
| `ClosedStopsWorker` | `TunnelSpec => []ClosedTunnelsStopTheirWorker` |
| `NoLeftoverServed` | `TunnelSpec => []LeftoversReaped` |
| `PoolInvariant` | `PoolSpec => []PoolInv` |
| `PoolLeaksNothing` | `PoolSpec => []NoConnectionLeaks` |
| `UploadPoolInRange` | `~Forced => (PoolSpec => []IndexInRange)` |
| `Tokens` | `ControlSpec => []TokensMatchUploads` |
| `MaxFailures` | `ControlSpec => []MaxFailuresMeansAll` |
| `ListInvariant` | `ListSpec => []ListInv` |
| `ListsInterrupted` | `ListSpec => []NoListLeftHanging` |
| `ListsTornDown` | `ListSpec => []NoListOutlivesDrain` |
| `LatencyInvariant` | `LatencySpec => []LatencyInv` |
| `PercentilesBracketed` | `LatencySpec => []PercentileBracketed` |
| `MaximumKept` | `LatencySpec => []MaxCovers` |

* Tunnels (`TunnelAssumption`: "no spawn" and "orphan" are no spawns, `Named`
  holds workers). `CloseAfterStart` orders the stages: a Close begins only after
  the start of the worker is over, one way or the other, and background tasks and
  the listing exist only from registration on. So a worker that Close's pkill
  found is signalled from then on, and none of that tunnel comes up again
  (`StoppedStaysStopped`). `ReapedStaysReaped` is the same for the leftover: no
  step starts one, so that past a pkill that ran the one that is left is
  signalled. Both except, by name, the pkill that did not run (`unreached`) and
  the name it does not match: for these nothing can be promised.
* Client pools (`PoolAssumption`: "no mover" is no mover). `OpenHeld`: a
  connection that is not closed is the one some slot holds; it stays so because
  a transfer that dials has the slot's mutex and the slot is empty
  (`DialsAlone`), so that a redial overwrites none. `QuietPool` is where the
  teardown of upload pools matters: it waits for its transfers, so no mover is
  active from `"closing"` on; `ClosedSlotsEmpty` follows closeAll.
  `UploadPoolInRange` needs that teardown (`~Forced`): the forced one of
  download pools violates `IndexInRange` (section 3).
* Run control (`ControlAssumption`). `Tokens` rests on `TokenInv`: only normal
  users hold tokens, and no user has more uploads in flight than were
  dispatched, so that the pairs that stand for the uploads stay within the
  counted range. A dispatch adds one pair and a landing removes one
  (`OneMoreHeld`, `OneFewerHeld`). `MaxFailuresMeansAll` is inductive as it
  stands: a disabled user stays disabled.
* List connections (`ListAssumption`: "no connection" is no connection). The
  safety half of `WorkersReturn`: once closeListClients has run, no worker waits
  in List on a connection that nobody will close (`NoListLeftHanging`), and a
  drain that was not forced leaves none open (`NoListOutlivesDrain`). `OwnList`
  says a worker's connection is the last one it dialled; `Closable`, that an
  open one past its registration is in the registry or already in the hands of
  the closing goroutine, also while workers reconnect; `CloserPhase` orders
  the collection and the closing.
* Latency (`LatencyAssumption`). `AddsInOrder`: a sample is in its bucket before
  it is counted, which is why the buckets hold at least as many as the count
  that a walk started from and the walk never runs past the last one
  (`BucketRange`). `WalkSound`: what a walk has seen are samples of the buckets
  behind it, among them all it started from. So the bucket where it stops is
  not below the percentile of the samples counted at its start and not above
  that of those binned at its end. A failed compare-and-swap of the maximum
  loads again, so the maximum covers every Add that returned.

`ClusterProofs` proves, for any number of workers and handlers, calls that are
refused, lost or time out, and requests of others (`ClusterAssumption`):

| Theorem | States |
|---|---|
| `ClusterInvariant` | `ClusterSpec => []ClusterInv` |
| `NothingStrays` | `ClusterSpec => []NoStrayRun` |

`ClusterInv` says that runs are numbered as they start (`RunsNumbered`), that
what the master or a request records of a worker is a run of that worker
(`RunsOwn`), that a worker with a late start is one in trouble (`LateTroubled`),
that a start holds no run of a worker it has not called (`StartsAhead`), and
that a stop is done with the workers it called unless the call failed
(`StopsBehind`). The last two are what makes handing the runs over, from a start
to the record or to a rollback and from the record to a stop, lose none.

`TrustStoreProofs` proves, for any hosts, keys, requests, failing saves, reboots
and key renewals (`TrustAssumption`):

| Theorem | States |
|---|---|
| `ConsentDurable` | `TrustSpec => []ConsentOnDisk` |
| `ConsentOpens` | `TrustSpec => ConsentAdmits` |
| `KnownInvariant` | `KnownSpec => []KnownInv` |
| `SoloProbes` | `KnownSpec => []SoloProbesKeepTrust` |

`ConsentOnDisk` is not inductive: a save for another host writes all of memory
and a reboot reads the whole file. `TrustInv` adds that memory agrees with every
consent (`ConsentInMemory`) and that whoever saves holds the mutex, with its
entry in memory and its consent withdrawn until the save went through
(`SaverHolds`).

The last two are about the file mode (`KnownHostsAssumption`), which takes no
lock, and hence about histories whose probes do not overlap. `FileAsRead`: one
probe at most is under way and what it has read is still what the file holds;
`OneEntryEach`: no host has two keys and what was approved is listed.

`RunArchiveProofs` proves, for any runs, rows, crashes and failing writes
(`ArchAssumption`; `NoMetaAssumption`: a missing file is no metadata and no CSV):

| Theorem | States |
|---|---|
| `RecoveryComplete` | `ArchSpec => []RecoveredOnBoot` |
| `HistoryImplemented` | `ArchSpec => HistoryKept`, the refinement of RunHistory |
| `ListingComplete` | `ArchSpec => []ListingMissesNoRun` |
| `DoctorInvariant` | `DoctorSpec => []DoctorInv` |
| `ThreadWhole` | `DoctorSpec => []PromptThreadWhole` |

`ArchInv` ties a run's files to its stage (`FilesFollowStage`: a CSV from the
start on, no metadata before the seal), keeps runs out of memory while the
process is down and metadata away from what recovery still has to read
(`RecoveryFormed`), and lets the recovery under way stand in for the entries it
has yet to write (`RecoveryCovers`). From it every step leaves the entries alone
or adds one where there was none (`EntriesStep`), which is the refinement; and
since entries only appear, what a listing did not find in the registry is on
disk when it looks there (`ListingCovers`).

The last two are about the run doctor, for any analyses, depth and number of
diagnoses (`DoctorAssumption`: "no diagnosis" is no number, the walk may take a
turn). `LogFormed`: lines are numbered as they are
appended, and a readable line names an older readable line as its parent or
none, because the parent was looked up before the line was written and lines
are never taken back. `Thread`: what an analysis has collected are readable
lines, oldest first, each the parent of the next, up to the one the client
named; lines others append, whole or cut short, change none of that
(`ThreadKept`). `WalkAt`: the walk goes on at the parent of its first turn and
ends at the root or at the depth limit. The chain is built by the steps of the
model and not by a recursive definition, so the induction over it is the
invariant's own.

`StoresProofs` proves, for any requests, clients, runs and files, with crashes
and failing writes where the models have them:

| Theorem | States |
|---|---|
| `SavesInvariant`, `SavesAtomic` | `AlertsSpec => []SavesInv`, `AlertsSpec => []SoloSavesAtomic` |
| `DispatchInvariant`, `AllChannels` | `AlertsSpec => []DispatchInv`, `AlertsSpec => []EveryChannelTried` |
| `SessionInvariant`, `DumpsKept` | `DumpSpec => []DumpInv`, `DumpSpec => []SavedDumpsKept` |
| `VaultInvariant`, `SecretsDurable`, `VaultFileWhole` | `VaultSpec => []VaultInv`, `[]StoredSecretsDurable`, `[]FileAlwaysWhole` |
| `MockInvariant`, `UploadsDelivered`, `ReadsEvict` | `MockSpec => []MockInv`, `[]AckedUploadsDelivered`, `[]EvictionBounded` |

* Alerts. Without overlapping saves there is one saver, the inode it writes is
  its own and the name it will rename leads there (`OneSaver`), and the file
  holds what was last settled (`FileSettled`). A dispatcher has tried the set
  channels it has gone past, each once (`TriedSoFar`).
* DumpSession. In a history without a crash or an overlapping auxiliary save,
  every file there is holds its own dump (`FilesMatch`), a save of a dump holds the
  read lock with metadata that names the whole session (`DumpSaves`), an
  auxiliary save writes alone and names as many dumps as it read (`AuxSaves`), and
  `meta.json.tmp` is that of the saves that will rename it (`TmpOwned`). The two
  exceptions are those the property names.
* Vault. Outside the two windows named by `hazard` one Vault is in use, and it
  has every secret kept (`UsedIsCurrent`); one request saves, that Vault as it
  is (`SaverAlone`); and the file is whole and holds every secret acknowledged and
  not deleted (`FileCurrent`).
* MockServer. An entry is an upload in its inbox or a finished copy of one
  (`EntriesFit`), an open writer is the only one of its upload (`WritersFit`), of
  two that meet on a key both are recorded as such (`WritersMeet`), what was
  promoted or downloaded no longer waits (`PromotedOnce`), and an upload
  that was acknowledged waits complete until it is fetched (`Delivered`).

The constants' assumptions of these modules (`AlertsAssumption`,
`DumpAssumption`, `VaultAssumption`, `MockAssumption`) say that bounds are
naturals, that fault sets name faults the model has, and that a placeholder
("no file", "missing", "nothing", the receiver) is not one of the data.

Only model-checked: the liveness properties `StoppedRunSeals`, `DueSettles`,
`WorkersReturn` and `LostSessionsClosed`, since fairness is beyond the proof
system used here. Every other property of a passing run is stated by a theorem.
`EvictionBounded`, `NoListLeftHanging`, `NoListOutlivesDrain`, `MaxCovers` and
`TypeOK` of ReportStore are the other way round: proved, and not in a run.

## 6. Not modelled

* The stream of a run whose seal was abandoned is never closed; nothing else
  is done with it.
* A line of `known_hosts` that an append cuts short: the file then does not parse
  and every later dial is refused. Writes that fail are modelled for the
  rewrite of the file, not for the append.
* CSV formatting, the recent tail, latency and speed annotations; the widths of
  the histogram's buckets, the interpolation inside one and the mean; ramp and
  pacing of the dispatchers; the host sampler.
* The clients' wire protocols, the bastion's session; in the mock servers FTP's
  RNTO and SIZE, TLS, and the passive listeners (one that is never connected to
  outlives its session).
* The bytes of files and hashes (a comparison has one of three outcomes);
  cryptography; the prompt and HTTP formats of the run doctor; the merged
  percentiles of the cluster archive.
* File sources, sinks and generator, configuration, quirks and analysis: pure
  functions of their input. Request guards, host and process probes.
* The order of dump files on disk: from a hundred on, `dump-100` sorts before
  `dump-11` (threaddump-analyzer, persist.go:133); no instance is that large.
* The desktop shell, the browser UI, parsers and advisory text;
  `http-cmd-runner`, which keeps no state; `sftp-admin`, an early phase whose
  atomicity is SQLite's.

## 7. Plan

1. Proofs: the type invariants of the modules whose proofs only carry the part
   they need.
2. Pure operators against reference definitions: the widths of the
   latency buckets, `splitConfig`, the source resolver's fallback order, the deadlock
   search of the thread-dump analyzer, the capped output buffer.
