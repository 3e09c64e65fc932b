---------------------------- MODULE RunPipeline ----------------------------
(***************************************************************************)
(* One load-test run, from the first dispatched upload to the sealed       *)
(* report (internal/runner, internal/trackid, on top of internal/report).  *)
(* Its goroutines:                                                         *)
(*                                                                         *)
(*   - one uploadOne per file: transfer, AddUpload, then Metrics.Record    *)
(*     and Watcher.Register;                                               *)
(*   - the track-id Watcher, which polls the upload folder for the name    *)
(*     the server gives a processed file, and consumeTrackIDs, connected   *)
(*     by a bounded channel with non-blocking sends;                       *)
(*   - one downloadWorker per download user, polling its own outbox;       *)
(*   - streamFlusher;                                                      *)
(*   - the supervisor started at the end of StartWithPersistAndTLS, which  *)
(*     waits for the dispatchers and uploads, drains the watcher, cancels  *)
(*     everything, joins the download workers up to a hard cap, tears the  *)
(*     pools down, seals the report and writes the run's metadata.         *)
(*                                                                         *)
(* The server is the environment: it stores an upload, may rename it to    *)
(* "<name>#<id>" and routes it to the outboxes of its choice.              *)
(***************************************************************************)
EXTENDS ReportStore

CONSTANTS
  DownUsers,   \* cfg.DownloadUsers
  Foreign,     \* files left in the outboxes by earlier runs
  ResultsCap,  \* capacity of Watcher.results (512 in the code)
  MaxErrors    \* bound: failed List calls counted in one behaviour

ASSUME PipelineAssumption ==
  /\ IsFiniteSet(DownUsers) /\ IsFiniteSet(Foreign)
  /\ DownUsers # {} => DownloadPhase   \* workers exist only if cfg.Download # nil
  /\ ResultsCap \in Nat \ {0}
  /\ MaxErrors \in Nat
  (* The store's bound leaves room for every download the workers can      *)
  (* attach, so that it cuts no behaviour of a run.                        *)
  /\ Cardinality(DownUsers \X (Files \union Foreign)) <= MaxAttach

VARIABLES
  up,         \* where each uploadOne is
  server,     \* what the server did with each file
  outbox,     \* files each download user can list
  pending,    \* Watcher.pending
  overdue,    \* pending entries whose deadline has passed
  watch,      \* Watcher.tick in progress: its phase and the entries matched
  results,    \* Watcher.results
  consumer,   \* consumeTrackIDs: "running" or "exited"
  worker,     \* downloadWorker: phase, files of this listing, current file
  seen,       \* each worker's seen set
  flusher,    \* streamFlusher: "running" or "exited"
  sup,        \* the supervisor's position
  counts,     \* Metrics.totalFiles, FailedFiles, errCounts, download counters
  meta        \* the RunMeta counters written at seal

runVars == <<storeVars, up, server, outbox, pending, overdue, watch, results,
             consumer, worker, seen, flusher, sup, counts, meta>>
uploadVars == <<up, server, outbox>>
watchVars == <<pending, overdue, watch, results, consumer>>
downloadVars == <<worker, seen>>

IdleTick == [phase |-> "idle", match |-> {}, sending |-> {}]
IdlePoll == [phase |-> "idle", todo |-> {}, file |-> {}, outcome |-> "error"]

(* cancel() has been called on the run's outer context. *)
Cancelled == sup \in {"joining", "teardown", "sealing", "done"}
PoolsClosed == sup \in {"sealing", "done"}

(* A name the watcher finds in the listing: "<name>#<id>". *)
Matchable(f) == server[f] = "routed"

RunInit ==
  /\ Init
  /\ up = [f \in Files |-> "idle"]
  /\ server = [f \in Files |-> "absent"]
  /\ outbox = [u \in DownUsers |-> Foreign]
  /\ pending = {} /\ overdue = {}
  /\ watch = IdleTick
  /\ results = {}
  /\ consumer = "running"
  /\ worker = [u \in DownUsers |-> IdlePoll]
  /\ seen = [u \in DownUsers |-> {}]
  /\ flusher = "running"
  /\ sup = "dispatching"
  /\ counts = [total |-> 0, failed |-> 0, errs |-> 0, completed |-> 0,
               orphans |-> 0]
  /\ meta = [written |-> FALSE, total |-> 0, succeeded |-> 0, stalled |-> 0,
             verified |-> 0]
-----------------------------------------------------------------------------
(* Dispatchers and uploads.                                                *)

(* runNormal / runLargeFile start an upload goroutine (uploadsWG.Add). *)
Dispatch(f) ==
  /\ sup = "dispatching"
  /\ up[f] = "idle"
  /\ up' = [up EXCEPT ![f] = "sending"]
  /\ UNCHANGED <<storeVars, server, outbox, watchVars, downloadVars, flusher, sup,
                 counts, meta>>

(* c.Upload returns.  A failed transfer (or a pool, source or panic error) *)
(* may still have left a complete file behind, e.g. when only Close failed.*)
Transfer(f, outcome) ==
  /\ up[f] = "sending"
  /\ up' = [up EXCEPT ![f] = IF outcome = "ok" THEN "sent" ELSE "broken"]
  /\ server' = [server EXCEPT ![f] = IF outcome = "nothing" THEN "absent" ELSE "stored"]
  /\ UNCHANGED <<storeVars, outbox, watchVars, downloadVars, flusher, sup, counts, meta>>

(* The server processes a stored file: it renames it and moves a copy to   *)
(* the outboxes it routes to.                                              *)
ServerRoutes(f, dest) ==
  /\ server[f] = "stored"
  /\ server' = [server EXCEPT ![f] = "routed"]
  /\ outbox' = [u \in DownUsers |-> IF u \in dest THEN outbox[u] \union {f} ELSE outbox[u]]
  /\ UNCHANGED <<storeVars, up, watchVars, downloadVars, flusher, sup, counts, meta>>

\* Slip: a failed upload is handed to the watcher too
RecordUploadRegisters(f) ==
  /\ up[f] \in {"sent", "broken"}
  /\ AddUpload(f, IF up[f] = "sent" THEN "ok" ELSE "failed")
  /\ up' = [up EXCEPT ![f] = IF up[f] = "sent" THEN "recorded" ELSE "done"]
  /\ counts' = IF up[f] = "sent" THEN counts
               ELSE [counts EXCEPT !.failed = @ + 1, !.errs = @ + 1]
  /\ pending' = IF up[f] = "broken" THEN pending \union {f} ELSE pending
  /\ UNCHANGED <<server, outbox, overdue, watch, results, consumer, downloadVars,
                 flusher, sup, meta>>

(* uploadOne records the file; a failure also bumps the failure counters   *)
(* and ends the goroutine.                                                 *)
RecordUpload(f) ==
  /\ up[f] \in {"sent", "broken"}
  /\ AddUpload(f, IF up[f] = "sent" THEN "ok" ELSE "failed")
  /\ up' = [up EXCEPT ![f] = IF up[f] = "sent" THEN "recorded" ELSE "done"]
  /\ counts' = IF up[f] = "sent" THEN counts
               ELSE [counts EXCEPT !.failed = @ + 1, !.errs = @ + 1]
  /\ UNCHANGED <<server, outbox, watchVars, downloadVars, flusher, sup, meta>>

(* Metrics.Record, then Watcher.Register in track-id mode. *)
RegisterUpload(f) ==
  /\ up[f] = "recorded"
  /\ up' = [up EXCEPT ![f] = "done"]
  /\ counts' = [counts EXCEPT !.total = @ + 1]
  /\ pending' = IF FilenameMode THEN pending ELSE pending \union {f}
  /\ UNCHANGED <<storeVars, server, outbox, overdue, watch, results, consumer,
                 downloadVars, flusher, sup, meta>>
-----------------------------------------------------------------------------
(* Watcher and consumer.                                                   *)

DeadlinePasses(f) ==
  /\ f \in pending \ overdue
  /\ overdue' = overdue \union {f}
  /\ UNCHANGED <<storeVars, uploadVars, pending, watch, results, consumer,
                 downloadVars, flusher, sup, counts, meta>>

(* A non-blocking send of a batch: what does not fit is dropped. *)
Offer(batchOf, outcome) ==
  \E kept \in SUBSET batchOf :
    /\ Cardinality(results) + Cardinality(kept) <= ResultsCap
    /\ \/ kept = batchOf
       \/ Cardinality(results) + Cardinality(kept) = ResultsCap
    /\ results' = results \union {[file |-> f, outcome |-> outcome] : f \in kept}

(* tick, first half: under the mutex, overdue entries leave pending with a *)
(* timeout result, and the others are snapshotted for the listing.         *)
TickExpire ==
  /\ watch.phase = "idle"
  /\ pending # {}
  /\ watch' = [watch EXCEPT !.phase = "list", !.match = pending \ overdue]
  /\ pending' = pending \ overdue
  /\ overdue' = {}
  /\ Offer(pending \cap overdue, "timeout")
  /\ UNCHANGED <<storeVars, uploadVars, consumer, downloadVars, flusher, sup,
                 counts, meta>>

(* tick, second half: List the folder; a dial or List error skips it. *)
TickList(ok) ==
  /\ watch.phase = "list"
  /\ LET hit == IF ok THEN {f \in watch.match : Matchable(f)} ELSE {}
     IN watch' = [watch EXCEPT !.phase = IF hit = {} THEN "idle" ELSE "match",
                               !.match = hit]
  /\ UNCHANGED <<storeVars, uploadVars, pending, overdue, results, consumer,
                 downloadVars, flusher, sup, counts, meta>>

(* Each match leaves pending under the mutex and is sent after it. *)
TickResolve(f) ==
  /\ watch.phase = "match" /\ watch.sending = {}
  /\ f \in watch.match
  /\ pending' = pending \ {f}
  /\ overdue' = overdue \ {f}
  /\ watch' = [watch EXCEPT !.match = @ \ {f}, !.sending = {f}]
  /\ UNCHANGED <<storeVars, uploadVars, results, consumer, downloadVars, flusher,
                 sup, counts, meta>>

TickSend ==
  /\ watch.sending # {}
  /\ Offer(watch.sending, "id")
  /\ watch' = [watch EXCEPT !.sending = {},
                            !.phase = IF watch.match = {} THEN "idle" ELSE "match"]
  /\ UNCHANGED <<storeVars, uploadVars, pending, overdue, consumer, downloadVars,
                 flusher, sup, counts, meta>>

WatcherExit ==
  /\ Cancelled /\ watch.phase = "idle"
  /\ watch' = [watch EXCEPT !.phase = "exited"]
  /\ UNCHANGED <<storeVars, uploadVars, pending, overdue, results, consumer,
                 downloadVars, flusher, sup, counts, meta>>

(* consumeTrackIDs: select takes a result whenever one is ready, even      *)
(* after the context is done.                                              *)
ConsumeTrackID(r) ==
  /\ consumer = "running"
  /\ r \in results
  /\ results' = results \ {r}
  /\ AttachTrackID(r.file)
  /\ counts' = IF r.outcome = "timeout" THEN [counts EXCEPT !.errs = @ + 1] ELSE counts
  /\ UNCHANGED <<uploadVars, pending, overdue, watch, consumer, downloadVars,
                 flusher, sup, meta>>

ConsumerExit ==
  /\ Cancelled /\ consumer = "running"
  /\ consumer' = "exited"
  /\ UNCHANGED <<storeVars, uploadVars, pending, overdue, watch, results,
                 downloadVars, flusher, sup, counts, meta>>
-----------------------------------------------------------------------------
(* Download workers.                                                       *)

(* A tick lists the outbox and keeps the ready names not acted on yet. *)
PollOutbox(u) ==
  /\ worker[u].phase = "idle"
  /\ LET new == {f \in outbox[u] : f \notin seen[u]}
     IN /\ new # {}
        /\ worker' = [worker EXCEPT ![u].phase = "scan", ![u].todo = new]
  /\ UNCHANGED <<storeVars, uploadVars, watchVars, seen, flusher, sup, counts, meta>>

(* A failed dial or List: the tick counts an error and gives up. *)
PollFails(u) ==
  /\ worker[u].phase = "idle"
  /\ counts.errs < MaxErrors
  /\ counts' = [counts EXCEPT !.errs = @ + 1]
  /\ UNCHANGED <<storeVars, uploadVars, watchVars, downloadVars, flusher, sup, meta>>

NextPhase(todo) == IF todo = {} THEN "idle" ELSE "scan"

(* The ownership gate.  A name this run does not know is an orphan and is  *)
(* never looked at again; a known one is fetched.                          *)
CheckOwnership(u, f) ==
  /\ worker[u].phase = "scan"
  /\ f \in worker[u].todo
  /\ seen' = [seen EXCEPT ![u] = @ \union {f}]
  /\ LET rest == worker[u].todo \ {f}
     IN IF f \in index
          THEN /\ worker' = [worker EXCEPT ![u].phase = "fetch", ![u].todo = rest,
                                           ![u].file = {f}]
               /\ UNCHANGED counts
          ELSE /\ worker' = [worker EXCEPT ![u].phase = NextPhase(rest), ![u].todo = rest]
               /\ counts' = [counts EXCEPT !.orphans = @ + 1]
  /\ UNCHANGED <<storeVars, uploadVars, watchVars, flusher, sup, meta>>

(* pool.get, the sink and DrainTo: a closed pool can only fail. *)
Fetch(u, outcome) ==
  /\ worker[u].phase = "fetch"
  /\ PoolsClosed => outcome = "error"
  /\ worker' = [worker EXCEPT ![u].phase = "attach", ![u].outcome = outcome]
  /\ counts' = IF outcome = "error" THEN [counts EXCEPT !.errs = @ + 1] ELSE counts
  /\ UNCHANGED <<storeVars, uploadVars, watchVars, seen, flusher, sup, meta>>

\* Slip: an unattached download is counted as an orphan and as completed
AttachResultTwice(u) ==
  /\ worker[u].phase = "attach"
  /\ \E f \in worker[u].file :
       /\ AttachDownload(f, worker[u].outcome)
       /\ counts' = [counts EXCEPT !.completed = @ + 1,
                                   !.orphans = IF CanAttach(f) THEN @ ELSE @ + 1]
  /\ worker' = [worker EXCEPT ![u] = [IdlePoll EXCEPT !.phase = NextPhase(worker[u].todo),
                                                      !.todo = worker[u].todo]]
  /\ UNCHANGED <<uploadVars, watchVars, seen, flusher, sup, meta>>

(* The result goes back to the upload row: completed if the row was there, *)
(* orphan if it was sealed in the meantime.                                *)
AttachResult(u) ==
  /\ worker[u].phase = "attach"
  /\ \E f \in worker[u].file :
       /\ AttachDownload(f, worker[u].outcome)
       /\ counts' = IF CanAttach(f)
                      THEN [counts EXCEPT !.completed = @ + 1]
                      ELSE [counts EXCEPT !.orphans = @ + 1]
  /\ worker' = [worker EXCEPT ![u] = [IdlePoll EXCEPT !.phase = NextPhase(worker[u].todo),
                                                      !.todo = worker[u].todo]]
  /\ UNCHANGED <<uploadVars, watchVars, seen, flusher, sup, meta>>

(* Between ticks: ctx.Done, or the disable policy after failures. *)
WorkerExit(u) ==
  /\ worker[u].phase = "idle"
  /\ Cancelled \/ counts.errs > 0
  /\ worker' = [worker EXCEPT ![u].phase = "exited"]
  /\ UNCHANGED <<storeVars, uploadVars, watchVars, seen, flusher, sup, counts, meta>>
-----------------------------------------------------------------------------
(* streamFlusher.                                                          *)

StreamFlush ==
  /\ flusher = "running"
  /\ Flush("bg")
  /\ UNCHANGED <<uploadVars, watchVars, downloadVars, flusher, sup, counts, meta>>

FlusherExit ==
  /\ Cancelled /\ flusher = "running" /\ pc["bg"] = "idle"
  /\ flusher' = "exited"
  /\ UNCHANGED <<storeVars, uploadVars, watchVars, downloadVars, sup, counts, meta>>

Grace(f) ==
  /\ GraceExpires(f)
  /\ UNCHANGED <<uploadVars, watchVars, downloadVars, flusher, sup, counts, meta>>
-----------------------------------------------------------------------------
(* The supervisor.                                                         *)

Advance(from, to) == sup = from /\ sup' = to

(* Stop, the deadline or the sampler cancels dispatchCtx; wg.Wait returns. *)
StopDispatch ==
  /\ Advance("dispatching", "uploads")
  /\ UNCHANGED <<storeVars, uploadVars, watchVars, downloadVars, flusher, counts, meta>>

\* Slip: the dispatchers are joined but not the uploads they started
UploadsAbandoned ==
  /\ Advance("uploads", "drain")
  /\ UNCHANGED <<storeVars, uploadVars, watchVars, downloadVars, flusher, counts, meta>>

(* uploadsWG.Wait *)
UploadsFinished ==
  /\ \A f \in Files : up[f] \in {"idle", "done"}
  /\ Advance("uploads", "drain")
  /\ UNCHANGED <<storeVars, uploadVars, watchVars, downloadVars, flusher, counts, meta>>

(* The drain loop ends when nothing is pending, or at a deadline that lies *)
(* TrackIDTimeout + 5 s ahead, past every pending entry's own.             *)
DrainEnds ==
  /\ pending \subseteq overdue
  /\ Advance("drain", "joining")   \* last poll tick, cancel(), closeListClients
  /\ UNCHANGED <<storeVars, uploadVars, watchVars, downloadVars, flusher, counts, meta>>

(* downloadsWG.Wait returns ... *)
WorkersJoined ==
  /\ \A u \in DownUsers : worker[u].phase = "exited"
  /\ Advance("joining", "teardown")
  /\ UNCHANGED <<storeVars, uploadVars, watchVars, downloadVars, flusher, counts, meta>>

\* Slip: no hard cap on the join
JoinWaitsForever ==
  /\ sup = "joining" /\ FALSE
  /\ UNCHANGED runVars

(* ... or the hard cap of TrackIDTimeout + 30 s gives up on a worker that  *)
(* is stuck in a transfer, which does not watch the context.               *)
JoinTimesOut ==
  /\ \E u \in DownUsers : worker[u].phase # "exited"
  /\ Advance("joining", "teardown")
  /\ UNCHANGED <<storeVars, uploadVars, watchVars, downloadVars, flusher, counts, meta>>

Teardown ==
  /\ Advance("teardown", "sealing")
  /\ UNCHANGED <<storeVars, uploadVars, watchVars, downloadVars, flusher, counts, meta>>

SealStamp ==
  /\ sup = "sealing"
  /\ StampPendingDownloads
  /\ UNCHANGED <<uploadVars, watchVars, downloadVars, flusher, sup, counts, meta>>

SealFlush ==
  /\ sup = "sealing"
  /\ Flush("seal")
  /\ UNCHANGED <<uploadVars, watchVars, downloadVars, flusher, sup, counts, meta>>

SealClose ==
  /\ sup = "sealing"
  /\ CloseStream
  /\ UNCHANGED <<uploadVars, watchVars, downloadVars, flusher, sup, counts, meta>>

Least(a, b) == IF a < b THEN a ELSE b

(* The failure tally is every counted error, capped at the file total. *)
WriteMeta ==
  /\ sup = "sealing" /\ seal = "closed" /\ ~meta.written
  /\ LET failed == Least(counts.errs, counts.total)
     IN meta' = [written |-> TRUE, total |-> counts.total,
                 succeeded |-> counts.total - failed, stalled |-> stalled,
                 verified |-> verified]
  /\ UNCHANGED <<storeVars, uploadVars, watchVars, downloadVars, flusher, sup, counts>>

Finish ==
  /\ meta.written
  /\ ReleaseHeavyState
  /\ Advance("sealing", "done")
  /\ UNCHANGED <<uploadVars, watchVars, downloadVars, flusher, counts, meta>>

(* MkdirAll fails: no flush, no metadata, and the run is done. *)
FinishUnsealed ==
  /\ AbandonSeal
  /\ Advance("sealing", "done")
  /\ UNCHANGED <<uploadVars, watchVars, downloadVars, flusher, counts, meta>>
-----------------------------------------------------------------------------
UploadNext(f) ==
  \/ Dispatch(f)
  \/ \E o \in {"ok", "partial", "nothing"} : Transfer(f, o)
  \/ RecordUpload(f)
  \/ RegisterUpload(f)

WatcherNext ==
  \/ TickExpire
  \/ \E ok \in BOOLEAN : TickList(ok)
  \/ \E f \in Files : TickResolve(f)
  \/ TickSend
  \/ WatcherExit

ConsumerNext == ConsumerExit \/ \E r \in results : ConsumeTrackID(r)

WorkerNext(u) ==
  \/ PollOutbox(u)
  \/ \E f \in worker[u].todo : CheckOwnership(u, f)
  \/ AttachResult(u)
  \/ WorkerExit(u)

FetchNext(u) ==
  \E o \in (IF VerifyHashes THEN {"match", "mismatch", "error"} ELSE {"match", "error"}) :
    Fetch(u, o)

SupervisorStep ==
  \/ UploadsFinished \/ DrainEnds \/ WorkersJoined \/ JoinTimesOut
  \/ SealStamp \/ SealFlush \/ SealClose \/ WriteMeta \/ Finish \/ FinishUnsealed

SupervisorNext == SupervisorStep \/ Teardown

RunNext ==
  \/ \E f \in Files : UploadNext(f) \/ DeadlinePasses(f) \/ Grace(f)
  \/ \E f \in Files, dest \in SUBSET DownUsers : ServerRoutes(f, dest)
  \/ WatcherNext
  \/ ConsumerNext
  \/ \E u \in DownUsers : WorkerNext(u) \/ FetchNext(u) \/ PollFails(u)
  \/ StreamFlush
  \/ FlusherExit
  \/ StopDispatch
  \/ SupervisorNext

RunSpec == RunInit /\ [][RunNext]_runVars

(* Every goroutine is scheduled and every timer fires; dispatch ends at the*)
(* deadline.  Nothing is assumed of the server: not of its routing, of List*)
(* calls, of uploads and download transfers, nor of the teardown, which    *)
(* waits for a slot's mutex that a dial may hold.                          *)
Fairness ==
  /\ WF_runVars(StopDispatch)
  /\ \A f \in Files :
       /\ WF_runVars(RecordUpload(f) \/ RegisterUpload(f))
       /\ WF_runVars(DeadlinePasses(f))
  /\ WF_runVars(SupervisorStep)

FairRunSpec == RunSpec /\ Fairness
-----------------------------------------------------------------------------
InWatcher == pending \union watch.sending \union {r.file : r \in results}

(* While a track-id is awaited, on its way through the results channel, or *)
(* about to be sent, the record it belongs to is still in memory: the      *)
(* background flusher cannot take the row from under the watcher, so       *)
(* AttachTrackID finds it.                                                 *)
AwaitedRecordsLive ==
  seal = "running" => \A f \in InWatcher : Live(f) /\ rec[f].tid = "none"

(* When the run is over, its stream was closed and no write failed, every  *)
(* upload that was ever started has its row in the CSV, and the metadata   *)
(* counts each once: uploads are joined before the seal, whatever else is  *)
(* still running.                                                          *)
SealedReportComplete ==
  sup = "done" /\ stream = "closed" =>
    /\ \A f \in Files : up[f] = "idle" \/ csv[f] # <<>>
    /\ meta.total + counts.failed = Cardinality({f \in Files : up[f] # "idle"})

InFlight == {u \in DownUsers : worker[u].phase \in {"fetch", "attach"}}

(* A worker counts each name it acts on exactly once, as completed or as   *)
(* an orphan, whether the row is found, already sealed or another run's.   *)
SightingsCountedOnce ==
  counts.completed + counts.orphans + Cardinality(InFlight)
    = Cardinality({s \in DownUsers \X (Files \union Foreign) : s[2] \in seen[s[1]]})

(* The run uses the store the way ReportStore's specification allows, so   *)
(* what is proved of the store holds in every run.                         *)
StoreContract == Spec

(* No upload hangs for ever, which no deadline of the code sees to         *)
(* (uploadsWG.Wait), and the pools' teardown gets its mutexes.             *)
UploadsReturn == \A f \in Files : []<>(up[f] # "sending")
TeardownReturns == []<>(sup # "teardown")

(* A run that was stopped, and whose uploads and teardown return, gets to  *)
(* its end, even if every download worker and the watcher hang in the      *)
(* network for good: the drain and the join are bounded.                   *)
StoppedRunSeals ==
  UploadsReturn /\ TeardownReturns => ((sup # "dispatching") ~> (sup = "done"))
-----------------------------------------------------------------------------
(* What the comments on DownloadOrphans and on the ownership gate say: an  *)
(* orphan is a file this run did not upload, so a worker never passes      *)
(* judgement on one of the run's own files before it is recorded.          *)
OrphansAreForeign ==
  \A u \in DownUsers, f \in Files : f \in seen[u] => slot[f] # "absent"

(* What the comment in sealAllAndWriteMeta says: total minus the counted   *)
(* errors gives the successes.                                             *)
SucceededCountsSuccesses ==
  meta.written =>
    meta.succeeded + counts.failed = Cardinality({f \in Files : up[f] = "done"})

(* What the comment on StampPendingDownloads says: no row of a successful  *)
(* upload is written with its download columns silently empty.             *)
NoSilentRows ==
  \A f \in Files : \A i \in DOMAIN csv[f] : ~SilentlyBlank(csv[f][i].rec)
=============================================================================
