------------------------------ MODULE Cluster ------------------------------
(***************************************************************************)
(* The cluster coordinator (internal/cluster) with its HTTP handlers        *)
(* (internal/web/cluster_handlers.go) and the handlers of the workers it    *)
(* calls (web.go: /api/start, /api/stop, /api/status, /api/runs,            *)
(* /api/report.csv).                                                        *)
(*                                                                         *)
(* The coordinator's mutex covers its few fields; every call to a worker    *)
(* is made without it, may be refused or time out, and may take effect      *)
(* although the master saw an error.  Workers serve other operators too.    *)
(***************************************************************************)
EXTENDS Integers, FiniteSets, Sequences, FiniteSetsExt, SequencesExt

CONSTANTS
    NWorkers,       \* workers, contacted in the order of the request
    Handlers,       \* concurrent requests at the master
    MaxRuns,        \* bound: runs started on the workers
    MaxCalls,       \* bound: requests at the master
    MaxClock,       \* bound: the clock, in seconds
    MaxForeign,     \* bound: runs that other operators start on workers
    ClusterFaults,  \* which of "refuse", "timeout", "lost", "disk" happen
    NoRun           \* no run

Workers == 1..NWorkers
RunIds == 1..MaxRuns

ASSUME ClusterAssumption ==
    /\ NWorkers \in Nat \ {0}
    /\ MaxCalls \in Nat /\ MaxClock \in Nat /\ MaxForeign \in Nat /\ MaxRuns \in Nat
    /\ ClusterFaults \subseteq {"refuse", "timeout", "lost", "disk"}
    /\ NoRun \notin RunIds

VARIABLES
    coord,              \* Coordinator: active, clusterRunID, run per worker
    request,            \* per handler: its program counter and locals
    order,              \* per worker: Server.order
    active, stopping,   \* runs with doneCh open; those told to stop
    late,               \* per worker: starts the master gave up on
    archive,            \* per cluster run id: the contents of meta.json
    clock,
    calls, foreign,     \* counters of the bounds; runs of other operators
    trouble,            \* workers a call to which failed or was ambiguous
    overlapped          \* a request overwrote what another one recorded

clusterVars == <<coord, request, order, active, stopping, late, archive, clock,
                 calls, foreign, trouble, overlapped>>
workerVars == <<order, active, stopping, late, foreign>>
historyVars == <<trouble, overlapped>>

NoRuns == [w \in Workers |-> NoRun]
Members(runs) == {w \in Workers : runs[w] # NoRun}
Answered == [pc |-> "none", todo |-> {}, runs |-> NoRuns, failed |-> FALSE,
             id |-> 0, report |-> {}]

ClusterInit ==
    /\ coord = [active |-> FALSE, id |-> 0, runs |-> NoRuns]
    /\ request = [h \in Handlers |-> Answered]
    /\ order = [w \in Workers |-> <<>>]
    /\ active = {} /\ stopping = {}
    /\ late = [w \in Workers |-> 0]
    /\ archive = [t \in 0..MaxClock |-> {}]
    /\ clock = 0 /\ calls = 0
    /\ foreign = {}
    /\ trouble = {} /\ overlapped = FALSE

(***************************************************************************)
(* A worker's handlers.                                                     *)
(***************************************************************************)
ActiveOn(w) == Range(order[w]) \cap active
\* The identity the next run gets.
FreshRuns ==
    {r \in RunIds : r = 1 + Cardinality(UNION {Range(order[w]) : w \in Workers})}

\* startRun: the run is registered last, so it is the latest.
WorkerStarts(w, r) ==
    /\ r \in FreshRuns
    /\ order' = [order EXCEPT ![w] = Append(@, r)]
    /\ active' = active \cup {r}

\* /api/stop without ?run=: only when exactly one run is active.
WorkerStops(w) ==
    stopping' = IF Cardinality(ActiveOn(w)) = 1 THEN stopping \cup ActiveOn(w) ELSE stopping

\* latest(): what /api/status and /api/report.csv are about without ?run=.
Latest(w) == IF order[w] = <<>> THEN NoRun ELSE Last(order[w])

\* handleReportCSV picks by ?run=; the archive passes ?id=.
PickByRun(w, r) == IF r \in Range(order[w]) THEN r ELSE NoRun
PickForCsv(w, r) == Latest(w)

ForeignStart(w) ==
    /\ Cardinality(foreign) < MaxForeign
    /\ \E r \in FreshRuns : WorkerStarts(w, r) /\ foreign' = foreign \cup {r}
    /\ UNCHANGED <<coord, request, stopping, late, archive, clock, calls, historyVars>>

\* A start the master gave up on is still served: startRun works under
\* context.Background().
LateStart(w) ==
    /\ late[w] > 0
    /\ late' = [late EXCEPT ![w] = @ - 1]
    /\ \/ \E r \in FreshRuns : WorkerStarts(w, r)
       \/ UNCHANGED <<order, active>>
    /\ UNCHANGED <<coord, request, stopping, archive, clock, calls, foreign, historyVars>>

\* The run's deadline, or its teardown after a stop.
RunEnds(r) ==
    /\ r \in active
    /\ active' = active \ {r} /\ stopping' = stopping \ {r}
    /\ UNCHANGED <<coord, request, order, late, archive, clock, calls, foreign, historyVars>>

(***************************************************************************)
(* stopOne: the worker answers (409 and 404 are errors), or the call is     *)
(* lost before or after it took effect.                                     *)
(***************************************************************************)
StopAnswered(w) ==
    /\ Cardinality(ActiveOn(w)) = 1
    /\ WorkerStops(w) /\ UNCHANGED trouble

StopRefused(w) ==
    /\ Cardinality(ActiveOn(w)) # 1
    /\ UNCHANGED stopping
    /\ trouble' = IF ActiveOn(w) = {} THEN trouble ELSE trouble \cup {w}

StopLost(w) ==
    /\ "lost" \in ClusterFaults
    /\ WorkerStops(w) \/ UNCHANGED stopping
    /\ trouble' = trouble \cup {w}

(***************************************************************************)
(* Start.                                                                   *)
(***************************************************************************)
StartCheck(h) ==
    /\ request[h].pc = "none" /\ calls < MaxCalls /\ calls' = calls + 1
    /\ ~coord.active
    /\ \E ws \in SUBSET Workers \ {{}} :
          request' = [request EXCEPT ![h] = [Answered EXCEPT !.pc = "start", !.todo = ws]]
    /\ UNCHANGED <<coord, workerVars, archive, clock, historyVars>>

\* A rollback that forgets the worker started last.
RollBackShort(h, w) ==
    request' = [request EXCEPT ![h].pc = "rollback",
                               ![h].todo = {v \in Members(request[h].runs) : v + 1 < w}]

\* Workers already started are stopped, the one that failed is not.
RollBack(h, w) ==
    request' = [request EXCEPT ![h].pc = "rollback",
                               ![h].todo = Members(request[h].runs) \ {w}]

StartWorker(h) ==
    /\ request[h].pc = "start" /\ request[h].todo # {}
    /\ LET w == Min(request[h].todo) IN
          \/ /\ \E r \in FreshRuns :
                   /\ WorkerStarts(w, r)
                   /\ request' = [request EXCEPT ![h].runs[w] = r, ![h].todo = @ \ {w}]
             /\ UNCHANGED <<late, trouble>>
          \/ /\ "refuse" \in ClusterFaults
             /\ RollBack(h, w)
             /\ UNCHANGED <<order, active, late, trouble>>
          \/ /\ "timeout" \in ClusterFaults
             /\ RollBack(h, w)
             /\ late' = [late EXCEPT ![w] = @ + 1]
             /\ trouble' = trouble \cup {w}
             /\ UNCHANGED <<order, active>>
    /\ UNCHANGED <<coord, stopping, foreign, archive, clock, calls, overlapped>>

\* The rollback ignores what its calls return.
RollBackWorker(h) ==
    /\ request[h].pc = "rollback" /\ request[h].todo # {}
    /\ LET w == Min(request[h].todo) IN
          /\ StopAnswered(w) \/ StopRefused(w) \/ StopLost(w)
          /\ request' = [request EXCEPT ![h].todo = @ \ {w}]
    /\ UNCHANGED <<coord, order, active, late, foreign, archive, clock, calls, overlapped>>

StartFailed(h) ==
    /\ request[h].pc = "rollback" /\ request[h].todo = {}
    /\ request' = [request EXCEPT ![h] = Answered]
    /\ UNCHANGED <<coord, workerVars, archive, clock, calls, historyVars>>

\* active was tested before the workers were called, and is not again.
StartCommit(h) ==
    /\ request[h].pc = "start" /\ request[h].todo = {}
    /\ coord' = [active |-> TRUE, id |-> clock, runs |-> request[h].runs]
    /\ request' = [request EXCEPT ![h] = Answered]
    /\ overlapped' = (overlapped \/ coord.active)
    /\ UNCHANGED <<workerVars, archive, clock, calls, trouble>>

(***************************************************************************)
(* Stop, then ArchiveOnStop.                                                *)
(***************************************************************************)
StopCheck(h) ==
    /\ request[h].pc = "none" /\ calls < MaxCalls /\ calls' = calls + 1
    /\ request' = [request EXCEPT ![h] =
          IF coord.active
          THEN [Answered EXCEPT !.pc = "stop", !.runs = coord.runs, !.todo = Members(coord.runs)]
          ELSE [Answered EXCEPT !.pc = "read"]]
    /\ UNCHANGED <<coord, workerVars, archive, clock, historyVars>>

StopWorker(h) ==
    /\ request[h].pc = "stop" /\ request[h].todo # {}
    /\ LET w == Min(request[h].todo) IN
          \/ StopAnswered(w) /\ request' = [request EXCEPT ![h].todo = @ \ {w}]
          \/ /\ StopRefused(w) \/ StopLost(w)
             /\ request' = [request EXCEPT ![h].todo = @ \ {w}, ![h].failed = TRUE]
    /\ UNCHANGED <<coord, order, active, late, foreign, archive, clock, calls, overlapped>>

\* An error is answered with 502 before the archive is written.
StopCommit(h) ==
    /\ request[h].pc = "stop" /\ request[h].todo = {}
    /\ coord' = [coord EXCEPT !.active = FALSE]
    /\ request' = [request EXCEPT ![h] =
          IF request[h].failed THEN Answered ELSE [Answered EXCEPT !.pc = "read"]]
    /\ overlapped' = (overlapped \/ (coord.active /\ coord.runs # request[h].runs))
    /\ UNCHANGED <<workerVars, archive, clock, calls, trouble>>

ArchiveRead(h) ==
    /\ request[h].pc = "read"
    /\ request' = [request EXCEPT ![h] =
          IF Members(coord.runs) = {} THEN Answered
          ELSE [Answered EXCEPT !.pc = "archive", !.runs = coord.runs, !.id = coord.id,
                                !.todo = Members(coord.runs)]]
    /\ UNCHANGED <<coord, workerVars, archive, clock, calls, historyVars>>

\* fetchWorkerMeta by run id and fetchWorkerCSV; a call that fails leaves its
\* error in the entry.
ArchiveWorker(h) ==
    /\ request[h].pc = "archive" /\ request[h].todo # {}
    /\ LET w == Min(request[h].todo)
           r == request[h].runs[w]
       IN  \E meta \in {PickByRun(w, r)} \cup (IF "lost" \in ClusterFaults THEN {NoRun} ELSE {}),
              csv \in {PickForCsv(w, r)} \cup (IF "lost" \in ClusterFaults THEN {NoRun} ELSE {}) :
              request' = [request EXCEPT ![h].todo = @ \ {w},
                            ![h].report = @ \cup {[worker |-> w, run |-> r, meta |-> meta,
                                                   csv |-> csv]}]
    /\ UNCHANGED <<coord, workerVars, archive, clock, calls, historyVars>>

\* meta.json is replaced by a rename, under the id of the run.
ArchiveSeal(h) ==
    /\ request[h].pc = "archive" /\ request[h].todo = {}
    /\ \/ archive' = [archive EXCEPT ![request[h].id] = request[h].report]
       \/ "disk" \in ClusterFaults /\ UNCHANGED archive
    /\ request' = [request EXCEPT ![h] = Answered]
    /\ UNCHANGED <<coord, workerVars, clock, calls, historyVars>>

(***************************************************************************)
(* Status: the workers are polled without the mutex, each for its latest    *)
(* run, and the polled list replaces the recorded one.                      *)
(***************************************************************************)
StatusRead(h) ==
    /\ request[h].pc = "none" /\ calls < MaxCalls /\ calls' = calls + 1
    /\ coord.active
    /\ request' = [request EXCEPT ![h] = [Answered EXCEPT !.pc = "status", !.runs = coord.runs]]
    /\ UNCHANGED <<coord, workerVars, archive, clock, historyVars>>

StatusStore(h) ==
    /\ request[h].pc = "status"
    /\ coord' = [coord EXCEPT !.runs = request[h].runs]
    /\ request' = [request EXCEPT ![h] = Answered]
    /\ overlapped' = (overlapped \/ coord.runs # request[h].runs)
    /\ UNCHANGED <<workerVars, archive, clock, calls, trouble>>

Tick ==
    /\ clock < MaxClock /\ clock' = clock + 1
    /\ UNCHANGED <<coord, request, workerVars, archive, calls, historyVars>>

RequestStep(h) ==
    \/ StartWorker(h) \/ RollBackWorker(h) \/ StartFailed(h) \/ StartCommit(h)
    \/ StopWorker(h) \/ StopCommit(h)
    \/ ArchiveRead(h) \/ ArchiveWorker(h) \/ ArchiveSeal(h)
    \/ StatusStore(h)

ClusterNext ==
    \/ \E h \in Handlers :
          StartCheck(h) \/ StopCheck(h) \/ StatusRead(h) \/ RequestStep(h)
    \/ \E w \in Workers : ForeignStart(w) \/ LateStart(w)
    \/ \E r \in RunIds : RunEnds(r)
    \/ Tick

ClusterSpec == ClusterInit /\ [][ClusterNext]_clusterVars

-----------------------------------------------------------------------------
\* Somebody at the master is going to stop run r of worker w.
InHand(w, r) ==
    \/ coord.active /\ coord.runs[w] = r
    \/ \E h \in Handlers :
          /\ request[h].runs[w] = r
          /\ \/ request[h].pc = "start"
             \/ request[h].pc \in {"rollback", "stop"} /\ w \in request[h].todo

\* No run is left behind: a cluster run that nobody told to stop is recorded
\* or in the hands of a request, unless a call to its own worker failed or
\* requests of the master overlapped.  A worker that fails strands no other:
\* neither in the rollback of a start (cluster.go:161-168) nor in a stop
\* (cluster.go:232-249).
NoStrayRun ==
    overlapped \/ \A w \in Workers : w \notin trouble =>
        \A r \in ActiveOn(w) \ (stopping \cup foreign) : InHand(w, r)

\* "One cluster run per master at a time" (cluster.go:17): a start that
\* succeeds never replaces a run that is active.
OneClusterRun == [][coord.active /\ coord'.active => coord'.id = coord.id
                      /\ Members(coord'.runs) = Members(coord.runs)]_clusterVars

\* "so the cluster never enters a half-running state" (cluster.go:136-138):
\* with no request in progress and no run recorded, no cluster run is active
\* that was not told to stop.
NeverHalfRunning ==
    (~coord.active /\ \A h \in Handlers : request[h].pc = "none")
        => active \subseteq stopping \cup foreign

\* "FileMeta + FileCSV" are "one worker's contribution to a cluster run"
\* (archive.go:55-56): the archived CSV is of the run the entry names.
ArchivedCsvIsOwn ==
    \A t \in 0..MaxClock : \A e \in archive[t] : e.csv \in {e.run, NoRun}

\* "Archival ... runs even when Stop returned early" (cluster_handlers.go:125):
\* a request that stopped a run goes on to the archive.
StopArchives ==
    [][\A h \in Handlers : request[h].pc = "stop" /\ request'[h].pc # "stop"
          => request'[h].pc = "read"]_clusterVars

\* A cluster run is archived "after a cluster run ends" (archive.go:3): what is
\* sealed is not the run that is recorded as active.
ArchivesOnlyStopped ==
    [][\A t \in 0..MaxClock : archive'[t] # archive[t]
          => ~(coord.active /\ coord.id = t)]_clusterVars
=============================================================================
