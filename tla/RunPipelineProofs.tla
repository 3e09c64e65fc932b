------------------------ MODULE RunPipelineProofs --------------------------
(***************************************************************************)
(* What a run promises, proved for any set of files, download users and    *)
(* left-over files, any capacity of the results channel and either setting *)
(* of the run's options: the run uses the report store the way the store's *)
(* specification allows, an awaited track-id finds its record in memory,   *)
(* the sealed report is complete, and no download is counted twice.        *)
(***************************************************************************)
EXTENDS RunPipeline, ReportStoreProofs

Names == Files \union Foreign

PollState ==
  [phase : {"idle", "scan", "fetch", "attach", "exited"}, todo : SUBSET Names,
   file : SUBSET Files, outcome : {"match", "mismatch", "error"}]

Counters == [total : Nat, failed : Nat, errs : Nat, completed : Nat, orphans : Nat]

RunTypeOK ==
  /\ up \in [Files -> {"idle", "sending", "sent", "broken", "recorded", "done"}]
  /\ server \in [Files -> {"absent", "stored", "routed"}]
  /\ outbox \in [DownUsers -> SUBSET Names]
  /\ pending \in SUBSET Files /\ overdue \in SUBSET Files
  /\ watch \in [phase : {"idle", "list", "match", "exited"}, match : SUBSET Files,
                sending : SUBSET Files]
  /\ results \in SUBSET [file : Files, outcome : {"id", "timeout"}]
  /\ worker \in [DownUsers -> PollState]
  /\ seen \in [DownUsers -> SUBSET Names]
  /\ sup \in {"dispatching", "uploads", "drain", "joining", "teardown", "sealing", "done"}
  /\ counts \in Counters
  /\ meta.written \in BOOLEAN

(* A file has a record once its upload has been recorded, and not before.  *)
RecordedUploads ==
  \A f \in Files :
    slot[f] = "absent" <=> up[f] \in {"idle", "sending", "sent", "broken"}

(* Once the supervisor has joined the uploads, none is on its way.         *)
UploadsJoined ==
  sup \notin {"dispatching", "uploads"} => \A f \in Files : up[f] \in {"idle", "done"}

(* The report is sealed at the end of the run and the state released last. *)
SealLast ==
  /\ seal # "running" => sup \in {"sealing", "done"}
  /\ seal \in {"released", "abandoned"} <=> sup = "done"

(* The two upload counters tell the finished uploads, and the metadata     *)
(* repeats them, unless the seal was given up.                             *)
UploadsCounted ==
  /\ counts.total + counts.failed = Cardinality({f \in Files : up[f] = "done"})
  /\ meta.written => meta.total = counts.total /\ seal \in {"closed", "released"}
  /\ sup = "done" => meta.written \/ seal = "abandoned"

(* The files whose track-id may still be reported: handed to the watcher,  *)
(* or recorded and about to be.                                            *)
Expected ==
  {f \in Files : \/ f \in InWatcher
                 \/ up[f] = "recorded" /\ ~FilenameMode}

(* Their records are unsettled, so the background flusher leaves them in   *)
(* memory.                                                                 *)
ExpectedUnsettled ==
  \A f \in Expected :
    /\ slot[f] # "absent"
    /\ Live(f) => rec[f].up = "ok" /\ rec[f].tid = "none"
    /\ f \notin batch["bg"]
    /\ seal = "running" => Live(f)

(* The watcher knows finished uploads only, each in one place.             *)
WatchedOnce ==
  /\ \A f \in InWatcher : up[f] = "done" /\ ~FilenameMode
  /\ watch.match \subseteq pending
  /\ pending \cap watch.sending = {}
  /\ \A r \in results : r.file \notin pending \union watch.sending
  /\ \A r, s \in results : r.file = s.file => r = s

(* The seal's flush takes everything that is left.                         *)
SealTakesAll ==
  /\ pc["seal"] # "idle" => \A f \in Files : Live(f) => f \in batch["seal"]
  /\ seal \in {"flushed", "closed", "released"} /\ stream # "broken" =>
       \A f \in Files : ~Live(f)
  /\ stream = "closed" => seal \in {"closed", "released"}

(* A worker has not acted on the names it still has to look at, and every  *)
(* hash comparison belongs to a completed download.                        *)
TodoUnseen == \A u \in DownUsers : worker[u].todo \cap seen[u] = {}

HashesCompleted == verified + mismatch <= counts.completed

RunInv ==
  /\ StoreInv
  /\ RunTypeOK
  /\ RecordedUploads /\ UploadsJoined /\ SealLast /\ UploadsCounted
  /\ ExpectedUnsettled /\ WatchedOnce
  /\ SealTakesAll
  /\ TodoUnseen /\ HashesCompleted /\ SightingsCountedOnce
-----------------------------------------------------------------------------
(* Adding an element to a finite set, or taking one away, counts one.      *)
LEMMA CountOne ==
  ASSUME NEW S, IsFiniteSet(S), NEW x
  PROVE  /\ Cardinality(S) \in Nat
         /\ x \notin S => Cardinality(S \union {x}) = Cardinality(S) + 1
         /\ x \in S => Cardinality(S) = Cardinality(S \ {x}) + 1
         /\ x \in S => Cardinality(S) > 0
         /\ IsFiniteSet(S \ {x}) /\ Cardinality(S \ {x}) \in Nat
<1>1. Cardinality(S) \in Nat
  BY FS_CardinalityType
<1>2. IsFiniteSet(S \ {x}) /\ Cardinality(S \ {x}) =
        IF x \in S THEN Cardinality(S) - 1 ELSE Cardinality(S)
  BY FS_RemoveElement
<1>3. Cardinality(S \ {x}) \in Nat
  BY <1>2, FS_CardinalityType
<1>4. Cardinality(S \union {x}) = IF x \in S THEN Cardinality(S) ELSE Cardinality(S) + 1
  BY FS_AddElement
<1> QED
  BY <1>1, <1>2, <1>3, <1>4

(* The files, the users and what a worker can see are finitely many.       *)
LEMMA RunFinite ==
  /\ IsFiniteSet(Files) /\ IsFiniteSet(DownUsers)
  /\ IsFiniteSet(DownUsers \X Names)
<1>1. IsFiniteSet(Names)
  BY FS_Union, StoreAssumption, PipelineAssumption DEF Names
<1> QED
  BY <1>1, FS_Product, StoreAssumption, PipelineAssumption

Sightings == {s \in DownUsers \X Names : s[2] \in seen[s[1]]}

(* The two sides of SightingsCountedOnce are numbers.                      *)
LEMMA SightingsFinite ==
  /\ IsFiniteSet(InFlight) /\ IsFiniteSet(Sightings)
  /\ Cardinality(InFlight) \in Nat /\ Cardinality(Sightings) \in Nat
  /\ Cardinality(Sightings) <= Cardinality(DownUsers \X Names)
<1>1. InFlight \in SUBSET DownUsers /\ Sightings \in SUBSET (DownUsers \X Names)
  BY DEF InFlight, Sightings
<1> QED
  BY <1>1, RunFinite, FS_Subset, FS_CardinalityType

(* A new run satisfies the invariant.                                      *)
LEMMA RunInitInv == RunInit => RunInv
<1> SUFFICES ASSUME RunInit PROVE RunInv
  OBVIOUS
<1>1. StoreInv
  BY InitInv DEF RunInit
<1>2. RunTypeOK
  BY DEF RunInit, RunTypeOK, PollState, Counters, Names, IdleTick, IdlePoll
<1>3. RecordedUploads /\ UploadsJoined /\ SealLast
  BY DEF RunInit, Init, RecordedUploads, UploadsJoined, SealLast
<1>4. UploadsCounted
  <2>1. {f \in Files : up[f] = "done"} = {}
    BY DEF RunInit
  <2>2. counts.total = 0 /\ counts.failed = 0 /\ ~meta.written /\ sup # "done"
    BY DEF RunInit
  <2> QED
    BY <2>1, <2>2, FS_EmptySet DEF UploadsCounted
<1>5. InWatcher = {} /\ Expected = {}
  BY DEF RunInit, InWatcher, IdleTick, Expected
<1>6. ExpectedUnsettled /\ WatchedOnce
  BY <1>5 DEF ExpectedUnsettled, WatchedOnce, RunInit, IdleTick
<1>7. SealTakesAll
  BY DEF SealTakesAll, RunInit, Init, Live, Flushers
<1>8. TodoUnseen /\ HashesCompleted
  BY DEF TodoUnseen, HashesCompleted, RunInit, Init, IdlePoll
<1>9. SightingsCountedOnce
  <2>1. InFlight = {}
    BY DEF InFlight, RunInit, IdlePoll
  <2>2. {s \in DownUsers \X (Files \union Foreign) : s[2] \in seen[s[1]]} = {}
    BY DEF RunInit
  <2>3. counts.completed = 0 /\ counts.orphans = 0
    BY DEF RunInit
  <2> QED
    BY <2>1, <2>2, <2>3, FS_EmptySet DEF SightingsCountedOnce
<1> QED
  BY <1>1, <1>2, <1>3, <1>4, <1>6, <1>7, <1>8, <1>9 DEF RunInv
-----------------------------------------------------------------------------
(* The consumer settles the track-id of a recorded, successful upload, and *)
(* settles it once.                                                        *)
LEMMA ConsumeIsSettle ==
  ASSUME RunInv, NEW r \in results, ConsumeTrackID(r)
  PROVE  r.file \in Files /\ SettleTrackID(r.file)
<1>1. r.file \in Files
  BY DEF RunInv, RunTypeOK
<1>2. r.file \in InWatcher
  BY DEF InWatcher
<1>3. r.file \in Expected
  BY <1>1, <1>2 DEF Expected
<1> QED
  BY <1>1, <1>2, <1>3
  DEF RunInv, WatchedOnce, ExpectedUnsettled, Live, ConsumeTrackID, SettleTrackID

(* A worker's attach stays within the store's bound on comparisons: it has *)
(* a sighting of its own that is not counted yet.                          *)
LEMMA AttachIsSettle ==
  ASSUME RunInv, NEW u \in DownUsers, AttachResult(u)
  PROVE  \E f \in Files, o \in {"match", "mismatch", "error"} : SettleDownload(f, o)
<1>1. PICK f \in worker[u].file : AttachDownload(f, worker[u].outcome)
  BY DEF AttachResult
<1>2. f \in Files /\ worker[u].outcome \in {"match", "mismatch", "error"}
  BY DEF RunInv, RunTypeOK, PollState
<1>3. DownloadPhase
  BY PipelineAssumption
<1>4. verified + mismatch < MaxAttach
  <2>1. u \in InFlight
    BY DEF InFlight, AttachResult
  <2>2. Cardinality(InFlight) > 0
    BY <2>1, SightingsFinite, CountOne
  <2>3. counts.completed + counts.orphans + Cardinality(InFlight) = Cardinality(Sightings)
    BY DEF RunInv, SightingsCountedOnce, Sightings, Names
  <2>4. Cardinality(DownUsers \X Names) <= MaxAttach
    BY PipelineAssumption DEF Names
  <2>5. counts.completed \in Nat /\ counts.orphans \in Nat
    BY DEF RunInv, RunTypeOK, Counters
  <2>6. Cardinality(DownUsers \X Names) \in Nat
    BY RunFinite, FS_CardinalityType
  <2>7. verified + mismatch <= counts.completed /\ verified \in Nat /\ mismatch \in Nat
    BY DEF RunInv, HashesCompleted, StoreInv, TypeOK
  <2> HIDE DEF InFlight, Sightings
  <2> QED
    BY <2>2, <2>3, <2>4, <2>5, <2>6, <2>7, SightingsFinite, StoreAssumption
<1> QED
  BY <1>1, <1>2, <1>3, <1>4 DEF SettleDownload

(* Every step of a run is a step of the store, or leaves it alone.         *)
LEMMA ContractStep ==
  ASSUME RunInv, [RunNext]_runVars
  PROVE  [Next]_storeVars
<1>1. ASSUME NEW f \in Files, UploadNext(f) \/ DeadlinePasses(f) \/ Grace(f)
      PROVE  [Next]_storeVars
  <2>1. CASE RecordUpload(f)
    BY <2>1 DEF RecordUpload, Next
  <2>2. CASE Grace(f)
    BY <2>2 DEF Grace, Next
  <2>3. CASE Dispatch(f) \/ RegisterUpload(f) \/ DeadlinePasses(f)
             \/ (\E o \in {"ok", "partial", "nothing"} : Transfer(f, o))
    BY <2>3 DEF Dispatch, RegisterUpload, DeadlinePasses, Transfer, storeVars
  <2> QED
    BY <1>1, <2>1, <2>2, <2>3 DEF UploadNext
<1>2. ASSUME NEW f \in Files, NEW dest \in SUBSET DownUsers, ServerRoutes(f, dest)
      PROVE  [Next]_storeVars
  BY <1>2 DEF ServerRoutes, storeVars
<1>3. CASE WatcherNext
  BY <1>3 DEF WatcherNext, TickExpire, TickList, TickResolve, TickSend, WatcherExit, storeVars
<1>4. CASE ConsumerNext
  <2>1. ASSUME NEW r \in results, ConsumeTrackID(r) PROVE [Next]_storeVars
    BY <2>1, ConsumeIsSettle DEF Next
  <2> QED
    BY <1>4, <2>1 DEF ConsumerNext, ConsumerExit, storeVars
<1>5. ASSUME NEW u \in DownUsers, WorkerNext(u) \/ FetchNext(u) \/ PollFails(u)
      PROVE  [Next]_storeVars
  <2>1. CASE AttachResult(u)
    BY <2>1, AttachIsSettle DEF Next
  <2>2. CASE ~AttachResult(u)
    BY <1>5, <2>2 DEF WorkerNext, FetchNext, PollFails, PollOutbox, CheckOwnership, Fetch,
       WorkerExit, storeVars
  <2> QED
    BY <2>1, <2>2
<1>6. CASE StreamFlush
  BY <1>6 DEF StreamFlush, Next, Flushers
<1>7. CASE FlusherExit \/ StopDispatch
  BY <1>7 DEF FlusherExit, StopDispatch, storeVars
<1>8. CASE SupervisorNext
  <2>1. CASE SealStamp \/ SealFlush \/ SealClose \/ Finish \/ FinishUnsealed
    BY <2>1 DEF SealStamp, SealFlush, SealClose, Finish, FinishUnsealed, Next, Flushers
  <2>2. CASE UploadsFinished \/ DrainEnds \/ WorkersJoined \/ JoinTimesOut \/ Teardown
             \/ WriteMeta
    BY <2>2 DEF UploadsFinished, DrainEnds, WorkersJoined, JoinTimesOut, Teardown,
       WriteMeta, storeVars
  <2> QED
    BY <1>8, <2>1, <2>2 DEF SupervisorNext, SupervisorStep
<1>9. CASE UNCHANGED runVars
  BY <1>9 DEF runVars, storeVars
<1> QED
  BY <1>1, <1>2, <1>3, <1>4, <1>5, <1>6, <1>7, <1>8, <1>9 DEF RunNext
-----------------------------------------------------------------------------
(* What each step of a worker does to its state and to the counters.       *)
WorkerMoves(u, p, c) == worker' = [worker EXCEPT ![u] = p] /\ counts' = c

(* Listing the outbox.                                                     *)
LEMMA PollEffect ==
  ASSUME RunTypeOK, NEW u \in DownUsers, PollOutbox(u)
  PROVE  \E new \in SUBSET Names :
           /\ new \cap seen[u] = {}
           /\ WorkerMoves(u, [worker[u] EXCEPT !.phase = "scan", !.todo = new], counts)
           /\ [worker[u] EXCEPT !.phase = "scan", !.todo = new] \in PollState
           /\ seen' = seen
<1> DEFINE new == {f \in outbox[u] : f \notin seen[u]}
<1>1. new \in SUBSET Names /\ new \cap seen[u] = {}
  BY DEF RunTypeOK
<1>2. worker[u] \in PollState
  BY DEF RunTypeOK
<1>3. [worker[u] EXCEPT !.phase = "scan", !.todo = new] \in PollState
  BY <1>1, <1>2 DEF PollState
<1>4. worker' = [worker EXCEPT ![u].phase = "scan", ![u].todo = new]
  BY DEF PollOutbox
<1> HIDE DEF new
<1>5. worker' = [worker EXCEPT ![u] = [worker[u] EXCEPT !.phase = "scan", !.todo = new]]
  BY <1>2, <1>4 DEF RunTypeOK
<1>6. counts' = counts /\ seen' = seen
  BY DEF PollOutbox
<1> QED
  BY <1>1, <1>3, <1>5, <1>6 DEF WorkerMoves

(* The ownership gate marks the name as seen, and either starts a fetch or *)
(* counts an orphan.                                                       *)
LEMMA OwnershipEffect ==
  ASSUME RunTypeOK, TypeOK, NEW u \in DownUsers, NEW f \in worker[u].todo,
         CheckOwnership(u, f)
  PROVE  \E p \in PollState :
           /\ p.todo = worker[u].todo \ {f}
           /\ worker[u].phase = "scan"
           /\ \/ p.phase = "fetch" /\ WorkerMoves(u, p, counts)
              \/ /\ p.phase \in {"idle", "scan"}
                 /\ WorkerMoves(u, p, [counts EXCEPT !.orphans = @ + 1])
           /\ f \in Names /\ seen' = [seen EXCEPT ![u] = @ \union {f}]
<1> DEFINE rest == worker[u].todo \ {f}
           p1 == [worker[u] EXCEPT !.phase = "fetch", !.todo = rest, !.file = {f}]
           p2 == [worker[u] EXCEPT !.phase = NextPhase(rest), !.todo = rest]
<1>1. worker[u] \in PollState /\ worker \in [DownUsers -> PollState]
  BY DEF RunTypeOK
<1>2. rest \in SUBSET Names /\ f \in Names
  BY <1>1 DEF PollState
<1>3. NextPhase(rest) \in {"idle", "scan"}
  BY DEF NextPhase
<1>4. worker[u].phase = "scan" /\ seen' = [seen EXCEPT ![u] = @ \union {f}]
  BY DEF CheckOwnership
<1>5. CASE f \in index
  <2>1. worker' = [worker EXCEPT ![u].phase = "fetch", ![u].todo = rest, ![u].file = {f}]
        /\ counts' = counts
    BY <1>5 DEF CheckOwnership
  <2>2. f \in Files
    BY <1>5 DEF TypeOK
  <2> HIDE DEF rest
  <2>3. p1 \in PollState /\ p1.phase = "fetch" /\ p1.todo = rest
    BY <1>1, <1>2, <2>2 DEF PollState
  <2>4. worker' = [worker EXCEPT ![u] = p1]
    BY <1>1, <2>1
  <2> QED
    BY <1>2, <1>4, <2>1, <2>3, <2>4 DEF WorkerMoves, rest
<1>6. CASE f \notin index
  <2>1. worker' = [worker EXCEPT ![u].phase = NextPhase(rest), ![u].todo = rest]
        /\ counts' = [counts EXCEPT !.orphans = @ + 1]
    BY <1>6 DEF CheckOwnership
  <2> HIDE DEF rest
  <2>3. p2 \in PollState /\ p2.phase \in {"idle", "scan"} /\ p2.todo = rest
    BY <1>1, <1>2, <1>3 DEF PollState
  <2>4. worker' = [worker EXCEPT ![u] = p2]
    BY <1>1, <2>1
  <2> QED
    BY <1>2, <1>4, <2>1, <2>3, <2>4 DEF WorkerMoves, rest
<1> QED
  BY <1>5, <1>6

(* A transfer stays with its file, and a failed one counts an error.       *)
LEMMA FetchEffect ==
  ASSUME RunTypeOK, NEW u \in DownUsers, FetchNext(u)
  PROVE  \E p \in PollState :
           /\ worker[u].phase = "fetch" /\ p.phase = "attach" /\ p.todo = worker[u].todo
           /\ \/ WorkerMoves(u, p, counts)
              \/ WorkerMoves(u, p, [counts EXCEPT !.errs = @ + 1])
           /\ seen' = seen
<1>1. PICK o \in {"match", "mismatch", "error"} : Fetch(u, o)
  BY DEF FetchNext
<1> DEFINE p == [worker[u] EXCEPT !.phase = "attach", !.outcome = o]
<1>2. worker[u] \in PollState /\ worker \in [DownUsers -> PollState]
  BY DEF RunTypeOK
<1>3. p \in PollState /\ p.phase = "attach" /\ p.todo = worker[u].todo
  BY <1>2 DEF PollState
<1>4. worker' = [worker EXCEPT ![u].phase = "attach", ![u].outcome = o]
  BY <1>1 DEF Fetch
<1>5. worker' = [worker EXCEPT ![u] = p]
  BY <1>2, <1>4
<1>6. worker[u].phase = "fetch" /\ seen' = seen
      /\ (counts' = counts \/ counts' = [counts EXCEPT !.errs = @ + 1])
  BY <1>1 DEF Fetch
<1> QED
  BY <1>3, <1>5, <1>6 DEF WorkerMoves

(* The attach counts the file as completed, if its row was there, or as an *)
(* orphan.                                                                 *)
LEMMA AttachEffect ==
  ASSUME RunTypeOK, NEW u \in DownUsers, AttachResult(u)
  PROVE  \E p \in PollState, f \in worker[u].file :
           /\ AttachDownload(f, worker[u].outcome)
           /\ worker[u].phase = "attach" /\ p.phase \in {"idle", "scan"}
           /\ p.todo = worker[u].todo
           /\ WorkerMoves(u, p, IF CanAttach(f) THEN [counts EXCEPT !.completed = @ + 1]
                                ELSE [counts EXCEPT !.orphans = @ + 1])
           /\ seen' = seen
<1> DEFINE p == [IdlePoll EXCEPT !.phase = NextPhase(worker[u].todo),
                                 !.todo = worker[u].todo]
<1>1. worker[u] \in PollState
  BY DEF RunTypeOK
<1>2. p \in PollState /\ p.phase \in {"idle", "scan"} /\ p.todo = worker[u].todo
  BY <1>1 DEF PollState, IdlePoll, NextPhase
<1>3. worker' = [worker EXCEPT ![u] = p] /\ worker[u].phase = "attach" /\ seen' = seen
  BY DEF AttachResult
<1>4. PICK f \in worker[u].file :
        /\ AttachDownload(f, worker[u].outcome)
        /\ counts' = IF CanAttach(f) THEN [counts EXCEPT !.completed = @ + 1]
                     ELSE [counts EXCEPT !.orphans = @ + 1]
  BY DEF AttachResult
<1> HIDE DEF p
<1> QED
  BY <1>2, <1>3, <1>4 DEF WorkerMoves

(* Bumping a counter leaves counters.                                      *)
LEMMA CountersBumped ==
  ASSUME NEW c \in Counters
  PROVE  /\ [c EXCEPT !.total = @ + 1] \in Counters
         /\ [c EXCEPT !.errs = @ + 1] \in Counters
         /\ [c EXCEPT !.completed = @ + 1] \in Counters
         /\ [c EXCEPT !.orphans = @ + 1] \in Counters
         /\ [c EXCEPT !.failed = @ + 1, !.errs = @ + 1] \in Counters
<1>1. [c EXCEPT !.total = @ + 1] \in Counters
  BY DEF Counters
<1>2. [c EXCEPT !.errs = @ + 1] \in Counters
  BY DEF Counters
<1>3. [c EXCEPT !.completed = @ + 1] \in Counters
  BY DEF Counters
<1>4. [c EXCEPT !.orphans = @ + 1] \in Counters
  BY DEF Counters
<1>5. [c EXCEPT !.failed = @ + 1, !.errs = @ + 1] \in Counters
  <2>1. ASSUME NEW m \in Nat, NEW n \in Nat
        PROVE  [c EXCEPT !.failed = m, !.errs = n] \in Counters
    BY DEF Counters
  <2>2. c.failed + 1 \in Nat /\ c.errs + 1 \in Nat
    BY DEF Counters
  <2> QED
    BY <2>1, <2>2
<1> QED
  BY <1>1, <1>2, <1>3, <1>4, <1>5

(* What gets into the results channel.                                     *)
LEMMA OfferEffect ==
  ASSUME NEW S, NEW o, Offer(S, o)
  PROVE  \E kept \in SUBSET S :
           results' = results \union {[file |-> f, outcome |-> o] : f \in kept}
  BY DEF Offer

(* Type correctness of the run's own variables.                            *)
LEMMA RunTypeStep ==
  ASSUME RunTypeOK, TypeOK, [RunNext]_runVars
  PROVE  RunTypeOK'
<1> USE DEF RunTypeOK, uploadVars, watchVars, downloadVars
<1>1. ASSUME NEW f \in Files, UploadNext(f) \/ DeadlinePasses(f) \/ Grace(f)
      PROVE  RunTypeOK'
  <2>1. CASE Dispatch(f)
    BY <2>1 DEF Dispatch
  <2>2. ASSUME NEW o \in {"ok", "partial", "nothing"}, Transfer(f, o) PROVE RunTypeOK'
    BY <2>2 DEF Transfer
  <2>3. CASE RecordUpload(f)
    BY <2>3, CountersBumped DEF RecordUpload
  <2>4. CASE RegisterUpload(f)
    BY <2>4, CountersBumped DEF RegisterUpload
  <2>5. CASE DeadlinePasses(f)
    BY <2>5 DEF DeadlinePasses
  <2>6. CASE Grace(f)
    BY <2>6 DEF Grace
  <2> QED
    BY <1>1, <2>1, <2>2, <2>3, <2>4, <2>5, <2>6 DEF UploadNext
<1>2. ASSUME NEW f \in Files, NEW dest \in SUBSET DownUsers, ServerRoutes(f, dest)
      PROVE  RunTypeOK'
  BY <1>2 DEF ServerRoutes, Names
<1>3. CASE WatcherNext
  <2>1. CASE TickExpire
    <3>1. results' \in SUBSET [file : Files, outcome : {"id", "timeout"}]
      BY <2>1, OfferEffect DEF TickExpire
    <3> QED
      BY <2>1, <3>1 DEF TickExpire
  <2>2. ASSUME NEW ok \in BOOLEAN, TickList(ok) PROVE RunTypeOK'
    BY <2>2 DEF TickList
  <2>3. ASSUME NEW f \in Files, TickResolve(f) PROVE RunTypeOK'
    BY <2>3 DEF TickResolve
  <2>4. CASE TickSend
    <3>1. results' \in SUBSET [file : Files, outcome : {"id", "timeout"}]
      BY <2>4, OfferEffect DEF TickSend
    <3> QED
      BY <2>4, <3>1 DEF TickSend
  <2>5. CASE WatcherExit
    BY <2>5 DEF WatcherExit
  <2> QED
    BY <1>3, <2>1, <2>2, <2>3, <2>4, <2>5 DEF WatcherNext
<1>4. CASE ConsumerNext
  BY <1>4, CountersBumped DEF ConsumerNext, ConsumerExit, ConsumeTrackID
<1>5. ASSUME NEW u \in DownUsers, WorkerNext(u) \/ FetchNext(u) \/ PollFails(u)
      PROVE  RunTypeOK'
  <2>1. UNCHANGED <<uploadVars, pending, overdue, watch, results, sup, meta>>
    BY <1>5 DEF WorkerNext, FetchNext, PollOutbox, PollFails, CheckOwnership, Fetch,
       AttachResult, WorkerExit
  <2>2. /\ worker' \in [DownUsers -> PollState] /\ counts' \in Counters
        /\ seen' \in [DownUsers -> SUBSET Names]
    <3> DEFINE Typed == /\ worker' \in [DownUsers -> PollState] /\ counts' \in Counters
                        /\ seen' \in [DownUsers -> SUBSET Names]
    <3>0. /\ worker \in [DownUsers -> PollState] /\ counts \in Counters
          /\ seen \in [DownUsers -> SUBSET Names]
      OBVIOUS
    <3>7. ASSUME NEW p \in PollState, NEW c \in Counters, WorkerMoves(u, p, c)
          PROVE  worker' \in [DownUsers -> PollState] /\ counts' \in Counters
      BY <3>0, <3>7 DEF WorkerMoves
    <3>1. CASE PollOutbox(u)
      BY <3>0, <3>1, <3>7, PollEffect
    <3>2. CASE PollFails(u)
      BY <3>2, CountersBumped DEF PollFails
    <3>3. ASSUME NEW f \in worker[u].todo, CheckOwnership(u, f)
          PROVE  Typed
      <4>1. PICK p \in PollState :
              /\ WorkerMoves(u, p, counts) \/ WorkerMoves(u, p, [counts EXCEPT !.orphans = @ + 1])
              /\ f \in Names /\ seen' = [seen EXCEPT ![u] = @ \union {f}]
        BY <3>3, OwnershipEffect
      <4>2. worker' \in [DownUsers -> PollState] /\ counts' \in Counters
        BY <3>0, <3>7, <4>1, CountersBumped
      <4> QED
        BY <3>0, <4>1, <4>2
    <3>4. CASE FetchNext(u)
      <4>1. PICK p \in PollState :
              /\ WorkerMoves(u, p, counts) \/ WorkerMoves(u, p, [counts EXCEPT !.errs = @ + 1])
              /\ seen' = seen
        BY <3>4, FetchEffect
      <4> QED
        BY <3>0, <3>7, <4>1, CountersBumped
    <3>5. CASE AttachResult(u)
      <4>1. PICK p \in PollState :
              /\ \/ WorkerMoves(u, p, [counts EXCEPT !.completed = @ + 1])
                 \/ WorkerMoves(u, p, [counts EXCEPT !.orphans = @ + 1])
              /\ seen' = seen
        BY <3>5, AttachEffect
      <4> QED
        BY <3>0, <3>7, <4>1, CountersBumped
    <3>6. CASE WorkerExit(u)
      BY <3>6 DEF WorkerExit, PollState
    <3> QED
      BY <1>5, <3>1, <3>2, <3>3, <3>4, <3>5, <3>6 DEF WorkerNext
  <2> QED
    BY <2>1, <2>2
<1>6. CASE StreamFlush \/ FlusherExit \/ StopDispatch
  BY <1>6 DEF StreamFlush, FlusherExit, StopDispatch, Advance
<1>7. CASE SupervisorNext
  <2>1. CASE SealStamp \/ SealFlush \/ SealClose
    BY <2>1 DEF SealStamp, SealFlush, SealClose
  <2>3. CASE WriteMeta
    BY <2>3 DEF WriteMeta
  <2>2. CASE UploadsFinished \/ DrainEnds \/ WorkersJoined \/ JoinTimesOut \/ Teardown
             \/ Finish \/ FinishUnsealed
    BY <2>2 DEF UploadsFinished, DrainEnds, WorkersJoined, JoinTimesOut, Teardown,
       Finish, FinishUnsealed, Advance
  <2> QED
    BY <1>7, <2>1, <2>2, <2>3 DEF SupervisorNext, SupervisorStep
<1>8. CASE UNCHANGED runVars
  BY <1>8 DEF runVars
<1> QED
  BY <1>1, <1>2, <1>3, <1>4, <1>5, <1>6, <1>7, <1>8 DEF RunNext
-----------------------------------------------------------------------------
(* What FlushFinalized does to the records: it takes a batch out of memory *)
(* and changes neither the upload nor the track-id of one that stays.      *)
LEMMA FlushEffect ==
  ASSUME StoreInv, NEW w \in Flushers, Flush(w)
  PROVE  /\ \A f \in Files : \/ slot'[f] = slot[f]
                             \/ slot[f] = "live" /\ slot'[f] = "nil" /\ f \in batch[w]
         /\ \A f \in Files : slot'[f] = "live" =>
              rec'[f].up = rec[f].up /\ rec'[f].tid = rec[f].tid
         /\ \/ seal' = seal
            \/ w = "seal" /\ seal = "stamped" /\ seal' = "flushed"
         /\ \A v \in Flushers : batch'[v] = batch[v] \/ (v = w /\ batch'[v] \subseteq Selected(w))
         /\ verified' = verified /\ mismatch' = mismatch
<1>1. TypeOK /\ SealFlushPhase
  BY DEF StoreInv
<1>2. CASE FlushCollect(w)
  <2>1. \A f \in Files : /\ Collected(w, f).up = rec[f].up
                         /\ Collected(w, f).tid = rec[f].tid
    BY <1>1 DEF Collected, Stamped, TypeOK, Record
  <2>2. \A f \in Files : rec'[f] = rec[f] \/ rec'[f] = Collected(w, f)
    BY <1>2 DEF FlushCollect
  <2>3. slot' = slot /\ verified' = verified /\ mismatch' = mismatch
        /\ batch' = [batch EXCEPT ![w] = Selected(w)]
    BY <1>2 DEF FlushCollect
  <2>4. seal' = seal \/ (w = "seal" /\ seal = "stamped" /\ seal' = "flushed")
    BY <1>2 DEF FlushCollect
  <2> HIDE DEF Selected, Collected
  <2> QED
    BY <1>1, <2>1, <2>2, <2>3, <2>4 DEF TypeOK
<1>3. CASE FlushWrite(w)
  BY <1>3 DEF FlushWrite, ledgerVars, sealVars
<1>4. CASE FlushWriteFails(w)
  <2>1. batch' = [batch EXCEPT ![w] = {}] /\ UNCHANGED ledgerVars
        /\ (seal' = seal \/ (w = "seal" /\ seal' = "flushed")) /\ pc[w] = "write"
    BY <1>4 DEF FlushWriteFails
  <2>2. w = "seal" => seal = "stamped"
    BY <1>1, <2>1 DEF SealFlushPhase
  <2> QED
    BY <1>1, <2>1, <2>2 DEF TypeOK, ledgerVars
<1>5. CASE FlushCommit(w)
  <2>1. /\ batch' = [batch EXCEPT ![w] = {}] /\ pc[w] = "commit"
        /\ (seal' = seal \/ (w = "seal" /\ seal' = "flushed"))
        /\ \A f \in Files : slot'[f] = IF f \in batch[w] /\ slot[f] = "live"
                                         THEN "nil" ELSE slot[f]
        /\ \A f \in Files : rec'[f] = IF f \in batch[w] /\ slot[f] = "live"
                                        THEN Blank ELSE rec[f]
        /\ verified' = verified /\ mismatch' = mismatch
    BY <1>5 DEF FlushCommit, Live
  <2>2. w = "seal" => seal = "stamped"
    BY <1>1, <2>1 DEF SealFlushPhase
  <2> QED
    BY <1>1, <2>1, <2>2 DEF TypeOK
<1> QED
  BY <1>2, <1>3, <1>4, <1>5 DEF Flush

UploadInv == RecordedUploads /\ UploadsJoined /\ SealLast /\ UploadsCounted

DoneUploads == {f \in Files : up[f] = "done"}

(* A step that leaves the uploads, their counters and the supervisor alone *)
(* and at most takes released records out of memory keeps the upload part. *)
LEMMA UploadFrame ==
  ASSUME UploadInv,
         up' = up, sup' = sup, seal' = seal, meta' = meta,
         counts'.total = counts.total, counts'.failed = counts.failed,
         \A f \in Files : slot'[f] = slot[f] \/ (slot[f] = "live" /\ slot'[f] = "nil")
  PROVE  UploadInv'
<1>1. RecordedUploads'
  BY DEF UploadInv, RecordedUploads
<1>2. UploadsJoined' /\ SealLast'
  BY DEF UploadInv, UploadsJoined, SealLast
<1>3. UploadsCounted'
  BY DEF UploadInv, UploadsCounted
<1> QED
  BY <1>1, <1>2, <1>3 DEF UploadInv

(* The upload part holds after every step of a run.                        *)
LEMMA UploadStep ==
  ASSUME RunInv, [RunNext]_runVars
  PROVE  UploadInv'
<1>0. StoreInv /\ TypeOK /\ RunTypeOK /\ UploadInv /\ counts \in Counters
  BY DEF RunInv, StoreInv, UploadInv, RunTypeOK
<1> USE DEF uploadVars, watchVars, downloadVars, sealVars
<1>c. /\ IsFiniteSet(DoneUploads) /\ Cardinality(DoneUploads) \in Nat
      /\ counts.total + counts.failed = Cardinality(DoneUploads)
      /\ counts.total \in Nat /\ counts.failed \in Nat
  <2>1. DoneUploads \in SUBSET Files
    BY DEF DoneUploads
  <2> QED
    BY <1>0, <2>1, FS_Subset, FS_CardinalityType, RunFinite
    DEF UploadInv, UploadsCounted, DoneUploads, Counters
<1>1. ASSUME NEW f \in Files, Dispatch(f) \/ \E o \in {"ok", "partial", "nothing"} : Transfer(f, o)
      PROVE  UploadInv'
  <2>1. /\ up[f] \in {"idle", "sending"} /\ up'[f] \in {"sending", "sent", "broken"}
        /\ up' = [up EXCEPT ![f] = up'[f]]
        /\ UNCHANGED <<slot, seal, sup, counts, meta>>
        /\ up[f] = "idle" => sup = "dispatching"
    BY <1>0, <1>1 DEF Dispatch, Transfer, storeVars, RunTypeOK
  <2>2. sup \in {"dispatching", "uploads"}
    BY <1>0, <2>1 DEF UploadInv, UploadsJoined
  <2>3. DoneUploads' = DoneUploads
    BY <1>0, <2>1 DEF DoneUploads, RunTypeOK
  <2>4. UploadsCounted'
    BY <1>0, <2>1, <2>3 DEF UploadInv, UploadsCounted, DoneUploads
  <2>5. RecordedUploads'
    BY <1>0, <2>1 DEF UploadInv, RecordedUploads, RunTypeOK
  <2> QED
    BY <1>0, <2>1, <2>2, <2>4, <2>5 DEF UploadInv, UploadsJoined, SealLast
<1>2. ASSUME NEW f \in Files, RecordUpload(f) PROVE UploadInv'
  <2>1. /\ up[f] \in {"sent", "broken"} /\ slot[f] = "absent"
        /\ up' = [up EXCEPT ![f] = IF up[f] = "sent" THEN "recorded" ELSE "done"]
        /\ slot' = [slot EXCEPT ![f] = "live"]
        /\ counts'.total = counts.total
        /\ counts'.failed = IF up[f] = "sent" THEN counts.failed ELSE counts.failed + 1
        /\ UNCHANGED <<seal, sup, meta>>
    BY <1>0, <1>2 DEF RecordUpload, AddUpload, Counters
  <2>2. sup \in {"dispatching", "uploads"} /\ ~meta.written
    BY <1>0, <2>1 DEF UploadInv, UploadsJoined, UploadsCounted, SealLast
  <2>3. f \notin DoneUploads
        /\ DoneUploads' = IF up[f] = "sent" THEN DoneUploads ELSE DoneUploads \union {f}
    BY <1>0, <2>1 DEF DoneUploads, RunTypeOK
  <2>4. counts'.total + counts'.failed = Cardinality(DoneUploads')
    BY <1>c, <2>1, <2>3, CountOne
  <2>5. UploadsCounted'
    BY <2>1, <2>2, <2>4 DEF UploadsCounted, DoneUploads
  <2>6. RecordedUploads'
    BY <1>0, <2>1 DEF UploadInv, RecordedUploads, RunTypeOK, TypeOK
  <2> QED
    BY <1>0, <2>1, <2>2, <2>5, <2>6 DEF UploadInv, UploadsJoined, SealLast
<1>3. ASSUME NEW f \in Files, RegisterUpload(f) PROVE UploadInv'
  <2>1. /\ up[f] = "recorded" /\ up' = [up EXCEPT ![f] = "done"]
        /\ counts'.total = counts.total + 1 /\ counts'.failed = counts.failed
        /\ UNCHANGED <<slot, seal, sup, meta>>
    BY <1>0, <1>3 DEF RegisterUpload, Counters, storeVars
  <2>2. sup \in {"dispatching", "uploads"} /\ ~meta.written
    BY <1>0, <2>1 DEF UploadInv, UploadsJoined, UploadsCounted, SealLast
  <2>3. f \notin DoneUploads /\ DoneUploads' = DoneUploads \union {f}
    BY <1>0, <2>1 DEF DoneUploads, RunTypeOK
  <2>4. counts'.total + counts'.failed = Cardinality(DoneUploads')
    BY <1>c, <2>1, <2>3, CountOne
  <2>5. UploadsCounted'
    BY <2>1, <2>2, <2>4 DEF UploadsCounted, DoneUploads
  <2>6. RecordedUploads'
    BY <1>0, <2>1 DEF UploadInv, RecordedUploads, RunTypeOK
  <2> QED
    BY <1>0, <2>1, <2>2, <2>5, <2>6 DEF UploadInv, UploadsJoined, SealLast
<1>4. ASSUME NEW f \in Files, DeadlinePasses(f) \/ Grace(f) PROVE UploadInv'
  BY <1>0, <1>4, UploadFrame DEF DeadlinePasses, Grace, GraceExpires, storeVars
<1>5. ASSUME NEW f \in Files, NEW dest \in SUBSET DownUsers, ServerRoutes(f, dest)
      PROVE  UploadInv'
  BY <1>0, <1>5, UploadFrame DEF ServerRoutes, storeVars
<1>6. CASE WatcherNext
  BY <1>0, <1>6, UploadFrame DEF WatcherNext, TickExpire, TickList, TickResolve, TickSend,
     WatcherExit, storeVars
<1>7. CASE ConsumerNext
  <2>1. /\ UNCHANGED <<up, sup, seal, meta, slot>>
        /\ counts'.total = counts.total /\ counts'.failed = counts.failed
    BY <1>0, <1>7 DEF ConsumerNext, ConsumerExit, ConsumeTrackID, AttachTrackID, storeVars,
       Counters
  <2> QED
    BY <1>0, <2>1, UploadFrame
<1>8. ASSUME NEW u \in DownUsers, WorkerNext(u) \/ FetchNext(u) \/ PollFails(u)
      PROVE  UploadInv'
  <2>1. UNCHANGED <<up, sup, seal, meta, slot>>
    BY <1>8 DEF WorkerNext, FetchNext, PollOutbox, PollFails, CheckOwnership, Fetch,
       AttachResult, AttachDownload, WorkerExit, storeVars
  <2>2. counts'.total = counts.total /\ counts'.failed = counts.failed
    BY <1>0, <1>8 DEF WorkerNext, FetchNext, PollOutbox, PollFails, CheckOwnership, Fetch,
       AttachResult, WorkerExit, Counters
  <2> QED
    BY <1>0, <2>1, <2>2, UploadFrame
<1>9. CASE StreamFlush \/ FlusherExit
  <2>1. CASE StreamFlush
    BY <1>0, <2>1, FlushEffect, UploadFrame DEF StreamFlush, Flushers
  <2>2. CASE FlusherExit
    BY <1>0, <2>2, UploadFrame DEF FlusherExit, storeVars
  <2> QED
    BY <1>9, <2>1, <2>2
<1>10. CASE StopDispatch \/ UploadsFinished \/ DrainEnds \/ WorkersJoined \/ JoinTimesOut
            \/ Teardown
  <2>1. /\ UNCHANGED <<up, seal, meta, slot, counts>>
        /\ sup' # "dispatching" /\ sup # "done" /\ sup' # "done" /\ sup # "sealing"
        /\ sup \in {"dispatching", "uploads"} /\ sup' # "uploads" =>
             \A f \in Files : up[f] \in {"idle", "done"}
    BY <1>10 DEF StopDispatch, UploadsFinished, DrainEnds, WorkersJoined, JoinTimesOut,
       Teardown, Advance, storeVars
  <2> QED
    BY <1>0, <2>1 DEF UploadInv, RecordedUploads, UploadsJoined, SealLast, UploadsCounted
<1>11. CASE SealStamp \/ SealFlush \/ SealClose \/ WriteMeta
  <2>1. CASE WriteMeta
    BY <1>0, <2>1 DEF WriteMeta, storeVars, UploadInv, RecordedUploads, UploadsJoined,
       SealLast, UploadsCounted
  <2>2. CASE SealFlush
    <3>1. /\ \A f \in Files : slot'[f] = slot[f] \/ (slot[f] = "live" /\ slot'[f] = "nil")
          /\ seal' = seal \/ (seal = "stamped" /\ seal' = "flushed")
      BY <1>0, <2>2, FlushEffect DEF SealFlush, Flushers
    <3>2. UNCHANGED <<up, sup, counts, meta>> /\ sup = "sealing"
      BY <2>2 DEF SealFlush
    <3> QED
      BY <1>0, <3>1, <3>2 DEF UploadInv, RecordedUploads, UploadsJoined, SealLast,
         UploadsCounted
  <2>3. CASE SealStamp \/ SealClose
    BY <1>0, <2>3 DEF SealStamp, SealClose, StampPendingDownloads, CloseStream, ledgerVars,
       UploadInv, RecordedUploads, UploadsJoined, SealLast, UploadsCounted
  <2> QED
    BY <1>11, <2>1, <2>2, <2>3
<1>12. CASE Finish \/ FinishUnsealed
  BY <1>0, <1>12 DEF Finish, FinishUnsealed, ReleaseHeavyState, AbandonSeal, Advance, UploadInv,
     RecordedUploads, UploadsJoined, SealLast, UploadsCounted
<1>13. CASE UNCHANGED runVars
  BY <1>0, <1>13, UploadFrame DEF runVars, storeVars
<1> QED
  BY <1>1, <1>2, <1>3, <1>4, <1>5, <1>6, <1>7, <1>8, <1>9, <1>10, <1>11, <1>12, <1>13
  DEF RunNext, UploadNext, SupervisorNext, SupervisorStep
-----------------------------------------------------------------------------
(* A stamp or a download leaves the upload and the track-id of a record.   *)
LEMMA RecordKeeps ==
  ASSUME NEW r \in Record, NEW o
  PROVE  /\ Stamped(r).up = r.up /\ Stamped(r).tid = r.tid
         /\ DownloadedAs(r, o).up = r.up /\ DownloadedAs(r, o).tid = r.tid
<1>1. Stamped(r).up = r.up /\ Stamped(r).tid = r.tid
  BY DEF Stamped, Record
<1>2. DownloadedAs(r, o).up = r.up
  BY DEF DownloadedAs, Record
<1>3. DownloadedAs(r, o).tid = r.tid
  BY DEF DownloadedAs, Record
<1> QED
  BY <1>1, <1>2, <1>3

(* A step that leaves the awaited records alone, or takes them out of the  *)
(* set of awaited ones, keeps them unsettled.                              *)
LEMMA ExpectedFrame ==
  ASSUME ExpectedUnsettled, Expected' \subseteq Expected,
         \A f \in Expected' :
           /\ slot'[f] # "absent" /\ f \notin batch'["bg"]
           /\ slot'[f] = "live" => /\ slot[f] = "live"
                                   /\ rec'[f].up = rec[f].up /\ rec'[f].tid = rec[f].tid
           /\ seal' = "running" => seal = "running" /\ slot'[f] = slot[f]
  PROVE  ExpectedUnsettled'
  BY DEF ExpectedUnsettled, Live

(* ... in particular one that does not touch the store.                    *)
LEMMA ExpectedKept ==
  ASSUME ExpectedUnsettled, Expected' \subseteq Expected,
         UNCHANGED <<slot, rec, batch, seal>>
  PROVE  ExpectedUnsettled'
  BY DEF ExpectedUnsettled, Live

(* The background flusher passes by every awaited record.                  *)
LEMMA FlushSparesExpected ==
  ASSUME StoreInv, ExpectedUnsettled, NEW w \in Flushers, Flush(w),
         UNCHANGED <<up, pending, watch, results>>,
         w = "seal" => seal # "running"
  PROVE  ExpectedUnsettled'
<1>1. Expected' = Expected
  BY DEF Expected, InWatcher
<1>2. \A f \in Expected : f \in Files
  BY DEF Expected
<1>3. \A f \in Expected : f \notin Selected("bg")
  BY DEF ExpectedUnsettled, Selected, IsRecordFinal
<1>4. \A f \in Expected : slot[f] # "absent" /\ f \notin batch["bg"]
  BY DEF ExpectedUnsettled
<1>5. /\ \A f \in Files : \/ slot'[f] = slot[f]
                          \/ slot[f] = "live" /\ slot'[f] = "nil" /\ f \in batch[w]
      /\ \A f \in Files : slot'[f] = "live" =>
           rec'[f].up = rec[f].up /\ rec'[f].tid = rec[f].tid
      /\ seal' = seal \/ (seal = "stamped" /\ seal' = "flushed")
      /\ \A v \in Flushers : batch'[v] = batch[v] \/ (v = w /\ batch'[v] \subseteq Selected(w))
  BY FlushEffect
<1>6. \A f \in Expected : f \notin batch'["bg"]
  BY <1>3, <1>4, <1>5 DEF Flushers
<1>7. \A f \in Expected : seal' = "running" => seal = "running" /\ slot'[f] = slot[f]
  BY <1>2, <1>4, <1>5 DEF Flushers
<1> QED
  BY <1>1, <1>2, <1>4, <1>5, <1>6, <1>7, ExpectedFrame

(* The watcher's own bookkeeping needs only its own variables.             *)
LEMMA WatchedFrame ==
  ASSUME WatchedOnce, UNCHANGED <<up, pending, watch, results>>
  PROVE  WatchedOnce'
  BY DEF WatchedOnce, InWatcher

(* A batch offered to the results channel: what the watcher gave up stays  *)
(* in one place, or is gone.                                               *)
LEMMA OfferOnce ==
  ASSUME RunTypeOK, WatchedOnce, NEW S \in SUBSET Files, NEW o \in {"id", "timeout"},
         Offer(S, o), S \subseteq InWatcher,
         \A r \in results : r.file \notin S,
         up' = up, pending' \subseteq pending \ S,
         watch'.sending \subseteq watch.sending \ S, watch'.match \subseteq pending'
  PROVE  WatchedOnce' /\ InWatcher' \subseteq InWatcher
<1>1. PICK kept \in SUBSET S :
        results' = results \union {[file |-> f, outcome |-> o] : f \in kept}
  BY OfferEffect
<1>2. \A r \in results' : r \in results \/ (r.file \in kept /\ r.outcome = o /\
                            r = [file |-> r.file, outcome |-> o])
  BY <1>1
<1>3. InWatcher' \subseteq InWatcher
  BY <1>2 DEF InWatcher
<1>4. \A f \in InWatcher' : up'[f] = "done" /\ ~FilenameMode
  BY <1>3 DEF WatchedOnce
<1>5. \A r \in results' : r.file \notin pending' \union watch'.sending
  BY <1>2 DEF WatchedOnce
<1>6. \A r, t \in results' : r.file = t.file => r = t
  BY <1>2 DEF WatchedOnce
<1>7. watch'.match \subseteq pending' /\ pending' \cap watch'.sending = {}
  BY DEF WatchedOnce
<1> QED
  BY <1>3, <1>4, <1>5, <1>6, <1>7 DEF WatchedOnce

(* The watcher part holds after every step of a run.                       *)
LEMMA WatchStep ==
  ASSUME RunInv, [RunNext]_runVars
  PROVE  ExpectedUnsettled' /\ WatchedOnce'
<1>0. /\ StoreInv /\ TypeOK /\ RunTypeOK /\ ExpectedUnsettled /\ WatchedOnce
      /\ RecordedUploads /\ UploadsJoined /\ SealLast /\ BatchUploaded /\ SealFlushPhase
  BY DEF RunInv, StoreInv
<1> USE DEF uploadVars, watchVars, downloadVars, sealVars
<1>e. InWatcher \subseteq Files
  BY <1>0 DEF InWatcher, RunTypeOK
<1>1. ASSUME NEW f \in Files, Dispatch(f) \/ \E o \in {"ok", "partial", "nothing"} : Transfer(f, o)
      PROVE  ExpectedUnsettled' /\ WatchedOnce'
  <2>1. /\ up[f] \in {"idle", "sending"} /\ up'[f] \in {"sending", "sent", "broken"}
        /\ up' = [up EXCEPT ![f] = up'[f]]
        /\ UNCHANGED <<slot, rec, batch, seal, pending, watch, results>>
    BY <1>0, <1>1 DEF Dispatch, Transfer, storeVars, RunTypeOK
  <2>2. f \notin InWatcher /\ InWatcher' = InWatcher
    BY <1>0, <2>1 DEF WatchedOnce, InWatcher
  <2>3. Expected' \subseteq Expected
    BY <1>0, <2>1, <2>2 DEF Expected, RunTypeOK
  <2>4. WatchedOnce'
    BY <1>0, <1>e, <2>1, <2>2 DEF WatchedOnce, RunTypeOK
  <2> QED
    BY <1>0, <2>1, <2>3, <2>4, ExpectedKept
<1>2. ASSUME NEW f \in Files, RecordUpload(f) PROVE ExpectedUnsettled' /\ WatchedOnce'
  <2>1. /\ up[f] \in {"sent", "broken"} /\ slot[f] = "absent"
        /\ up' = [up EXCEPT ![f] = IF up[f] = "sent" THEN "recorded" ELSE "done"]
        /\ slot' = [slot EXCEPT ![f] = "live"]
        /\ up[f] = "sent" /\ ~FilenameMode => rec' = [rec EXCEPT ![f] = Uploaded("ok", "none")]
        /\ \A g \in Files \ {f} : rec'[g] = rec[g]
        /\ UNCHANGED <<seal, batch, pending, watch, results>>
    BY <1>0, <1>2 DEF RecordUpload, AddUpload, TypeOK, flushVars
  <2>2. f \notin InWatcher /\ InWatcher' = InWatcher
    BY <1>0, <2>1 DEF WatchedOnce, InWatcher
  <2>3. WatchedOnce'
    BY <1>0, <1>e, <2>1, <2>2 DEF WatchedOnce, RunTypeOK
  <2>4. \A g \in Expected' : g \in Expected \/ (g = f /\ up[f] = "sent" /\ ~FilenameMode)
    BY <1>0, <2>1, <2>2 DEF Expected, RunTypeOK
  <2>5. f \notin batch["bg"]
    BY <1>0, <2>1 DEF BatchUploaded, Flushers
  <2>6. f \notin Expected
    BY <2>1, <2>2 DEF Expected
  <2>7. seal = seal' /\ \A g \in Expected : g \in Files \ {f}
    BY <2>1, <2>6 DEF Expected
  <2>8. ASSUME up[f] = "sent", ~FilenameMode
        PROVE  slot'[f] = "live" /\ rec'[f].up = "ok" /\ rec'[f].tid = "none"
    BY <1>0, <2>1, <2>8 DEF TypeOK, Uploaded
  <2> QED
    BY <1>0, <2>1, <2>3, <2>4, <2>5, <2>7, <2>8 DEF ExpectedUnsettled, Live, TypeOK
<1>3. ASSUME NEW f \in Files, RegisterUpload(f) PROVE ExpectedUnsettled' /\ WatchedOnce'
  <2>1. /\ up[f] = "recorded" /\ up' = [up EXCEPT ![f] = "done"]
        /\ pending' = IF FilenameMode THEN pending ELSE pending \union {f}
        /\ UNCHANGED <<slot, rec, batch, seal, watch, results>>
    BY <1>3 DEF RegisterUpload, storeVars
  <2>2. f \notin InWatcher
    BY <1>0, <2>1 DEF WatchedOnce
  <2>3. InWatcher' = IF FilenameMode THEN InWatcher ELSE InWatcher \union {f}
    BY <2>1 DEF InWatcher
  <2>4. Expected' \subseteq Expected
    BY <1>0, <2>1, <2>3 DEF Expected, RunTypeOK
  <2>5. \A g \in InWatcher' : up'[g] = "done" /\ ~FilenameMode
    BY <1>0, <1>e, <2>1, <2>3 DEF WatchedOnce, RunTypeOK
  <2>6. f \notin watch.sending /\ \A r \in results : r.file # f
    BY <2>2 DEF InWatcher
  <2>7. WatchedOnce'
    BY <1>0, <2>1, <2>5, <2>6 DEF WatchedOnce
  <2> QED
    BY <1>0, <2>1, <2>4, <2>7, ExpectedKept
<1>4. ASSUME UNCHANGED <<up, pending, watch, results>>
      PROVE  Expected' = Expected /\ WatchedOnce'
  BY <1>0, <1>4, WatchedFrame DEF Expected, InWatcher
<1>5. ASSUME UNCHANGED <<up, pending, watch, results, slot, rec, batch, seal>>
      PROVE  ExpectedUnsettled' /\ WatchedOnce'
  BY <1>0, <1>4, <1>5, ExpectedKept
<1>6. ASSUME NEW f \in Files, DeadlinePasses(f) \/ Grace(f)
      PROVE  ExpectedUnsettled' /\ WatchedOnce'
  BY <1>5, <1>6 DEF DeadlinePasses, Grace, GraceExpires, storeVars, flushVars
<1>7. ASSUME NEW f \in Files, NEW dest \in SUBSET DownUsers, ServerRoutes(f, dest)
      PROVE  ExpectedUnsettled' /\ WatchedOnce'
  BY <1>5, <1>7 DEF ServerRoutes, storeVars
<1>8. ASSUME InWatcher' \subseteq InWatcher, up' = up PROVE Expected' \subseteq Expected
  BY <1>8 DEF Expected
<1>9. CASE WatcherNext
  <2>0. UNCHANGED <<up, slot, rec, batch, seal>>
    BY <1>9 DEF WatcherNext, TickExpire, TickList, TickResolve, TickSend, WatcherExit, storeVars
  <2>1. CASE TickExpire
    <3>1. /\ watch'.match = pending \ overdue /\ watch'.sending = watch.sending
          /\ pending' = pending \ overdue /\ Offer(pending \cap overdue, "timeout")
      BY <1>0, <2>1 DEF TickExpire, RunTypeOK
    <3>2. /\ pending \cap overdue \in SUBSET Files /\ pending \cap overdue \subseteq InWatcher
          /\ \A r \in results : r.file \notin pending \cap overdue
          /\ watch'.sending \subseteq watch.sending \ (pending \cap overdue)
      BY <1>0, <3>1 DEF RunTypeOK, InWatcher, WatchedOnce
    <3>3. WatchedOnce' /\ InWatcher' \subseteq InWatcher
      BY <1>0, <2>0, <3>1, <3>2, OfferOnce
    <3> QED
      BY <1>0, <1>8, <2>0, <3>3, ExpectedKept
  <2>2. CASE WatcherExit \/ \E ok \in BOOLEAN : TickList(ok)
    <3>1. /\ watch'.match \subseteq watch.match /\ watch'.sending = watch.sending
          /\ UNCHANGED <<pending, results>>
      <4>1. CASE WatcherExit
        BY <1>0, <4>1 DEF WatcherExit, RunTypeOK
      <4>2. ASSUME NEW ok \in BOOLEAN, TickList(ok)
            PROVE  /\ watch'.match \subseteq watch.match /\ watch'.sending = watch.sending
                   /\ UNCHANGED <<pending, results>>
        BY <1>0, <4>2 DEF TickList, RunTypeOK
      <4> QED
        BY <2>2, <4>1, <4>2
    <3>2. InWatcher' = InWatcher
      BY <3>1 DEF InWatcher
    <3>3. WatchedOnce'
      BY <1>0, <2>0, <3>1, <3>2 DEF WatchedOnce
    <3> QED
      BY <1>0, <1>8, <2>0, <3>2, <3>3, ExpectedKept
  <2>3. ASSUME NEW f \in Files, TickResolve(f) PROVE ExpectedUnsettled' /\ WatchedOnce'
    <3>1. /\ watch.sending = {} /\ f \in watch.match
          /\ watch'.match = watch.match \ {f} /\ watch'.sending = {f}
          /\ pending' = pending \ {f} /\ results' = results
      BY <1>0, <2>3 DEF TickResolve, RunTypeOK
    <3>2. f \in pending
      BY <1>0, <3>1 DEF WatchedOnce
    <3>3. InWatcher' = InWatcher
      BY <3>1, <3>2 DEF InWatcher
    <3>4. \A r \in results : r.file # f
      BY <1>0, <3>2 DEF WatchedOnce
    <3>5. WatchedOnce'
      BY <1>0, <2>0, <3>1, <3>3, <3>4 DEF WatchedOnce
    <3> QED
      BY <1>0, <1>8, <2>0, <3>3, <3>5, ExpectedKept
  <2>4. CASE TickSend
    <3>1. /\ watch'.match = watch.match /\ watch'.sending = {}
          /\ pending' = pending /\ Offer(watch.sending, "id")
      BY <1>0, <2>4 DEF TickSend, RunTypeOK
    <3>2. /\ watch.sending \in SUBSET Files /\ watch.sending \subseteq InWatcher
          /\ \A r \in results : r.file \notin watch.sending
          /\ pending' \subseteq pending \ watch.sending
          /\ watch'.match \subseteq pending'
      BY <1>0, <3>1 DEF RunTypeOK, InWatcher, WatchedOnce
    <3>3. WatchedOnce' /\ InWatcher' \subseteq InWatcher
      BY <1>0, <2>0, <3>1, <3>2, OfferOnce
    <3> QED
      BY <1>0, <1>8, <2>0, <3>3, ExpectedKept
  <2> QED
    BY <1>9, <2>1, <2>2, <2>3, <2>4 DEF WatcherNext
<1>10. CASE ConsumerNext
  <2>1. CASE ConsumerExit
    BY <1>5, <2>1 DEF ConsumerExit, storeVars
  <2>2. ASSUME NEW r \in results, ConsumeTrackID(r) PROVE ExpectedUnsettled' /\ WatchedOnce'
    <3>1. /\ results' = results \ {r}
          /\ UNCHANGED <<up, pending, watch, slot, batch, seal>>
          /\ \A g \in Files \ {r.file} : rec'[g] = rec[g]
      BY <1>0, <2>2 DEF ConsumeTrackID, AttachTrackID, TypeOK, flushVars
    <3>2. InWatcher' \subseteq InWatcher /\ r.file \notin InWatcher'
      BY <1>0, <3>1 DEF InWatcher, WatchedOnce
    <3>3. up[r.file] = "done"
      BY <1>0 DEF WatchedOnce, InWatcher
    <3>4. WatchedOnce'
      BY <1>0, <3>1, <3>2 DEF WatchedOnce
    <3>5. Expected' \subseteq Expected /\ r.file \notin Expected'
      BY <3>1, <3>2, <3>3 DEF Expected
    <3>6. \A f \in Expected' : rec'[f] = rec[f]
      BY <3>1, <3>5 DEF Expected
    <3> QED
      BY <1>0, <3>1, <3>4, <3>5, <3>6 DEF ExpectedUnsettled, Live
  <2> QED
    BY <1>10, <2>1, <2>2 DEF ConsumerNext
<1>11. ASSUME NEW u \in DownUsers, WorkerNext(u) \/ FetchNext(u) \/ PollFails(u)
       PROVE  ExpectedUnsettled' /\ WatchedOnce'
  <2>1. CASE AttachResult(u)
    <3>1. PICK f : AttachDownload(f, worker[u].outcome)
      BY <2>1 DEF AttachResult
    <3>2. UNCHANGED <<up, pending, watch, results>>
      BY <2>1 DEF AttachResult
    <3>3. UNCHANGED <<slot, batch, seal>>
      BY <3>1 DEF AttachDownload, flushVars
    <3>4. \A g \in Files : rec'[g].up = rec[g].up /\ rec'[g].tid = rec[g].tid
      <4>1. \A g \in Files : rec[g] \in Record
        BY <1>0 DEF TypeOK
      <4>2. \A g \in Files : rec'[g] \in {rec[g], DownloadedAs(rec[g], worker[u].outcome)}
        BY <1>0, <3>1 DEF AttachDownload, TypeOK
      <4> QED
        BY <4>1, <4>2, RecordKeeps
    <3>5. \A g \in Expected : g \in Files
      BY DEF Expected
    <3>6. Expected' = Expected /\ WatchedOnce'
      BY <1>4, <3>2
    <3>7. ExpectedUnsettled'
      BY <1>0, <3>3, <3>4, <3>5, <3>6 DEF ExpectedUnsettled, Live
    <3> QED
      BY <3>6, <3>7
  <2>2. CASE ~AttachResult(u)
    BY <1>5, <1>11, <2>2 DEF WorkerNext, FetchNext, PollOutbox, PollFails, CheckOwnership,
       Fetch, WorkerExit, storeVars
  <2> QED
    BY <2>1, <2>2
<1>12. CASE StreamFlush
  BY <1>0, <1>4, <1>12, FlushSparesExpected DEF StreamFlush, Flushers
<1>13. CASE FlusherExit \/ StopDispatch \/ UploadsFinished \/ DrainEnds \/ WorkersJoined
            \/ JoinTimesOut \/ Teardown \/ WriteMeta
  BY <1>5, <1>13 DEF FlusherExit, StopDispatch, UploadsFinished, DrainEnds, WorkersJoined,
     JoinTimesOut, Teardown, WriteMeta, storeVars
<1>14. CASE SealFlush
  <2>1. seal # "running"
    BY <1>0, <1>14 DEF SealFlush, Flush, FlushCollect, FlushWrite, FlushWriteFails,
       FlushCommit, SealFlushPhase
  <2> QED
    BY <1>0, <1>4, <1>14, <2>1, FlushSparesExpected DEF SealFlush, Flushers
<1>15. CASE SealStamp
  <2>1. /\ UNCHANGED <<up, pending, watch, results, slot, batch>> /\ seal' = "stamped"
    BY <1>15 DEF SealStamp, StampPendingDownloads, flushVars
  <2>2. \A g \in Files : rec'[g] = rec[g] \/ rec'[g] = Stamped(rec[g])
    BY <1>15 DEF SealStamp, StampPendingDownloads
  <2>3. \A g \in Files : rec'[g].up = rec[g].up /\ rec'[g].tid = rec[g].tid
    BY <1>0, <2>2, RecordKeeps DEF TypeOK
  <2>4. Expected' = Expected /\ WatchedOnce' /\ \A g \in Expected : g \in Files
    BY <1>4, <2>1 DEF Expected
  <2>5. ExpectedUnsettled'
    BY <1>0, <2>1, <2>3, <2>4 DEF ExpectedUnsettled, Live
  <2> QED
    BY <2>4, <2>5
<1>16. CASE SealClose \/ Finish \/ FinishUnsealed
  <2>1. /\ UNCHANGED <<up, pending, watch, results, slot, rec, batch>> /\ seal' # "running"
    BY <1>16 DEF SealClose, Finish, FinishUnsealed, CloseStream, ReleaseHeavyState,
       AbandonSeal, ledgerVars, flushVars
  <2>2. Expected' = Expected /\ WatchedOnce'
    BY <1>4, <2>1
  <2>5. ExpectedUnsettled'
    BY <1>0, <2>1, <2>2 DEF ExpectedUnsettled, Live
  <2> QED
    BY <2>2, <2>5
<1>17. CASE UNCHANGED runVars
  BY <1>5, <1>17 DEF runVars, storeVars
<1> QED
  BY <1>1, <1>2, <1>3, <1>6, <1>7, <1>9, <1>10, <1>11, <1>12, <1>13, <1>14, <1>15, <1>16, <1>17
  DEF RunNext, UploadNext, SupervisorNext, SupervisorStep
-----------------------------------------------------------------------------
(* A step that touches neither a slot, a flusher, the stream nor the seal  *)
(* keeps the seal part.                                                    *)
LEMMA SealFrame ==
  ASSUME SealTakesAll, UNCHANGED <<slot, pc, batch, stream, seal>>
  PROVE  SealTakesAll'
  BY DEF SealTakesAll, Live

(* The seal's flush leaves no record in memory, unless the disk failed.    *)
LEMMA SealStep ==
  ASSUME RunInv, [RunNext]_runVars
  PROVE  SealTakesAll'
<1>0. /\ StoreInv /\ TypeOK /\ RunTypeOK /\ SealTakesAll
      /\ UploadsJoined /\ SealLast /\ SealFlushPhase
  BY DEF RunInv, StoreInv
<1> USE DEF uploadVars, watchVars, downloadVars, sealVars
<1>1. ASSUME NEW f \in Files, RecordUpload(f) PROVE SealTakesAll'
  <2>1. /\ up[f] \in {"sent", "broken"} /\ slot' = [slot EXCEPT ![f] = "live"]
        /\ UNCHANGED <<pc, batch, stream, seal>>
    BY <1>1 DEF RecordUpload, AddUpload, flushVars, diskVars
  <2>2. seal = "running" /\ pc["seal"] = "idle"
    BY <1>0, <2>1 DEF UploadsJoined, SealLast, SealFlushPhase
  <2> QED
    BY <1>0, <2>1, <2>2 DEF SealTakesAll
<1>2. ASSUME NEW f \in Files, UploadNext(f) \/ DeadlinePasses(f) \/ Grace(f)
      PROVE  SealTakesAll'
  BY <1>0, <1>1, <1>2, SealFrame DEF UploadNext, Dispatch, Transfer, RegisterUpload,
     DeadlinePasses, Grace, GraceExpires, storeVars, diskVars, flushVars
<1>3. ASSUME NEW f \in Files, NEW dest \in SUBSET DownUsers, ServerRoutes(f, dest)
      PROVE  SealTakesAll'
  BY <1>0, <1>3, SealFrame DEF ServerRoutes, storeVars
<1>4. CASE WatcherNext
  BY <1>0, <1>4, SealFrame DEF WatcherNext, TickExpire, TickList, TickResolve, TickSend,
     WatcherExit, storeVars
<1>5. CASE ConsumerNext
  BY <1>0, <1>5, SealFrame DEF ConsumerNext, ConsumerExit, ConsumeTrackID, AttachTrackID,
     storeVars, diskVars, flushVars
<1>6. ASSUME NEW u \in DownUsers, WorkerNext(u) \/ FetchNext(u) \/ PollFails(u)
      PROVE  SealTakesAll'
  <2>1. UNCHANGED <<slot, pc, batch, stream, seal>>
    BY <1>6 DEF WorkerNext, FetchNext, PollOutbox, PollFails, CheckOwnership, Fetch,
       AttachResult, AttachDownload, WorkerExit, storeVars, diskVars, flushVars
  <2> QED
    BY <1>0, <2>1, SealFrame
<1>7. CASE StreamFlush
  <2>1. Flush("bg")
    BY <1>7 DEF StreamFlush
  <2>2. /\ pc'["seal"] = pc["seal"] /\ batch'["seal"] = batch["seal"]
        /\ seal' = seal /\ stream' \in {stream, "broken"}
    BY <1>0, <2>1 DEF Flush, FlushCollect, FlushWrite, FlushWriteFails, FlushCommit,
       TypeOK, Flushers, diskVars, sealVars
  <2>3. \A f \in Files : slot'[f] = "live" => slot[f] = "live"
    BY <1>0, <2>1, FlushEffect DEF Flushers
  <2> QED
    BY <1>0, <2>2, <2>3 DEF SealTakesAll, Live
<1>8. CASE SealFlush
  <2>1. Flush("seal") /\ "seal" \in Flushers
    BY <1>8 DEF SealFlush, Flushers
  <2>2. CASE FlushCollect("seal")
    <3>1. Selected("seal") = {f \in Files : slot[f] = "live"}
      BY DEF Selected, Live
    <3>2. /\ seal = "stamped" /\ slot' = slot /\ stream' = stream
          /\ batch'["seal"] = Selected("seal")
          /\ pc'["seal"] = IF Selected("seal") = {} THEN "idle" ELSE "write"
          /\ seal' = IF Selected("seal") = {} THEN "flushed" ELSE seal
      BY <1>0, <2>1, <2>2 DEF FlushCollect, diskVars, TypeOK
    <3>3. stream # "closed"
      BY <1>0, <3>2 DEF SealTakesAll
    <3> QED
      BY <3>1, <3>2, <3>3 DEF SealTakesAll, Live
  <2>3. CASE FlushWrite("seal")
    <3>1. /\ pc["seal"] = "write" /\ UNCHANGED <<slot, batch, stream, seal>>
      BY <2>3 DEF FlushWrite, ledgerVars, sealVars
    <3>2. seal = "stamped"
      BY <1>0, <3>1 DEF SealFlushPhase
    <3> QED
      BY <1>0, <3>1, <3>2 DEF SealTakesAll, Live
  <2>4. CASE FlushWriteFails("seal")
    <3>1. /\ pc["seal"] = "write" /\ pc'["seal"] = "idle" /\ slot' = slot
          /\ stream' = IF stream = "open" THEN "broken" ELSE stream
      BY <1>0, <2>1, <2>4 DEF FlushWriteFails, ledgerVars, TypeOK
    <3>2. stream # "closed"
      BY <1>0, <3>1 DEF SealTakesAll, SealFlushPhase
    <3>3. stream' = "broken"
      BY <1>0, <3>1, <3>2 DEF TypeOK
    <3> QED
      BY <3>1, <3>3 DEF SealTakesAll
  <2>5. CASE FlushCommit("seal")
    <3>1. /\ pc["seal"] = "commit" /\ pc'["seal"] = "idle" /\ stream' = stream
          /\ \A f \in Files : slot'[f] = IF f \in batch["seal"] /\ slot[f] = "live"
                                           THEN "nil" ELSE slot[f]
      BY <1>0, <2>1, <2>5 DEF FlushCommit, TypeOK, Live
    <3>2. stream # "closed"
      BY <1>0, <3>1 DEF SealTakesAll, SealFlushPhase
    <3>3. \A f \in Files : slot'[f] # "live"
      BY <1>0, <3>1 DEF SealTakesAll, Live
    <3> QED
      BY <3>1, <3>2, <3>3 DEF SealTakesAll, Live
  <2> QED
    BY <2>1, <2>2, <2>3, <2>4, <2>5 DEF Flush
<1>9. CASE SealStamp
  <2>1. seal = "running" /\ seal' = "stamped" /\ UNCHANGED <<slot, pc, batch, stream>>
    BY <1>9 DEF SealStamp, StampPendingDownloads, flushVars, diskVars
  <2> QED
    BY <1>0, <2>1 DEF SealTakesAll, SealFlushPhase, Live
<1>10. CASE SealClose
  <2>1. /\ seal = "flushed" /\ seal' = "closed" /\ UNCHANGED <<slot, pc, batch>>
        /\ stream' = IF stream = "open" THEN "closed" ELSE stream
    BY <1>10 DEF SealClose, CloseStream, ledgerVars, flushVars
  <2> QED
    BY <1>0, <2>1 DEF SealTakesAll, SealFlushPhase, Live
<1>11. CASE Finish \/ FinishUnsealed
  <2>1. /\ (seal = "closed" /\ seal' = "released") \/ (seal = "running" /\ seal' = "abandoned")
        /\ UNCHANGED <<slot, pc, batch, stream>>
    BY <1>11 DEF Finish, FinishUnsealed, ReleaseHeavyState, AbandonSeal, flushVars, diskVars
  <2> QED
    BY <1>0, <2>1 DEF SealTakesAll, SealFlushPhase, Live
<1>12. CASE FlusherExit \/ StopDispatch \/ UploadsFinished \/ DrainEnds \/ WorkersJoined
            \/ JoinTimesOut \/ Teardown \/ WriteMeta \/ UNCHANGED runVars
  BY <1>0, <1>12, SealFrame DEF FlusherExit, StopDispatch, UploadsFinished, DrainEnds,
     WorkersJoined, JoinTimesOut, Teardown, WriteMeta, storeVars, runVars
<1> QED
  BY <1>2, <1>3, <1>4, <1>5, <1>6, <1>7, <1>8, <1>9, <1>10, <1>11, <1>12
  DEF RunNext, SupervisorNext, SupervisorStep
-----------------------------------------------------------------------------
(* Only a completed download is compared.                                  *)
LEMMA AttachCounts ==
  ASSUME TypeOK, NEW f, NEW o, AttachDownload(f, o)
  PROVE  \/ verified' = verified /\ mismatch' = mismatch
         \/ CanAttach(f) /\ verified' = verified + 1 /\ mismatch' = mismatch
         \/ CanAttach(f) /\ verified' = verified /\ mismatch' = mismatch + 1
<1>1. CASE CanAttach(f) /\ o = "match"
  BY <1>1 DEF AttachDownload
<1>2. CASE CanAttach(f) /\ o # "match"
  BY <1>2 DEF AttachDownload
<1>3. CASE ~CanAttach(f)
  BY <1>3 DEF AttachDownload
<1> QED
  BY <1>1, <1>2, <1>3

CountInv == TodoUnseen /\ HashesCompleted /\ SightingsCountedOnce

(* A step that leaves the workers and their counters alone keeps the count.*)
LEMMA CountFrame ==
  ASSUME CountInv, UNCHANGED <<worker, seen, verified, mismatch>>,
         counts'.completed = counts.completed, counts'.orphans = counts.orphans
  PROVE  CountInv'
  BY DEF CountInv, TodoUnseen, HashesCompleted, SightingsCountedOnce, InFlight

(* The ledger of sightings after one of a worker's steps.                  *)
LEMMA SightingLedger ==
  ASSUME RunTypeOK, CountInv, NEW u \in DownUsers, NEW p \in PollState, NEW c \in Counters,
         WorkerMoves(u, p, c)
  PROVE  /\ counts.completed + counts.orphans + Cardinality(InFlight) = Cardinality(Sightings)
         /\ InFlight' = IF p.phase \in {"fetch", "attach"} THEN InFlight \union {u}
                        ELSE InFlight \ {u}
         /\ seen' = seen => Sightings' = Sightings
         /\ counts \in Counters /\ counts' = c
         /\ counts'.completed + counts'.orphans + Cardinality(InFlight') = Cardinality(Sightings')
              => SightingsCountedOnce'
<1>1. counts.completed + counts.orphans + Cardinality(InFlight) = Cardinality(Sightings)
  BY DEF CountInv, SightingsCountedOnce, Sightings, Names
<1>2. \A v \in DownUsers : worker'[v] = IF v = u THEN p ELSE worker[v]
  BY DEF RunTypeOK, WorkerMoves
<1>3. InFlight' = IF p.phase \in {"fetch", "attach"} THEN InFlight \union {u}
                  ELSE InFlight \ {u}
  BY <1>2 DEF InFlight
<1>4. seen' = seen => Sightings' = Sightings
  BY DEF Sightings
<1>5. counts'.completed + counts'.orphans + Cardinality(InFlight') = Cardinality(Sightings')
        => SightingsCountedOnce'
  BY DEF SightingsCountedOnce, Sightings, Names
<1> QED
  BY <1>1, <1>3, <1>4, <1>5 DEF WorkerMoves, RunTypeOK

(* Every sighting is counted once, after every step of a run.              *)
LEMMA CountStep ==
  ASSUME RunInv, [RunNext]_runVars
  PROVE  CountInv'
<1>0. /\ StoreInv /\ TypeOK /\ RunTypeOK /\ CountInv /\ counts \in Counters
      /\ worker \in [DownUsers -> PollState] /\ seen \in [DownUsers -> SUBSET Names]
  BY DEF RunInv, StoreInv, CountInv, RunTypeOK
<1> USE DEF uploadVars, watchVars, downloadVars, sealVars
<1>1. ASSUME NEW f \in Files, UploadNext(f) \/ DeadlinePasses(f) \/ Grace(f)
      PROVE  CountInv'
  <2>1. UNCHANGED <<worker, seen, verified, mismatch>>
    BY <1>1 DEF UploadNext, Dispatch, Transfer, RecordUpload, AddUpload, RegisterUpload,
       DeadlinePasses, Grace, GraceExpires, storeVars
  <2>2. counts'.completed = counts.completed /\ counts'.orphans = counts.orphans
    BY <1>0, <1>1 DEF UploadNext, Dispatch, Transfer, RecordUpload, RegisterUpload,
       DeadlinePasses, Grace, Counters
  <2> QED
    BY <1>0, <2>1, <2>2, CountFrame
<1>2. ASSUME NEW f \in Files, NEW dest \in SUBSET DownUsers, ServerRoutes(f, dest)
      PROVE  CountInv'
  BY <1>0, <1>2, CountFrame DEF ServerRoutes, storeVars
<1>3. CASE WatcherNext
  BY <1>0, <1>3, CountFrame DEF WatcherNext, TickExpire, TickList, TickResolve, TickSend,
     WatcherExit, storeVars
<1>4. CASE ConsumerNext
  <2>1. /\ UNCHANGED <<worker, seen, verified, mismatch>>
        /\ counts'.completed = counts.completed /\ counts'.orphans = counts.orphans
    BY <1>0, <1>4 DEF ConsumerNext, ConsumerExit, ConsumeTrackID, AttachTrackID, storeVars,
       Counters
  <2> QED
    BY <1>0, <2>1, CountFrame
<1>5. ASSUME NEW u \in DownUsers, WorkerNext(u) \/ FetchNext(u) \/ PollFails(u)
      PROVE  CountInv'
  <2>0. /\ TodoUnseen /\ HashesCompleted
        /\ verified \in Nat /\ mismatch \in Nat
        /\ counts.completed \in Nat /\ counts.orphans \in Nat
        /\ worker[u] \in PollState
    BY <1>0 DEF CountInv, TypeOK, Counters
  <2>1. CASE PollOutbox(u)
    <3>1. PICK new \in SUBSET Names :
           /\ new \cap seen[u] = {}
           /\ WorkerMoves(u, [worker[u] EXCEPT !.phase = "scan", !.todo = new], counts)
           /\ [worker[u] EXCEPT !.phase = "scan", !.todo = new] \in PollState
           /\ seen' = seen
      BY <1>0, <2>1, PollEffect
    <3> DEFINE p == [worker[u] EXCEPT !.phase = "scan", !.todo = new]
    <3>2. p.phase = "scan" /\ p.todo = new
      BY <2>0 DEF PollState
    <3>3. verified' = verified /\ mismatch' = mismatch /\ worker[u].phase = "idle"
      BY <2>1 DEF PollOutbox, storeVars
    <3>4. u \notin InFlight
      BY <3>3 DEF InFlight
    <3>8. p \in PollState /\ WorkerMoves(u, p, counts)
      BY <3>1
    <3> HIDE DEF p
    <3>5. InFlight' = InFlight /\ Sightings' = Sightings /\ counts' = counts
      <4>1. InFlight' = InFlight \ {u}
        BY <1>0, <3>2, <3>8, SightingLedger
      <4>2. Sightings' = Sightings /\ counts' = counts
        BY <1>0, <3>1, <3>8, SightingLedger
      <4> QED
        BY <3>4, <4>1, <4>2
    <3>6. SightingsCountedOnce'
      BY <1>0, <3>5, <3>8, SightingLedger
    <3>7. TodoUnseen'
      BY <1>0, <2>0, <3>1, <3>2, <3>8 DEF TodoUnseen, WorkerMoves
    <3> QED
      BY <2>0, <3>3, <3>5, <3>6, <3>7 DEF CountInv, HashesCompleted
  <2>2. CASE PollFails(u)
    <3>1. /\ UNCHANGED <<worker, seen, verified, mismatch>>
          /\ counts'.completed = counts.completed /\ counts'.orphans = counts.orphans
      BY <1>0, <2>2 DEF PollFails, storeVars, Counters
    <3> QED
      BY <1>0, <3>1, CountFrame
  <2>3. ASSUME NEW f \in worker[u].todo, CheckOwnership(u, f) PROVE CountInv'
    <3>1. PICK p \in PollState :
           /\ p.todo = worker[u].todo \ {f}
           /\ worker[u].phase = "scan"
           /\ \/ p.phase = "fetch" /\ WorkerMoves(u, p, counts)
              \/ /\ p.phase \in {"idle", "scan"}
                 /\ WorkerMoves(u, p, [counts EXCEPT !.orphans = @ + 1])
           /\ f \in Names /\ seen' = [seen EXCEPT ![u] = @ \union {f}]
      BY <1>0, <2>3, OwnershipEffect
    <3>2. u \notin InFlight /\ f \notin seen[u]
      BY <2>0, <3>1 DEF InFlight, TodoUnseen
    <3>3. Sightings' = Sightings \union {<<u, f>>} /\ <<u, f>> \notin Sightings
      BY <1>0, <3>1, <3>2 DEF Sightings
    <3>4. Cardinality(Sightings') = Cardinality(Sightings) + 1
      BY <3>3, SightingsFinite, CountOne
    <3>5. verified' = verified /\ mismatch' = mismatch
      BY <2>3 DEF CheckOwnership, storeVars
    <3>6. worker' = [worker EXCEPT ![u] = p]
      BY <3>1 DEF WorkerMoves
    <3>7. TodoUnseen'
      BY <1>0, <2>0, <3>1, <3>6 DEF TodoUnseen
    <3>8. CASE p.phase = "fetch" /\ WorkerMoves(u, p, counts)
      <4>1. /\ InFlight' = InFlight \union {u} /\ counts' = counts
            /\ counts.completed + counts.orphans + Cardinality(InFlight) = Cardinality(Sightings)
        BY <1>0, <3>8, SightingLedger
      <4>2. Cardinality(InFlight') = Cardinality(InFlight) + 1
        BY <3>2, <4>1, SightingsFinite, CountOne
      <4>3. counts'.completed + counts'.orphans + Cardinality(InFlight') = Cardinality(Sightings')
        BY <2>0, <3>4, <4>1, <4>2, SightingsFinite
      <4>4. SightingsCountedOnce'
        BY <1>0, <3>8, <4>3, SightingLedger
      <4> QED
        BY <2>0, <3>5, <3>7, <4>1, <4>4 DEF CountInv, HashesCompleted
    <3>9. CASE /\ p.phase \in {"idle", "scan"}
               /\ WorkerMoves(u, p, [counts EXCEPT !.orphans = @ + 1])
      <4> DEFINE c == [counts EXCEPT !.orphans = @ + 1]
      <4>0. c \in Counters /\ c.completed = counts.completed /\ c.orphans = counts.orphans + 1
        BY <1>0, CountersBumped DEF Counters
      <4> HIDE DEF c
      <4>1. /\ InFlight' = InFlight \ {u} /\ counts' = c
            /\ counts.completed + counts.orphans + Cardinality(InFlight) = Cardinality(Sightings)
        BY <1>0, <3>9, <4>0, SightingLedger DEF c
      <4>2. InFlight' = InFlight
        BY <3>2, <4>1
      <4>3. counts'.completed + counts'.orphans + Cardinality(InFlight') = Cardinality(Sightings')
        BY <2>0, <3>4, <4>0, <4>1, <4>2, SightingsFinite
      <4>4. SightingsCountedOnce'
        BY <1>0, <3>9, <4>0, <4>3, SightingLedger DEF c
      <4> QED
        BY <2>0, <3>5, <3>7, <4>0, <4>1, <4>4 DEF CountInv, HashesCompleted
    <3> QED
      BY <3>1, <3>8, <3>9
  <2>4. CASE FetchNext(u)
    <3>1. PICK p \in PollState :
           /\ worker[u].phase = "fetch" /\ p.phase = "attach" /\ p.todo = worker[u].todo
           /\ \/ WorkerMoves(u, p, counts)
              \/ WorkerMoves(u, p, [counts EXCEPT !.errs = @ + 1])
           /\ seen' = seen
      BY <1>0, <2>4, FetchEffect
    <3>2. PICK c \in Counters : /\ WorkerMoves(u, p, c) /\ c.completed = counts.completed
                                /\ c.orphans = counts.orphans
      BY <1>0, <3>1, CountersBumped DEF Counters
    <3>3. u \in InFlight
      BY <3>1 DEF InFlight
    <3>4. InFlight' = InFlight /\ Sightings' = Sightings /\ counts' = c
      BY <1>0, <3>1, <3>2, <3>3, SightingLedger
    <3>5. SightingsCountedOnce'
      BY <1>0, <3>2, <3>4, SightingLedger
    <3>6. TodoUnseen'
      BY <1>0, <2>0, <3>1, <3>2 DEF TodoUnseen, WorkerMoves
    <3>7. verified' = verified /\ mismatch' = mismatch
      BY <2>4 DEF FetchNext, Fetch, storeVars
    <3> QED
      BY <2>0, <3>2, <3>4, <3>5, <3>6, <3>7 DEF CountInv, HashesCompleted
  <2>5. CASE AttachResult(u)
    <3>1. PICK p \in PollState, f \in worker[u].file :
           /\ AttachDownload(f, worker[u].outcome)
           /\ worker[u].phase = "attach" /\ p.phase \in {"idle", "scan"}
           /\ p.todo = worker[u].todo
           /\ WorkerMoves(u, p, IF CanAttach(f) THEN [counts EXCEPT !.completed = @ + 1]
                                ELSE [counts EXCEPT !.orphans = @ + 1])
           /\ seen' = seen
      BY <1>0, <2>5, AttachEffect
    <3>2. PICK c \in Counters :
            /\ WorkerMoves(u, p, c)
            /\ \/ CanAttach(f) /\ c.completed = counts.completed + 1 /\ c.orphans = counts.orphans
               \/ ~CanAttach(f) /\ c.completed = counts.completed /\ c.orphans = counts.orphans + 1
      BY <1>0, <3>1, CountersBumped DEF Counters
    <3>3. u \in InFlight
      BY <3>1 DEF InFlight
    <3>4. InFlight' = InFlight \ {u} /\ Sightings' = Sightings /\ counts' = c
          /\ counts.completed + counts.orphans + Cardinality(InFlight) = Cardinality(Sightings)
      BY <1>0, <3>1, <3>2, SightingLedger
    <3>5. Cardinality(InFlight) = Cardinality(InFlight') + 1 /\ Cardinality(InFlight') \in Nat
      BY <3>3, <3>4, SightingsFinite, CountOne
    <3>6. counts'.completed + counts'.orphans + Cardinality(InFlight') = Cardinality(Sightings')
      BY <2>0, <3>2, <3>4, <3>5
    <3>7. SightingsCountedOnce'
      BY <1>0, <3>2, <3>6, SightingLedger
    <3>8. TodoUnseen'
      BY <1>0, <2>0, <3>1, <3>2 DEF TodoUnseen, WorkerMoves
    <3>9. verified' + mismatch' <= counts'.completed
      BY <1>0, <2>0, <3>1, <3>2, <3>4, AttachCounts DEF HashesCompleted
    <3> QED
      BY <3>7, <3>8, <3>9 DEF CountInv, HashesCompleted
  <2>6. CASE WorkerExit(u)
    <3> DEFINE p == [worker[u] EXCEPT !.phase = "exited"]
    <3>1. worker' = [worker EXCEPT ![u] = p] /\ worker[u].phase = "idle"
          /\ UNCHANGED <<seen, counts, verified, mismatch>>
      BY <1>0, <2>6 DEF WorkerExit, storeVars
    <3>2. p \in PollState /\ p.phase = "exited" /\ p.todo = worker[u].todo
      BY <2>0 DEF PollState
    <3> HIDE DEF p
    <3>3. u \notin InFlight /\ WorkerMoves(u, p, counts)
      BY <3>1 DEF InFlight, WorkerMoves
    <3>4. InFlight' = InFlight /\ Sightings' = Sightings
      BY <1>0, <3>1, <3>2, <3>3, SightingLedger
    <3>5. SightingsCountedOnce'
      BY <1>0, <3>1, <3>2, <3>3, <3>4, SightingLedger
    <3>6. TodoUnseen'
      BY <1>0, <2>0, <3>1, <3>2 DEF TodoUnseen
    <3> QED
      BY <2>0, <3>1, <3>5, <3>6 DEF CountInv, HashesCompleted
  <2> QED
    BY <1>5, <2>1, <2>2, <2>3, <2>4, <2>5, <2>6 DEF WorkerNext
<1>6. CASE StreamFlush \/ SealFlush
  <2>1. PICK w \in Flushers : Flush(w)
    BY <1>6 DEF StreamFlush, SealFlush, Flushers
  <2>2. UNCHANGED <<worker, seen, counts>>
    BY <1>6 DEF StreamFlush, SealFlush
  <2>3. verified' = verified /\ mismatch' = mismatch
    BY <1>0, <2>1, FlushEffect
  <2> QED
    BY <1>0, <2>2, <2>3, CountFrame
<1>7. CASE SealStamp \/ SealClose \/ Finish \/ FinishUnsealed
  BY <1>0, <1>7, CountFrame DEF SealStamp, SealClose, Finish, FinishUnsealed,
     StampPendingDownloads, CloseStream, ReleaseHeavyState, AbandonSeal, ledgerVars
<1>8. CASE FlusherExit \/ StopDispatch \/ UploadsFinished \/ DrainEnds \/ WorkersJoined
           \/ JoinTimesOut \/ Teardown \/ WriteMeta \/ UNCHANGED runVars
  BY <1>0, <1>8, CountFrame DEF FlusherExit, StopDispatch, UploadsFinished, DrainEnds,
     WorkersJoined, JoinTimesOut, Teardown, WriteMeta, storeVars, runVars
<1> QED
  BY <1>1, <1>2, <1>3, <1>4, <1>5, <1>6, <1>7, <1>8 DEF RunNext, SupervisorNext, SupervisorStep
-----------------------------------------------------------------------------
(* Every behaviour of a run keeps the inductive invariant, which ties the  *)
(* positions of the uploads, the watcher, the workers, the flushers and    *)
(* the supervisor to the records in the store and to the counters.         *)
THEOREM RunInvariant == RunSpec => []RunInv
<1>1. RunInit => RunInv
  BY RunInitInv
<1>2. RunInv /\ [RunNext]_runVars => RunInv'
  <2> SUFFICES ASSUME RunInv, [RunNext]_runVars PROVE RunInv'
    OBVIOUS
  <2>1. StoreInv'
    BY ContractStep, StoreInvStep DEF RunInv
  <2>2. RunTypeOK'
    BY RunTypeStep DEF RunInv, StoreInv
  <2> QED
    BY <2>1, <2>2, UploadStep, WatchStep, SealStep, CountStep
    DEF RunInv, UploadInv, CountInv
<1> QED
  BY <1>1, <1>2, PTL DEF RunSpec

(* A run uses the report store only in the ways its specification allows:  *)
(* it settles a track-id once and for a recorded upload only, its flushers *)
(* follow the store's phases, and nothing is added after the seal.  What   *)
(* ReportStoreProofs proves of the store therefore holds in every run.     *)
THEOREM RunKeepsContract == RunSpec => StoreContract
<1>1. RunInit => Init
  BY DEF RunInit
<1>2. RunInv /\ [RunNext]_runVars => [Next]_storeVars
  BY ContractStep
<1> QED
  BY <1>1, <1>2, RunInvariant, PTL DEF RunSpec, StoreContract, Spec

(* While the run is not being sealed, an awaited track-id, wherever it is  *)
(* between the watcher's map and the consumer, finds its record in memory  *)
(* and unsettled, whatever the background flusher and the workers do.      *)
THEOREM AwaitedFound == RunSpec => []AwaitedRecordsLive
<1>1. RunInv => AwaitedRecordsLive
  <2> SUFFICES ASSUME RunInv, seal = "running", NEW f \in InWatcher
               PROVE  Live(f) /\ rec[f].tid = "none"
    BY DEF AwaitedRecordsLive
  <2>1. f \in Expected
    BY DEF RunInv, RunTypeOK, InWatcher, Expected
  <2> QED
    BY <2>1 DEF RunInv, ExpectedUnsettled
<1> QED
  BY <1>1, RunInvariant, PTL

(* A finished run whose stream never failed has the row of every upload it *)
(* started, and its metadata accounts for each exactly once.               *)
THEOREM ReportComplete == RunSpec => []SealedReportComplete
<1>1. RunInv => SealedReportComplete
  <2> SUFFICES ASSUME RunInv, sup = "done", stream = "closed"
               PROVE  /\ \A f \in Files : up[f] = "idle" \/ csv[f] # <<>>
                      /\ meta.total + counts.failed = Cardinality({f \in Files : up[f] # "idle"})
    BY DEF SealedReportComplete
  <2>1. seal = "released" /\ \A f \in Files : up[f] \in {"idle", "done"} /\ ~Live(f)
    BY DEF RunInv, SealLast, UploadsJoined, SealTakesAll
  <2>2. \A f \in Files : up[f] = "idle" \/ csv[f] # <<>>
    <3>1. \A f \in Files : slot[f] \in {"absent", "live", "nil"}
      BY DEF RunInv, StoreInv, TypeOK
    <3>2. \A f \in Files : up[f] = "done" => slot[f] # "absent"
      BY DEF RunInv, RecordedUploads
    <3> QED
      BY <2>1, <3>1, <3>2 DEF RunInv, StoreInv, ReleasedRowsOnDisk, Live
  <2>3. {f \in Files : up[f] # "idle"} = {f \in Files : up[f] = "done"}
    BY <2>1
  <2>4. meta.total = counts.total
        /\ counts.total + counts.failed = Cardinality({f \in Files : up[f] = "done"})
    BY <2>1 DEF RunInv, UploadsCounted
  <2> QED
    BY <2>2, <2>3, <2>4
<1> QED
  BY <1>1, RunInvariant, PTL

(* Each name a download worker acts on is counted exactly once, as         *)
(* completed or as an orphan, for any number of workers, files and         *)
(* left-overs of earlier runs.                                             *)
THEOREM CountedOnce == RunSpec => []SightingsCountedOnce
<1>1. RunInv => SightingsCountedOnce
  BY DEF RunInv
<1> QED
  BY <1>1, RunInvariant, PTL
=============================================================================
