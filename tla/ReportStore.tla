---------------------------- MODULE ReportStore ----------------------------
(***************************************************************************)
(* The per-file ledger of one load-test run (internal/report: Store and    *)
(* CSVStreamWriter) and the ways the rest of the run touches it: uploads   *)
(* add a record, the track-id consumer and the download workers attach     *)
(* results to it, and two goroutines move records to the CSV file on disk: *)
(* the background streamFlusher, on a 5 s ticker, and the supervisor's     *)
(* sealAllAndWriteMeta, once, at the end.                                  *)
(*                                                                         *)
(* FlushFinalized holds the Store mutex twice, around the selection of the *)
(* batch and around the release of its slots, and writes to disk between   *)
(* the two without it.  The three parts are three actions here, so that    *)
(* attaches, the other flusher and the live-CSV handler interleave with    *)
(* them exactly where the code lets them.                                  *)
(*                                                                         *)
(* A record is identified with its file: NameFromPattern stamps every name *)
(* with a nanosecond clock and a random tail, so no name is used twice in  *)
(* a run and byKey, byBasename and byFilenameID, which are always added to *)
(* and pruned together, are one set.                                       *)
(*                                                                         *)
(* The operators marked "Slip" are plausible bugs, kept to show that the   *)
(* properties at the end notice them; the specification does not use them. *)
(***************************************************************************)
EXTENDS Naturals, Sequences, FiniteSets

CONSTANTS
  Files,          \* the uploads the run may attempt
  Readers,        \* concurrent GET /api/report.csv requests
  DownloadPhase,  \* cfg.Download # nil
  VerifyHashes,   \* cfg.VerifyHashes
  FilenameMode,   \* cfg.Download.MatchMode = "filename": no track-id stage
  MaxAttach       \* bound: hash comparisons counted in one behaviour

ASSUME StoreAssumption ==
  /\ IsFiniteSet(Files)
  /\ DownloadPhase \in BOOLEAN
  /\ VerifyHashes \in BOOLEAN
  /\ FilenameMode \in BOOLEAN
  /\ MaxAttach \in Nat

VARIABLES
  slot,      \* records[]: "absent" (never added), "live", "nil" (released)
  rec,       \* the FileRecord behind a live slot
  index,     \* keys of byKey / byBasename / byFilenameID
  expired,   \* files whose grace window after TrackIDAt has passed
  verified,  \* hashVerified
  mismatch,  \* hashMismatch
  flushed,   \* flushed
  csv,       \* rows on disk, per file, each with the flusher that wrote it
  stream,    \* CSVStreamWriter: "open", "broken" (a write failed: csv.Writer
             \* keeps the error, before and after Close), "closed"
  pc,        \* where each flusher is in FlushFinalized
  batch,     \* the files it selected
  snap,      \* the copies of their records it will write
  seal,      \* progress of the supervisor's seal
  stalled,   \* StampPendingDownloads' return value
  reader     \* the live-CSV handlers in progress

storeVars == <<slot, rec, index, expired, verified, mismatch, flushed, csv,
               stream, pc, batch, snap, seal, stalled, reader>>
ledgerVars == <<slot, rec, index, expired, verified, mismatch>>
diskVars == <<csv, stream, flushed>>
flushVars == <<pc, batch, snap>>
sealVars == <<seal, stalled>>

Flushers == {"bg", "seal"}

(* What the properties tell apart in a FileRecord: whether the upload      *)
(* failed, whether the track-id stage is settled (a real id, a synthetic   *)
(* one or TRACKID_TIMEOUT), how the download ended (with "stalled" for the *)
(* DOWNLOAD_TIMEOUT_LOCAL stamp and "error" for any other DownloadError,   *)
(* HASH_MISMATCH included) and HashMatch.                                  *)
Record ==
  [up   : {"ok", "failed"},
   tid  : {"none", "set"},
   dl   : {"none", "stalled", "ok", "error"},
   hash : {"none", "match", "mismatch"}]

Uploaded(up, tid) == [up |-> up, tid |-> tid, dl |-> "none", hash |-> "none"]

Blank == Uploaded("ok", "none")

Row == [rec : Record, by : Flushers]

Live(f) == slot[f] = "live"

(* DownloadEndTime is set: a download, good or bad, was attached. *)
Attached(r) == r.dl \in {"ok", "error"}

SilentlyBlank(r) == r.dl = "none" /\ r.up = "ok"
-----------------------------------------------------------------------------
Init ==
  /\ slot = [f \in Files |-> "absent"]
  /\ rec = [f \in Files |-> Blank]
  /\ index = {}
  /\ expired = {}
  /\ verified = 0
  /\ mismatch = 0
  /\ flushed = 0
  /\ csv = [f \in Files |-> <<>>]
  /\ stream = "open"
  /\ pc = [w \in Flushers |-> "idle"]
  /\ batch = [w \in Flushers |-> {}]
  /\ snap = [w \in Flushers |-> [f \in Files |-> Blank]]
  /\ seal = "running"
  /\ stalled = 0
  /\ reader = [d \in Readers |-> [pc |-> "idle", file |-> {}, due |-> {},
                                  served |-> {}]]
-----------------------------------------------------------------------------
(* ReleaseHeavyState has dropped the index maps. *)
Released == seal \in {"released", "abandoned"}

\* Slip: an upload retried under its old name takes its released slot again
AddUploadReuses(f, up) ==
  /\ slot[f] # "live"
  /\ ~Released
  /\ slot' = [slot EXCEPT ![f] = "live"]
  /\ rec' = [rec EXCEPT ![f] =
               Uploaded(up, IF up = "ok" /\ FilenameMode THEN "set" ELSE "none")]
  /\ index' = index \union {f}
  /\ UNCHANGED <<expired, verified, mismatch, diskVars, flushVars, sealVars, reader>>

(* AddUpload appends a record and indexes it.  A failed upload carries an  *)
(* error code; in filename mode a successful one gets its synthetic        *)
(* track-id on the spot.  After ReleaseHeavyState the index maps are nil   *)
(* and an insertion would panic, so callers must have stopped by then.     *)
AddUpload(f, up) ==
  /\ slot[f] = "absent"
  /\ ~Released
  /\ slot' = [slot EXCEPT ![f] = "live"]
  /\ rec' = [rec EXCEPT ![f] =
               Uploaded(up, IF up = "ok" /\ FilenameMode THEN "set" ELSE "none")]
  /\ index' = index \union {f}
  /\ UNCHANGED <<expired, verified, mismatch, diskVars, flushVars, sealVars, reader>>

(* AttachTrackID: found in the index, and the record not yet released. *)
AttachTrackID(f) ==
  /\ IF f \in index /\ Live(f)
       THEN rec' = [rec EXCEPT ![f].tid = "set"]
       ELSE UNCHANGED rec
  /\ UNCHANGED <<slot, index, expired, verified, mismatch, diskVars, flushVars,
                 sealVars, reader>>

(* TrackIDAt + grace passes. *)
GraceExpires(f) ==
  /\ Live(f) /\ rec[f].tid # "none"
  /\ f \notin expired
  /\ expired' = expired \union {f}
  /\ UNCHANGED <<slot, rec, index, verified, mismatch, diskVars, flushVars,
                 sealVars, reader>>

(* Both sides produced a hash: the upload did unless it failed, and the    *)
(* download did unless it ended in error.                                  *)
Hashed(r, outcome) == VerifyHashes /\ r.up = "ok" /\ outcome # "error"

DownloadedAs(r, outcome) ==
  [r EXCEPT !.dl = IF \/ outcome = "error"
                      \/ Hashed(r, outcome) /\ outcome = "mismatch"
                     THEN "error" ELSE "ok",
            !.hash = IF Hashed(r, outcome) THEN outcome ELSE @]

(* AttachDownloadByBasename / ByFilenameID report whether they found a     *)
(* live record, and count the hash comparison in the same critical section.*)
CanAttach(f) == f \in index /\ Live(f)

\* Slip: a comparison is counted only for the first result of a record
AttachDownloadFirst(f, outcome) ==
  /\ rec' = IF CanAttach(f) THEN [rec EXCEPT ![f] = DownloadedAs(rec[f], outcome)]
            ELSE rec
  /\ verified' = IF /\ CanAttach(f) /\ rec[f].dl = "none"
                    /\ Hashed(rec[f], outcome) /\ outcome = "match"
                   THEN verified + 1 ELSE verified
  /\ UNCHANGED <<slot, index, expired, mismatch, diskVars, flushVars, sealVars, reader>>

AttachDownload(f, outcome) ==
  /\ IF CanAttach(f)
       THEN /\ rec' = [rec EXCEPT ![f] = DownloadedAs(rec[f], outcome)]
            /\ verified' = IF Hashed(rec[f], outcome) /\ outcome = "match"
                             THEN verified + 1 ELSE verified
            /\ mismatch' = IF Hashed(rec[f], outcome) /\ outcome = "mismatch"
                             THEN mismatch + 1 ELSE mismatch
       ELSE UNCHANGED <<rec, verified, mismatch>>
  /\ UNCHANGED <<slot, index, expired, diskVars, flushVars, sealVars, reader>>
-----------------------------------------------------------------------------
\* Slip: a resolved track-id is taken for a finished round trip
IsRecordFinalEarly(f) ==
  rec[f].tid # "none" \/ rec[f].up = "failed"

\* Slip: without a download phase an upload is final as soon as it is recorded
IsRecordFinalAtOnce(f) ==
  \/ rec[f].up = "failed" /\ rec[f].tid = "none"
  \/ ~DownloadPhase
  \/ rec[f].tid # "none" /\ (Attached(rec[f]) \/ f \in expired)

(* isRecordFinal: the upload failed, or the track-id is settled and so is  *)
(* the download (attached, not wanted, or given up on).                    *)
IsRecordFinal(f) ==
  \/ rec[f].up = "failed" /\ rec[f].tid = "none"
  \/ /\ rec[f].tid # "none"
     /\ ~DownloadPhase \/ Attached(rec[f]) \/ f \in expired

(* ... and its side effect: giving up stamps DOWNLOAD_TIMEOUT_LOCAL. *)
GivenUp(f) ==
  /\ rec[f].tid # "none" /\ DownloadPhase /\ ~Attached(rec[f]) /\ f \in expired

Stamped(r) == IF r.dl = "none" THEN [r EXCEPT !.dl = "stalled"] ELSE r

(* The seal flushes whatever is left; the background flusher what is final.*)
Selected(w) == {f \in Files : Live(f) /\ (w = "seal" \/ IsRecordFinal(f))}

Collected(w, f) == IF w = "bg" /\ GivenUp(f) THEN Stamped(rec[f]) ELSE rec[f]

(* FlushFinalized, first critical section: copy the selected records. *)
FlushCollect(w) ==
  /\ pc[w] = "idle"
  /\ w = "seal" => seal = "stamped"
  /\ rec' = [f \in Files |-> IF f \in Selected(w) THEN Collected(w, f) ELSE rec[f]]
  /\ batch' = [batch EXCEPT ![w] = Selected(w)]
  /\ snap' = [snap EXCEPT ![w] =
                [f \in Files |-> IF f \in Selected(w) THEN Collected(w, f) ELSE Blank]]
  /\ pc' = [pc EXCEPT ![w] = IF Selected(w) = {} THEN "idle" ELSE "write"]
  /\ seal' = IF w = "seal" /\ Selected(w) = {} THEN "flushed" ELSE seal
  /\ UNCHANGED <<slot, index, expired, verified, mismatch, diskVars, stalled, reader>>

AppendRows(w, written) ==
  csv' = [f \in Files |->
            IF f \in written THEN Append(csv[f], [rec |-> snap[w][f], by |-> w])
            ELSE csv[f]]

(* Nothing can be attached any more: the index entry is dead weight. *)
CanPrune(r) == (r.up = "failed" /\ r.tid = "none") \/ r.dl # "none"

\* Slip: the index is pruned on every flush, whether or not the slot is released
FlushWritePrunes(w) ==
  /\ pc[w] = "write"
  /\ stream = "open"
  /\ AppendRows(w, batch[w])
  /\ pc' = [pc EXCEPT ![w] = "commit"]
  /\ index' = index \ {f \in batch[w] : CanPrune(snap[w][f])}
  /\ UNCHANGED <<slot, rec, expired, verified, mismatch, stream, flushed, batch,
                 snap, sealVars, reader>>

(* WriteRowsBatch under the writer's own mutex: every row reaches disk ... *)
FlushWrite(w) ==
  /\ pc[w] = "write"
  /\ stream = "open"
  /\ AppendRows(w, batch[w])
  /\ pc' = [pc EXCEPT ![w] = "commit"]
  /\ UNCHANGED <<ledgerVars, stream, flushed, batch, snap, sealVars, reader>>

\* Slip: the write error is logged but the slots are released all the same
FlushWriteFailsReleases(w) ==
  /\ pc[w] = "write"
  /\ \E written \in SUBSET batch[w] :
       /\ stream # "open" => written = {}
       /\ AppendRows(w, written)
  /\ stream' = IF stream = "open" THEN "broken" ELSE stream
  /\ pc' = [pc EXCEPT ![w] = "commit"]
  /\ UNCHANGED <<ledgerVars, flushed, batch, snap, sealVars, reader>>

\* Slip: a failed batch leaves the stream usable, and the next tick retries it
FlushWriteFailsRetries(w) ==
  /\ pc[w] = "write"
  /\ \E written \in SUBSET batch[w] : AppendRows(w, written)
  /\ pc' = [pc EXCEPT ![w] = "idle"]
  /\ batch' = [batch EXCEPT ![w] = {}]
  /\ snap' = [snap EXCEPT ![w] = [f \in Files |-> Blank]]
  /\ seal' = IF w = "seal" THEN "flushed" ELSE seal
  /\ UNCHANGED <<ledgerVars, stream, flushed, stalled, reader>>

(* ... or the write fails after some of them (csv.Writer errors are sticky,*)
(* and so is a closed file), and FlushFinalized returns without releasing  *)
(* anything.                                                               *)
FlushWriteFails(w) ==
  /\ pc[w] = "write"
  /\ \E written \in SUBSET batch[w] :
       /\ stream # "open" => written = {}
       /\ AppendRows(w, written)
  /\ stream' = IF stream = "open" THEN "broken" ELSE stream
  /\ pc' = [pc EXCEPT ![w] = "idle"]
  /\ batch' = [batch EXCEPT ![w] = {}]
  /\ snap' = [snap EXCEPT ![w] = [f \in Files |-> Blank]]
  /\ seal' = IF w = "seal" THEN "flushed" ELSE seal
  /\ UNCHANGED <<ledgerVars, flushed, stalled, reader>>

\* Slip: the finished batch is not cleared
FlushCommitKeepsBatch(w) ==
  /\ pc[w] = "commit"
  /\ LET release == {f \in batch[w] : Live(f)}
     IN /\ slot' = [f \in Files |-> IF f \in release THEN "nil" ELSE slot[f]]
        /\ rec' = [f \in Files |-> IF f \in release THEN Blank ELSE rec[f]]
        /\ index' = index \ {f \in release : CanPrune(rec[f])}
  /\ flushed' = flushed + Cardinality(batch[w])
  /\ pc' = [pc EXCEPT ![w] = "idle"]
  /\ seal' = IF w = "seal" THEN "flushed" ELSE seal
  /\ UNCHANGED <<expired, verified, mismatch, csv, stream, stalled, batch, snap, reader>>

(* FlushFinalized, second critical section: release the slots. *)
FlushCommit(w) ==
  /\ pc[w] = "commit"
  /\ LET release == {f \in batch[w] : Live(f)}
     IN /\ slot' = [f \in Files |-> IF f \in release THEN "nil" ELSE slot[f]]
        /\ rec' = [f \in Files |-> IF f \in release THEN Blank ELSE rec[f]]
        /\ index' = index \ {f \in release : CanPrune(rec[f])}
  /\ flushed' = flushed + Cardinality(batch[w])
  /\ pc' = [pc EXCEPT ![w] = "idle"]
  /\ batch' = [batch EXCEPT ![w] = {}]
  /\ snap' = [snap EXCEPT ![w] = [f \in Files |-> Blank]]
  /\ seal' = IF w = "seal" THEN "flushed" ELSE seal
  /\ UNCHANGED <<expired, verified, mismatch, csv, stream, stalled, reader>>
-----------------------------------------------------------------------------
(* sealAllAndWriteMeta stamps what never came back, flushes the rest,      *)
(* closes the stream; afterwards the run releases the heavy state.         *)
StampPendingDownloads ==
  /\ seal = "running"
  /\ LET pending == {f \in Files : /\ DownloadPhase
                                   /\ Live(f) /\ rec[f].tid # "none"
                                   /\ rec[f].dl = "none"}
     IN /\ rec' = [f \in Files |-> IF f \in pending THEN Stamped(rec[f]) ELSE rec[f]]
        /\ stalled' = Cardinality(pending)
  /\ seal' = "stamped"
  /\ UNCHANGED <<slot, index, expired, verified, mismatch, diskVars, flushVars, reader>>

CloseStream ==
  /\ seal = "flushed"
  /\ seal' = "closed"
  /\ stream' = IF stream = "open" THEN "closed" ELSE stream
  /\ UNCHANGED <<ledgerVars, csv, flushed, flushVars, stalled, reader>>

ReleaseHeavyState ==
  /\ seal = "closed"
  /\ seal' = "released"
  /\ index' = {}
  /\ UNCHANGED <<slot, rec, expired, verified, mismatch, diskVars, flushVars,
                 stalled, reader>>

(* sealAllAndWriteMeta cannot make its directory: nothing is stamped,      *)
(* flushed or closed, and the state is released all the same.              *)
AbandonSeal ==
  /\ seal = "running"
  /\ seal' = "abandoned"
  /\ index' = {}
  /\ UNCHANGED <<slot, rec, expired, verified, mismatch, diskVars, flushVars,
                 stalled, reader>>
-----------------------------------------------------------------------------
(* GET /api/report.csv while the stream is open: the bytes on disk, then   *)
(* the records still in memory (once closed, the file alone is served).    *)
(* "due" remembers which files had a record when the request came in.      *)
ReadStreamFile(d) ==
  /\ reader[d].pc = "idle"
  /\ seal \notin {"closed", "released"}
  /\ reader' = [reader EXCEPT ![d] =
       [pc |-> "tail", file |-> {f \in Files : csv[f] # <<>>},
        due |-> {f \in Files : slot[f] # "absent"}, served |-> {}]]
  /\ UNCHANGED <<ledgerVars, diskVars, flushVars, sealVars>>

WriteRemainingCSV(d) ==
  /\ reader[d].pc = "tail"
  /\ reader' = [reader EXCEPT ![d] =
       [pc |-> "done", file |-> {}, due |-> @.due,
        served |-> @.file \union {f \in Files : Live(f)}]]
  /\ UNCHANGED <<ledgerVars, diskVars, flushVars, sealVars>>

(* The response is complete and the client goes away. *)
ReaderDone(d) ==
  /\ reader[d].pc = "done"
  /\ reader' = [reader EXCEPT ![d] = [pc |-> "idle", file |-> {}, due |-> {},
                                      served |-> {}]]
  /\ UNCHANGED <<ledgerVars, diskVars, flushVars, sealVars>>
-----------------------------------------------------------------------------
(* The watcher settles a track-id once, and only for a recorded upload     *)
(* that succeeded in track-id mode.                                        *)
SettleTrackID(f) ==
  /\ slot[f] = "live" => rec[f].up = "ok" /\ rec[f].tid = "none"
  /\ slot[f] # "absent" /\ ~FilenameMode
  /\ AttachTrackID(f)

SettleDownload(f, outcome) ==
  /\ DownloadPhase
  /\ CanAttach(f) => verified + mismatch < MaxAttach
  /\ AttachDownload(f, outcome)

Flush(w) == FlushCollect(w) \/ FlushWrite(w) \/ FlushWriteFails(w) \/ FlushCommit(w)

Read(d) == ReadStreamFile(d) \/ WriteRemainingCSV(d) \/ ReaderDone(d)

Next ==
  \/ \E f \in Files, up \in {"ok", "failed"} : AddUpload(f, up)
  \/ \E f \in Files : SettleTrackID(f) \/ GraceExpires(f)
  \/ \E f \in Files, o \in {"match", "mismatch", "error"} : SettleDownload(f, o)
  \/ \E w \in Flushers : Flush(w)
  \/ StampPendingDownloads
  \/ CloseStream
  \/ ReleaseHeavyState
  \/ AbandonSeal
  \/ \E d \in Readers : Read(d)

Spec == Init /\ [][Next]_storeVars
-----------------------------------------------------------------------------
(* Every variable keeps its type, and a batch exists only while its        *)
(* flusher is inside FlushFinalized, on its way to the disk.               *)
TypeOK ==
  /\ slot \in [Files -> {"absent", "live", "nil"}]
  /\ rec \in [Files -> Record]
  /\ index \in SUBSET Files
  /\ expired \in SUBSET Files
  /\ verified \in Nat /\ mismatch \in Nat /\ flushed \in Nat /\ stalled \in Nat
  /\ csv \in [Files -> Seq(Row)]
  /\ stream \in {"open", "broken", "closed"}
  /\ pc \in [Flushers -> {"idle", "write", "commit"}]
  /\ batch \in [Flushers -> SUBSET Files]
  /\ \A w \in Flushers : pc[w] = "idle" => batch[w] = {}
  /\ snap \in [Flushers -> [Files -> Record]]
  /\ seal \in {"running", "stamped", "flushed", "closed", "released",
              "abandoned"}
  /\ reader \in [Readers -> [pc : {"idle", "tail", "done"}, file : SUBSET Files,
                             due : SUBSET Files, served : SUBSET Files]]

(* A record leaves memory only after its row is on disk: whatever the two  *)
(* flushers, the attaches and a failing disk do in between, FlushFinalized *)
(* never releases a slot whose row was not written.                        *)
ReleasedRowsOnDisk == \A f \in Files : slot[f] = "nil" => csv[f] # <<>>

(* A live record can always be found: pruning in FlushFinalized never      *)
(* drops the index entry of a record that is still in memory, so no attach *)
(* to a live record is lost before the run releases its state.             *)
LiveRecordsIndexed ==
  ~Released => \A f \in Files : Live(f) => f \in index

(* FlushFinalized writes a record's row at most once per flusher, even     *)
(* when a write failed halfway and the record stayed live for a retry: the *)
(* stream's sticky error is what keeps the retry from writing it again.    *)
OneRowPerFlusher ==
  \A f \in Files : \A i, j \in DOMAIN csv[f] :
    csv[f][i].by = csv[f][j].by => i = j

(* The background flusher never seals a successful upload with its         *)
(* download columns silently blank: isRecordFinal waits for the track-id   *)
(* and then for the download or its DOWNLOAD_TIMEOUT_LOCAL stamp.          *)
BackgroundRowsSettled ==
  DownloadPhase => \A f \in Files : \A i \in DOMAIN csv[f] :
    csv[f][i].by = "bg" => ~SilentlyBlank(csv[f][i].rec)

(* The CSV is append-only and a released slot is never filled again: no    *)
(* step rewrites a row on disk or resurrects its record.                   *)
SealedForGood ==
  [][\A f \in Files :
       /\ slot[f] = "nil" => slot'[f] = "nil"
       /\ Len(csv[f]) <= Len(csv'[f])
       /\ \A i \in DOMAIN csv[f] : csv'[f][i] = csv[f][i]]_storeVars

(* A row that says the hashes matched was counted: the meta counter        *)
(* HashVerified, bumped in the attach, never falls behind the rows, which  *)
(* are copied and written later by another goroutine.                      *)
MatchedRowsCounted ==
  Cardinality({f \in Files : \E i \in DOMAIN csv[f] : csv[f][i].rec.hash = "match"})
    <= verified

(* A live download that misses a record the run had when it was asked for  *)
(* missed it only because a flush moved it to disk between the two halves  *)
(* of handleReportCSV: asking again finds it.                              *)
MissedRowsOnDisk ==
  \A d \in Readers : reader[d].pc = "done" =>
    \A f \in reader[d].due \ reader[d].served : csv[f] # <<>>

(* What the comment on HasUploadByFilenameID says: the index survives the  *)
(* flush, so the run still recognises its early uploads.                   *)
IndexSurvivesFlush ==
  ~Released => \A f \in Files : slot[f] = "nil" => f \in index

(* What the comments in handleReportCSV and on LockForConcat say: a live   *)
(* download holds every record the run had when it was asked for.          *)
LiveDownloadComplete ==
  \A d \in Readers : reader[d].pc = "done" => reader[d].due \subseteq reader[d].served

(* What the comment on FlushedCount says: the number of records moved from *)
(* memory to the stream file.                                              *)
FlushedCountsRecords == flushed <= Cardinality({f \in Files : slot[f] # "absent"})
=============================================================================
