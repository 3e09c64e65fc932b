------------------------- MODULE ReportStoreProofs -------------------------
(***************************************************************************)
(* What ReportStore promises, proved for any set of files, any set of      *)
(* live-CSV requests and either setting of the run's options.              *)
(***************************************************************************)
EXTENDS ReportStore, FiniteSetTheorems, TLAPS

(* A flusher that is about to release its batch has written every row. *)
CommitWritten ==
  \A w \in Flushers : pc[w] = "commit" => \A f \in batch[w] : csv[f] # <<>>

(* A batch holds only files that were uploaded. *)
BatchUploaded ==
  \A w \in Flushers : \A f \in batch[w] : slot[f] # "absent"

(* The seal's flush runs between the stamp and the close. *)
SealFlushPhase == pc["seal"] # "idle" => seal = "stamped"

RowBy(w, f) == \E i \in DOMAIN csv[f] : csv[f][i].by = w

(* A row on disk belongs to a released record, to a batch about to be      *)
(* released, or to a stream that can take no further row.                  *)
RowAccounted ==
  \A w \in Flushers, f \in Files : RowBy(w, f) =>
    \/ slot[f] = "nil"
    \/ pc[w] = "commit" /\ f \in batch[w]
    \/ stream # "open"

(* A flusher that can still write has written nothing of its batch yet. *)
NoRowYet ==
  \A w \in Flushers : pc[w] = "write" /\ stream = "open" =>
    \A f \in batch[w] : ~RowBy(w, f)

(* What the background flusher carries to the disk is settled. *)
SnapSettled ==
  DownloadPhase /\ pc["bg"] = "write" =>
    \A f \in batch["bg"] : ~SilentlyBlank(snap["bg"][f])

StoreInv ==
  /\ TypeOK
  /\ CommitWritten
  /\ BatchUploaded
  /\ SealFlushPhase
  /\ RowAccounted
  /\ NoRowYet
  /\ SnapSettled
  /\ ReleasedRowsOnDisk
  /\ LiveRecordsIndexed
  /\ OneRowPerFlusher
  /\ BackgroundRowsSettled
-----------------------------------------------------------------------------
(* What the operations on one record return is a record again.             *)
LEMMA RecordOps ==
  ASSUME NEW r \in Record
  PROVE  /\ Stamped(r) \in Record
         /\ [r EXCEPT !.tid = "set"] \in Record
         /\ \A o \in {"match", "mismatch", "error"} : DownloadedAs(r, o) \in Record
  BY DEF Record, Stamped, DownloadedAs, Hashed

(* A freshly added upload is a record without a settled download.          *)
LEMMA UploadedRecord ==
  ASSUME NEW u \in {"ok", "failed"}, NEW t \in {"none", "set"}
  PROVE  Uploaded(u, t) \in Record /\ Blank \in Record
  BY DEF Uploaded, Blank, Record

(* The number of files of a batch is a natural number.                     *)
LEMMA FileCount ==
  ASSUME NEW S \in SUBSET Files
  PROVE  Cardinality(S) \in Nat
  BY FS_Subset, FS_CardinalityType, StoreAssumption

(* Appending the rows of a batch keeps csv a function to sequences of rows.*)
LEMMA AppendRowsType ==
  ASSUME TypeOK, NEW w \in Flushers, NEW written \in SUBSET Files,
         AppendRows(w, written)
  PROVE  csv' \in [Files -> Seq(Row)]
<1>1. ASSUME NEW f \in Files
      PROVE  [rec |-> snap[w][f], by |-> w] \in Row
  BY DEF Row, TypeOK
<1>2. ASSUME NEW f \in Files
      PROVE  Append(csv[f], [rec |-> snap[w][f], by |-> w]) \in Seq(Row)
  BY <1>1 DEF TypeOK
<1> QED
  BY <1>2 DEF AppendRows, TypeOK

(* NewStore establishes the invariant.                                     *)
LEMMA InitInv == Init => StoreInv
<1> SUFFICES ASSUME Init PROVE StoreInv
  OBVIOUS
<1>1. TypeOK
  <2>1. csv \in [Files -> Seq(Row)]
    BY DEF Init
  <2> QED
    BY <2>1, UploadedRecord DEF Init, TypeOK, Blank, Flushers
<1>2. \A w \in Flushers, f \in Files : ~RowBy(w, f)
  BY DEF Init, RowBy
<1>3. OneRowPerFlusher /\ BackgroundRowsSettled
  BY DEF Init, OneRowPerFlusher, BackgroundRowsSettled
<1> QED
  BY <1>1, <1>2, <1>3
  DEF StoreInv, Init, Flushers, CommitWritten, BatchUploaded, SealFlushPhase,
      RowAccounted, NoRowYet, SnapSettled, ReleasedRowsOnDisk, LiveRecordsIndexed, Live

(* Type correctness, action by action. *)
LEMMA TypeStep == TypeOK /\ [Next]_storeVars => TypeOK'
<1> SUFFICES ASSUME TypeOK, [Next]_storeVars PROVE TypeOK'
  OBVIOUS
<1>1. ASSUME NEW f \in Files, NEW u \in {"ok", "failed"}, AddUpload(f, u)
      PROVE  TypeOK'
  <2>1. Uploaded(u, IF u = "ok" /\ FilenameMode THEN "set" ELSE "none") \in Record
    BY UploadedRecord
  <2> QED
    BY <1>1, <2>1 DEF AddUpload, TypeOK, diskVars, flushVars, sealVars
<1>2. ASSUME NEW f \in Files, SettleTrackID(f) PROVE TypeOK'
  <2> DEFINE r == [rec[f] EXCEPT !.tid = "set"]
  <2>0. r \in Record
    BY RecordOps DEF TypeOK
  <2>1. rec' \in [Files -> Record]
    <3>1. rec' = [rec EXCEPT ![f] = r] \/ rec' = rec
      BY <1>2 DEF SettleTrackID, AttachTrackID
    <3> HIDE DEF r
    <3> QED
      BY <2>0, <3>1 DEF TypeOK
  <2> QED
    BY <1>2, <2>1 DEF SettleTrackID, AttachTrackID, TypeOK, diskVars, flushVars, sealVars
<1>3. ASSUME NEW f \in Files, GraceExpires(f) PROVE TypeOK'
  BY <1>3 DEF GraceExpires, TypeOK, diskVars, flushVars, sealVars
<1>4. ASSUME NEW f \in Files, NEW o \in {"match", "mismatch", "error"},
             SettleDownload(f, o)
      PROVE  TypeOK'
  <2>1. DownloadedAs(rec[f], o) \in Record
    BY RecordOps DEF TypeOK
  <2>2. rec' \in [Files -> Record]
    BY <1>4, <2>1 DEF SettleDownload, AttachDownload, TypeOK
  <2>3. verified' \in Nat /\ mismatch' \in Nat
    <3>1. verified' \in {verified, verified + 1} /\ mismatch' \in {mismatch, mismatch + 1}
      BY <1>4 DEF SettleDownload, AttachDownload
    <3> QED
      BY <3>1 DEF TypeOK
  <2> QED
    BY <1>4, <2>2, <2>3 DEF SettleDownload, AttachDownload, TypeOK, diskVars, flushVars, sealVars
<1>5. ASSUME NEW w \in Flushers, FlushCollect(w) PROVE TypeOK'
  <2>1. \A f \in Files : Collected(w, f) \in Record
    BY RecordOps DEF TypeOK, Collected
  <2>2. Blank \in Record /\ Selected(w) \in SUBSET Files
    BY UploadedRecord DEF Selected
  <2>3. rec' \in [Files -> Record] /\ snap' \in [Flushers -> [Files -> Record]]
    BY <1>5, <2>1, <2>2 DEF FlushCollect, TypeOK
  <2>4. batch' \in [Flushers -> SUBSET Files]
        /\ pc' \in [Flushers -> {"idle", "write", "commit"}]
        /\ \A v \in Flushers : pc'[v] = "idle" => batch'[v] = {}
    BY <1>5, <2>2 DEF FlushCollect, TypeOK
  <2>5. seal' \in {"running", "stamped", "flushed", "closed", "released",
                 "abandoned"}
    BY <1>5 DEF FlushCollect, TypeOK
  <2> QED
    BY <1>5, <2>3, <2>4, <2>5 DEF FlushCollect, TypeOK, diskVars
<1>6. ASSUME NEW w \in Flushers, FlushWrite(w) PROVE TypeOK'
  <2>1. csv' \in [Files -> Seq(Row)]
    BY <1>6, AppendRowsType DEF FlushWrite, TypeOK
  <2> QED
    BY <1>6, <2>1 DEF FlushWrite, TypeOK, ledgerVars, sealVars
<1>7. ASSUME NEW w \in Flushers, FlushWriteFails(w) PROVE TypeOK'
  <2>1. csv' \in [Files -> Seq(Row)]
    BY <1>7, AppendRowsType DEF FlushWriteFails, TypeOK
  <2>2. Blank \in Record
    BY UploadedRecord
  <2>3. snap' \in [Flushers -> [Files -> Record]]
    BY <1>7, <2>2 DEF FlushWriteFails, TypeOK
  <2>4. batch' \in [Flushers -> SUBSET Files]
        /\ pc' \in [Flushers -> {"idle", "write", "commit"}]
        /\ \A v \in Flushers : pc'[v] = "idle" => batch'[v] = {}
    BY <1>7 DEF FlushWriteFails, TypeOK
  <2> QED
    BY <1>7, <2>1, <2>3, <2>4 DEF FlushWriteFails, TypeOK, ledgerVars
<1>8. ASSUME NEW w \in Flushers, FlushCommit(w) PROVE TypeOK'
  <2>1. Blank \in Record /\ Cardinality(batch[w]) \in Nat
    BY UploadedRecord, FileCount DEF TypeOK
  <2>2. snap' \in [Flushers -> [Files -> Record]] /\ rec' \in [Files -> Record]
    BY <1>8, <2>1 DEF FlushCommit, TypeOK
  <2>3. slot' \in [Files -> {"absent", "live", "nil"}] /\ flushed' \in Nat
        /\ index' \in SUBSET Files
    BY <1>8, <2>1 DEF FlushCommit, TypeOK
  <2>4. batch' \in [Flushers -> SUBSET Files]
        /\ pc' \in [Flushers -> {"idle", "write", "commit"}]
        /\ \A v \in Flushers : pc'[v] = "idle" => batch'[v] = {}
    BY <1>8 DEF FlushCommit, TypeOK
  <2> QED
    BY <1>8, <2>2, <2>3, <2>4 DEF FlushCommit, TypeOK
<1>9. CASE StampPendingDownloads
  <2> DEFINE pending == {f \in Files : /\ DownloadPhase
                                       /\ Live(f) /\ rec[f].tid # "none"
                                       /\ rec[f].dl = "none"}
  <2>1. \A f \in Files : Stamped(rec[f]) \in Record
    BY RecordOps DEF TypeOK
  <2>2. Cardinality(pending) \in Nat
    BY FileCount
  <2> QED
    BY <1>9, <2>1, <2>2 DEF StampPendingDownloads, TypeOK, diskVars, flushVars
<1>10. CASE CloseStream
  BY <1>10 DEF CloseStream, TypeOK, ledgerVars, flushVars
<1>11. CASE ReleaseHeavyState \/ AbandonSeal
  BY <1>11 DEF ReleaseHeavyState, AbandonSeal, TypeOK, diskVars, flushVars
<1>12. ASSUME NEW d \in Readers, Read(d) PROVE TypeOK'
  <2> DEFINE R == [pc : {"idle", "tail", "done"}, file : SUBSET Files,
                   due : SUBSET Files, served : SUBSET Files]
  <2>1. UNCHANGED <<ledgerVars, diskVars, flushVars, sealVars>>
    BY <1>12 DEF Read, ReadStreamFile, WriteRemainingCSV, ReaderDone
  <2>2. \E r \in R : reader' = [reader EXCEPT ![d] = r]
    <3>1. reader[d] \in R
      BY DEF TypeOK
    <3>2. CASE ReadStreamFile(d)
      BY <3>2 DEF ReadStreamFile
    <3>3. CASE WriteRemainingCSV(d)
      BY <3>1, <3>3 DEF WriteRemainingCSV
    <3>4. CASE ReaderDone(d)
      BY <3>4 DEF ReaderDone
    <3> QED
      BY <1>12, <3>2, <3>3, <3>4 DEF Read
  <2>3. reader' \in [Readers -> R]
    BY <2>2 DEF TypeOK
  <2> QED
    BY <2>1, <2>3 DEF TypeOK, ledgerVars, diskVars, flushVars, sealVars
<1>13. CASE UNCHANGED storeVars
  BY <1>13 DEF storeVars, TypeOK
<1> QED
  BY <1>1, <1>2, <1>3, <1>4, <1>5, <1>6, <1>7, <1>8, <1>9, <1>10, <1>11, <1>12, <1>13
  DEF Next, Flush
-----------------------------------------------------------------------------
(* The invariants about the disk, all but LiveRecordsIndexed and the two   *)
(* that only the seal's own steps concern.                                 *)
DiskInv ==
  /\ CommitWritten
  /\ BatchUploaded
  /\ RowAccounted
  /\ NoRowYet
  /\ SnapSettled
  /\ ReleasedRowsOnDisk
  /\ OneRowPerFlusher
  /\ BackgroundRowsSettled

(* A step outside FlushFinalized: it touches neither the disk nor a batch, *)
(* and can at most add a record or close the stream.                       *)
Quiet ==
  /\ UNCHANGED <<csv, pc, batch, snap>>
  /\ stream' = stream \/ stream' # "open"
  /\ \A f \in Files : slot'[f] = slot[f] \/ (slot[f] = "absent" /\ slot'[f] = "live")

(* A step that touches neither the disk nor a flusher keeps the disk part. *)
LEMMA QuietStep == TypeOK /\ DiskInv /\ Quiet => DiskInv'
<1> SUFFICES ASSUME TypeOK, DiskInv, Quiet PROVE DiskInv'
  OBVIOUS
<1>1. \A w, f : RowBy(w, f)' = RowBy(w, f)
  BY DEF Quiet, RowBy
<1>2. CommitWritten' /\ BatchUploaded' /\ SnapSettled'
  BY DEF Quiet, DiskInv, TypeOK, CommitWritten, BatchUploaded, SnapSettled
<1>3. RowAccounted' /\ NoRowYet'
  BY <1>1 DEF Quiet, DiskInv, TypeOK, RowAccounted, NoRowYet
<1>4. ReleasedRowsOnDisk'
  BY DEF Quiet, DiskInv, ReleasedRowsOnDisk
<1>5. OneRowPerFlusher' /\ BackgroundRowsSettled'
  BY DEF Quiet, DiskInv, OneRowPerFlusher, BackgroundRowsSettled
<1> QED
  BY <1>2, <1>3, <1>4, <1>5 DEF DiskInv

(* What AppendRows does to the rows of a file: those on disk stay where    *)
(* they are, a written file gets exactly one more, and nothing else        *)
(* changes.                                                                *)
Appended(w, written, f) ==
  /\ \A i \in DOMAIN csv[f] : i \in DOMAIN csv'[f] /\ csv'[f][i] = csv[f][i]
  /\ \A i \in DOMAIN csv'[f] :
       \/ i \in DOMAIN csv[f]
       \/ /\ f \in written
          /\ i = Len(csv[f]) + 1
          /\ csv'[f][i] = [rec |-> snap[w][f], by |-> w]
  /\ f \in written => csv'[f] # <<>>
  /\ csv[f] # <<>> => csv'[f] # <<>>
  /\ Len(csv[f]) <= Len(csv'[f])

(* What the file holds after a batch was appended, row by row.             *)
LEMMA AppendedRows ==
  ASSUME TypeOK, NEW w \in Flushers, NEW written \in SUBSET Files,
         AppendRows(w, written)
  PROVE  \A f \in Files : Appended(w, written, f)
<1> TAKE f \in Files
<1> DEFINE row == [rec |-> snap[w][f], by |-> w]
<1>1. row \in Row
  BY DEF TypeOK, Row
<1>0. csv[f] \in Seq(Row)
  BY DEF TypeOK
<1>2. CASE f \notin written
  <2>1. csv'[f] = csv[f]
    BY <1>2 DEF AppendRows
  <2> QED
    BY <1>0, <1>2, <2>1 DEF Appended
<1>3. CASE f \in written
  <2>1. csv'[f] = Append(csv[f], row)
    BY <1>3 DEF AppendRows
  <2>2. /\ Len(csv'[f]) = Len(csv[f]) + 1 /\ Len(csv[f]) \in Nat
        /\ DOMAIN csv'[f] = 1 .. Len(csv[f]) + 1
        /\ DOMAIN csv[f] = 1 .. Len(csv[f])
        /\ csv'[f][Len(csv[f]) + 1] = row
        /\ \A i \in 1 .. Len(csv[f]) : csv'[f][i] = csv[f][i]
    BY <1>0, <1>1, <2>1
  <2>5. csv'[f] # <<>>
    BY <1>0, <1>1, <2>1
  <2> HIDE DEF row
  <2>6. /\ \A i \in DOMAIN csv[f] : i \in DOMAIN csv'[f] /\ csv'[f][i] = csv[f][i]
        /\ \A i \in DOMAIN csv'[f] : i \in DOMAIN csv[f] \/ i = Len(csv[f]) + 1
        /\ Len(csv[f]) <= Len(csv'[f])
    BY <2>2
  <2> QED
    BY <1>3, <2>2, <2>5, <2>6 DEF row, Appended
<1> QED
  BY <1>2, <1>3

(* The first critical section selects live records only, and what the      *)
(* background flusher selects is settled by isRecordFinal and its stamp.   *)
LEMMA CollectStep ==
  ASSUME TypeOK, DiskInv, NEW w \in Flushers, FlushCollect(w)
  PROVE  DiskInv'
<1>1. \A v, f : RowBy(v, f)' = RowBy(v, f)
  BY DEF FlushCollect, diskVars, RowBy
<1>2. /\ UNCHANGED <<slot, csv, stream>>
      /\ pc[w] = "idle"
      /\ pc'[w] \in {"idle", "write"} /\ batch'[w] = Selected(w)
      /\ snap'[w] = [f \in Files |-> IF f \in Selected(w) THEN Collected(w, f) ELSE Blank]
      /\ \A v \in Flushers \ {w} : pc'[v] = pc[v] /\ batch'[v] = batch[v] /\ snap'[v] = snap[v]
  BY DEF FlushCollect, diskVars, TypeOK
<1>3. Selected(w) \in SUBSET Files /\ \A f \in Selected(w) : slot[f] = "live"
  BY DEF Selected, Live
<1>4. CommitWritten' /\ BatchUploaded'
  BY <1>2, <1>3 DEF DiskInv, CommitWritten, BatchUploaded
<1>5. RowAccounted' /\ NoRowYet'
  BY <1>1, <1>2, <1>3 DEF DiskInv, RowAccounted, NoRowYet
<1>6. SnapSettled'
  <2>1. CASE w # "bg"
    BY <1>2, <2>1 DEF SnapSettled, DiskInv, Flushers
  <2>2. CASE w = "bg"
    <3>1. ASSUME DownloadPhase, NEW f \in Selected("bg")
          PROVE  ~SilentlyBlank(Collected("bg", f))
      <4>1. IsRecordFinal(f) /\ rec[f] \in Record
        BY <3>1 DEF Selected, TypeOK
      <4>2. CASE GivenUp(f)
        BY <4>1, <4>2 DEF Collected, Stamped, SilentlyBlank, Record
      <4>3. CASE ~GivenUp(f)
        BY <3>1, <4>1, <4>3 DEF Collected, GivenUp, IsRecordFinal, SilentlyBlank, Attached
      <4> QED
        BY <4>2, <4>3
    <3> QED
      BY <1>2, <1>3, <2>2, <3>1 DEF SnapSettled
  <2> QED
    BY <2>1, <2>2
<1>7. ReleasedRowsOnDisk' /\ OneRowPerFlusher' /\ BackgroundRowsSettled'
  BY <1>2 DEF DiskInv, ReleasedRowsOnDisk, OneRowPerFlusher, BackgroundRowsSettled
<1> QED
  BY <1>4, <1>5, <1>6, <1>7 DEF DiskInv

(* Writing a batch, whole or in part, on a stream that is still good: no   *)
(* file gets a second row from the same flusher, and the background's rows *)
(* are the settled ones it collected.                                      *)
LEMMA RowsStep ==
  ASSUME TypeOK, DiskInv, NEW w \in Flushers, pc[w] = "write",
         NEW written \in SUBSET batch[w], stream # "open" => written = {},
         AppendRows(w, written)
  PROVE  /\ OneRowPerFlusher'
         /\ BackgroundRowsSettled'
         /\ \A v \in Flushers, f \in Files :
              RowBy(v, f)' => RowBy(v, f) \/ (v = w /\ f \in written)
<1>1. \A f \in Files : Appended(w, written, f)
  BY AppendedRows DEF TypeOK
<1>2. ASSUME NEW f \in written PROVE ~RowBy(w, f)
  BY <1>2 DEF DiskInv, NoRowYet
<1>3. OneRowPerFlusher'
  <2> SUFFICES ASSUME NEW f \in Files, NEW i \in DOMAIN csv'[f], NEW j \in DOMAIN csv'[f],
                      csv'[f][i].by = csv'[f][j].by
               PROVE  i = j
    BY DEF OneRowPerFlusher
  <2>1. CASE i \in DOMAIN csv[f] /\ j \in DOMAIN csv[f]
    BY <1>1, <2>1 DEF Appended, DiskInv, OneRowPerFlusher
  <2>2. CASE i \notin DOMAIN csv[f] /\ j \notin DOMAIN csv[f]
    BY <1>1, <2>2 DEF Appended
  <2>3. ASSUME NEW k \in DOMAIN csv[f], NEW l \in DOMAIN csv'[f], l \notin DOMAIN csv[f]
        PROVE  csv'[f][k].by # csv'[f][l].by
    <3>1. f \in written /\ csv'[f][l] = [rec |-> snap[w][f], by |-> w]
      BY <1>1, <2>3 DEF Appended
    <3>2. csv'[f][k] = csv[f][k]
      BY <1>1 DEF Appended
    <3>3. csv[f][k].by # w
      BY <1>2, <3>1 DEF RowBy
    <3> QED
      BY <3>1, <3>2, <3>3
  <2> QED
    BY <2>1, <2>2, <2>3
<1>4. BackgroundRowsSettled'
  <2> SUFFICES ASSUME DownloadPhase, NEW f \in Files, NEW i \in DOMAIN csv'[f],
                      csv'[f][i].by = "bg"
               PROVE  ~SilentlyBlank(csv'[f][i].rec)
    BY DEF BackgroundRowsSettled, SilentlyBlank
  <2>1. CASE i \in DOMAIN csv[f]
    BY <1>1, <2>1 DEF Appended, DiskInv, BackgroundRowsSettled
  <2>2. CASE i \notin DOMAIN csv[f]
    <3>1. f \in written /\ csv'[f][i] = [rec |-> snap[w][f], by |-> w]
      BY <1>1, <2>2 DEF Appended
    <3>2. w = "bg" /\ csv'[f][i].rec = snap["bg"][f]
      BY <3>1
    <3> QED
      BY <3>1, <3>2 DEF DiskInv, SnapSettled
  <2> QED
    BY <2>1, <2>2
<1>5. ASSUME NEW v \in Flushers, NEW f \in Files, RowBy(v, f)',
             ~(v = w /\ f \in written)
      PROVE  RowBy(v, f)
  <2>1. PICK i \in DOMAIN csv'[f] : csv'[f][i].by = v
    BY <1>5 DEF RowBy
  <2>2. i \in DOMAIN csv[f]
    <3> SUFFICES ASSUME i \notin DOMAIN csv[f] PROVE FALSE
      OBVIOUS
    <3>1. f \in written /\ csv'[f][i] = [rec |-> snap[w][f], by |-> w]
      BY <1>1 DEF Appended
    <3>2. csv'[f][i].by = w
      BY <3>1
    <3> QED
      BY <1>5, <2>1, <3>1, <3>2
  <2> QED
    BY <1>1, <2>1, <2>2 DEF Appended, RowBy
<1> QED
  BY <1>3, <1>4, <1>5

(* A successful write of a batch keeps the disk part.                      *)
LEMMA WriteStep ==
  ASSUME TypeOK, DiskInv, NEW w \in Flushers, FlushWrite(w)
  PROVE  DiskInv'
<1>1. /\ UNCHANGED <<slot, stream, batch, snap>>
      /\ pc[w] = "write" /\ stream = "open" /\ pc' = [pc EXCEPT ![w] = "commit"]
      /\ AppendRows(w, batch[w])
  BY DEF FlushWrite, ledgerVars
<1>2. batch[w] \in SUBSET Files
  BY DEF TypeOK
<1>3. /\ OneRowPerFlusher' /\ BackgroundRowsSettled'
      /\ \A v \in Flushers, f \in Files :
           RowBy(v, f)' => RowBy(v, f) \/ (v = w /\ f \in batch[w])
  BY <1>1, RowsStep
<1>4. \A f \in Files : (csv[f] # <<>> => csv'[f] # <<>>)
                       /\ (f \in batch[w] => csv'[f] # <<>>)
  <2>1. \A f \in Files : Appended(w, batch[w], f)
    BY <1>1, <1>2, AppendedRows
  <2> QED
    BY <2>1 DEF Appended
<1>5. CommitWritten' /\ BatchUploaded' /\ SnapSettled' /\ ReleasedRowsOnDisk'
  BY <1>1, <1>2, <1>4 DEF DiskInv, TypeOK, CommitWritten, BatchUploaded, SnapSettled,
     ReleasedRowsOnDisk
<1>6. RowAccounted'
  BY <1>1, <1>2, <1>3 DEF DiskInv, TypeOK, RowAccounted
<1>7. NoRowYet'
  BY <1>1, <1>2, <1>3 DEF DiskInv, TypeOK, NoRowYet
<1> QED
  BY <1>3, <1>5, <1>6, <1>7 DEF DiskInv

(* A write that fails after any part of the batch keeps the disk part.     *)
LEMMA WriteFailsStep ==
  ASSUME TypeOK, DiskInv, NEW w \in Flushers, FlushWriteFails(w)
  PROVE  DiskInv'
<1>1. PICK written \in SUBSET batch[w] :
        (stream # "open" => written = {}) /\ AppendRows(w, written)
  BY DEF FlushWriteFails
<1>2. /\ UNCHANGED slot /\ stream' # "open"
      /\ pc[w] = "write" /\ pc'[w] = "idle" /\ batch'[w] = {}
      /\ \A v \in Flushers \ {w} : pc'[v] = pc[v] /\ batch'[v] = batch[v] /\ snap'[v] = snap[v]
  BY DEF FlushWriteFails, ledgerVars, TypeOK
<1>3. written \in SUBSET Files
  BY DEF TypeOK
<1>4. OneRowPerFlusher' /\ BackgroundRowsSettled'
  BY <1>1, <1>2, RowsStep
<1>5. \A f \in Files : csv[f] # <<>> => csv'[f] # <<>>
  BY <1>1, <1>3, AppendedRows DEF Appended
<1>6. CommitWritten' /\ BatchUploaded'
  <2>1. \A v \in Flushers : (batch'[v] = batch[v] /\ pc'[v] = pc[v]) \/ batch'[v] = {}
    BY <1>2
  <2>2. \A v \in Flushers : batch[v] \in SUBSET Files
    BY DEF TypeOK
  <2> QED
    BY <1>2, <1>5, <2>1, <2>2 DEF DiskInv, CommitWritten, BatchUploaded
<1>9. ReleasedRowsOnDisk'
  BY <1>2, <1>5 DEF DiskInv, ReleasedRowsOnDisk
<1>7. SnapSettled'
  BY <1>2 DEF DiskInv, SnapSettled, Flushers
<1>8. RowAccounted' /\ NoRowYet'
  BY <1>2 DEF RowAccounted, NoRowYet
<1> QED
  BY <1>4, <1>6, <1>7, <1>8, <1>9 DEF DiskInv

(* Releasing the written batch keeps the disk part.                        *)
LEMMA CommitStep ==
  ASSUME TypeOK, DiskInv, NEW w \in Flushers, FlushCommit(w)
  PROVE  DiskInv'
<1>1. /\ UNCHANGED <<csv, stream>>
      /\ pc[w] = "commit" /\ pc'[w] = "idle" /\ batch'[w] = {}
      /\ \A v \in Flushers \ {w} : pc'[v] = pc[v] /\ batch'[v] = batch[v] /\ snap'[v] = snap[v]
      /\ \A f \in Files : slot'[f] = IF f \in batch[w] /\ slot[f] = "live"
                                       THEN "nil" ELSE slot[f]
  BY DEF FlushCommit, TypeOK, Live
<1>2. \A v, f : RowBy(v, f)' = RowBy(v, f)
  BY <1>1 DEF RowBy
<1>3. \A f \in batch[w] : f \in Files /\ slot'[f] = "nil"
  BY <1>1 DEF DiskInv, BatchUploaded, TypeOK
<1>4. CommitWritten' /\ BatchUploaded'
  BY <1>1 DEF DiskInv, TypeOK, CommitWritten, BatchUploaded
<1>5. SnapSettled'
  BY <1>1 DEF DiskInv, SnapSettled, Flushers
<1>6. RowAccounted' /\ NoRowYet'
  BY <1>1, <1>2, <1>3 DEF DiskInv, RowAccounted, NoRowYet
<1>7. ReleasedRowsOnDisk'
  BY <1>1 DEF DiskInv, CommitWritten, ReleasedRowsOnDisk
<1>8. OneRowPerFlusher' /\ BackgroundRowsSettled'
  BY <1>1 DEF DiskInv, OneRowPerFlusher, BackgroundRowsSettled
<1> QED
  BY <1>4, <1>5, <1>6, <1>7, <1>8 DEF DiskInv
-----------------------------------------------------------------------------
(* Which steps of Next are quiet. *)
LEMMA NextQuiet ==
  ASSUME TypeOK, [Next]_storeVars, ~(\E w \in Flushers : Flush(w))
  PROVE  Quiet
<1>1. ASSUME NEW f \in Files, NEW u \in {"ok", "failed"}, AddUpload(f, u)
      PROVE  Quiet
  BY <1>1 DEF AddUpload, Quiet, TypeOK, diskVars, flushVars
<1>2. ASSUME NEW f \in Files, SettleTrackID(f) PROVE Quiet
  BY <1>2 DEF SettleTrackID, AttachTrackID, Quiet, diskVars, flushVars
<1>3. ASSUME NEW f \in Files, GraceExpires(f) PROVE Quiet
  BY <1>3 DEF GraceExpires, Quiet, diskVars, flushVars
<1>4. ASSUME NEW f \in Files, NEW o \in {"match", "mismatch", "error"},
             SettleDownload(f, o)
      PROVE  Quiet
  BY <1>4 DEF SettleDownload, AttachDownload, Quiet, diskVars, flushVars
<1>5. CASE StampPendingDownloads
  BY <1>5 DEF StampPendingDownloads, Quiet, diskVars, flushVars
<1>6. CASE CloseStream
  BY <1>6 DEF CloseStream, Quiet, ledgerVars, flushVars
<1>7. CASE ReleaseHeavyState \/ AbandonSeal
  BY <1>7 DEF ReleaseHeavyState, AbandonSeal, Quiet, diskVars, flushVars
<1>8. ASSUME NEW d \in Readers, Read(d) PROVE Quiet
  BY <1>8 DEF Read, ReadStreamFile, WriteRemainingCSV, ReaderDone, Quiet,
              ledgerVars, diskVars, flushVars
<1>9. CASE UNCHANGED storeVars
  BY <1>9 DEF storeVars, Quiet
<1> QED
  BY <1>1, <1>2, <1>3, <1>4, <1>5, <1>6, <1>7, <1>8, <1>9 DEF Next

(* The seal passes its phases in order, so nothing is added and no index   *)
(* entry of a live record dropped before the state is released.            *)
LEMMA IndexStep ==
  TypeOK /\ SealFlushPhase /\ LiveRecordsIndexed /\ [Next]_storeVars
    => SealFlushPhase' /\ LiveRecordsIndexed'
<1> SUFFICES ASSUME TypeOK, SealFlushPhase, LiveRecordsIndexed, [Next]_storeVars
             PROVE  SealFlushPhase' /\ LiveRecordsIndexed'
  OBVIOUS
<1> USE DEF SealFlushPhase, LiveRecordsIndexed, Released, Live
<1>1. ASSUME NEW f \in Files, NEW u \in {"ok", "failed"}, AddUpload(f, u)
      PROVE  SealFlushPhase' /\ LiveRecordsIndexed'
  BY <1>1 DEF AddUpload, TypeOK, diskVars, flushVars, sealVars
<1>2. ASSUME NEW f \in Files, SettleTrackID(f)
      PROVE  SealFlushPhase' /\ LiveRecordsIndexed'
  BY <1>2 DEF SettleTrackID, AttachTrackID, flushVars, sealVars
<1>3. ASSUME NEW f \in Files, GraceExpires(f)
      PROVE  SealFlushPhase' /\ LiveRecordsIndexed'
  BY <1>3 DEF GraceExpires, flushVars, sealVars
<1>4. ASSUME NEW f \in Files, NEW o \in {"match", "mismatch", "error"},
             SettleDownload(f, o)
      PROVE  SealFlushPhase' /\ LiveRecordsIndexed'
  BY <1>4 DEF SettleDownload, AttachDownload, flushVars, sealVars
<1>5. ASSUME NEW w \in Flushers, FlushCollect(w)
      PROVE  SealFlushPhase' /\ LiveRecordsIndexed'
  BY <1>5 DEF FlushCollect, TypeOK, Flushers
<1>6. ASSUME NEW w \in Flushers, FlushWrite(w)
      PROVE  SealFlushPhase' /\ LiveRecordsIndexed'
  BY <1>6 DEF FlushWrite, TypeOK, ledgerVars, sealVars, Flushers
<1>7. ASSUME NEW w \in Flushers, FlushWriteFails(w)
      PROVE  SealFlushPhase' /\ LiveRecordsIndexed'
  BY <1>7 DEF FlushWriteFails, TypeOK, ledgerVars, Flushers
<1>8. ASSUME NEW w \in Flushers, FlushCommit(w)
      PROVE  SealFlushPhase' /\ LiveRecordsIndexed'
  BY <1>8 DEF FlushCommit, TypeOK, Flushers
<1>9. CASE StampPendingDownloads
  BY <1>9 DEF StampPendingDownloads, flushVars
<1>10. CASE CloseStream
  BY <1>10 DEF CloseStream, ledgerVars, flushVars
<1>11. CASE ReleaseHeavyState \/ AbandonSeal
  BY <1>11 DEF ReleaseHeavyState, AbandonSeal, flushVars
<1>12. ASSUME NEW d \in Readers, Read(d)
       PROVE  SealFlushPhase' /\ LiveRecordsIndexed'
  BY <1>12 DEF Read, ReadStreamFile, WriteRemainingCSV, ReaderDone,
               ledgerVars, flushVars, sealVars
<1>13. CASE UNCHANGED storeVars
  BY <1>13 DEF storeVars
<1> QED
  BY <1>1, <1>2, <1>3, <1>4, <1>5, <1>6, <1>7, <1>8, <1>9, <1>10, <1>11, <1>12, <1>13
  DEF Next, Flush

(* Every step of the store keeps the invariant.                            *)
LEMMA StoreInvStep == StoreInv /\ [Next]_storeVars => StoreInv'
<1> SUFFICES ASSUME StoreInv, [Next]_storeVars PROVE StoreInv'
  OBVIOUS
<1>1. TypeOK /\ DiskInv /\ SealFlushPhase /\ LiveRecordsIndexed
  BY DEF StoreInv, DiskInv
<1>2. TypeOK'
  BY <1>1, TypeStep
<1>3. SealFlushPhase' /\ LiveRecordsIndexed'
  BY <1>1, IndexStep
<1>4. DiskInv'
  <2>1. CASE \E w \in Flushers : Flush(w)
    BY <1>1, <2>1, CollectStep, WriteStep, WriteFailsStep, CommitStep DEF Flush
  <2>2. CASE ~(\E w \in Flushers : Flush(w))
    BY <1>1, <2>2, NextQuiet, QuietStep
  <2> QED
    BY <2>1, <2>2
<1> QED
  BY <1>2, <1>3, <1>4 DEF StoreInv, DiskInv

(* Every behaviour of the store keeps the inductive invariant: the flush's *)
(* bookkeeping (batches, rows written, phase of the seal) stays consistent *)
(* under every interleaving of the goroutines that share it.               *)
THEOREM StoreInvariant == Spec => []StoreInv
<1>1. Init => StoreInv
  BY InitInv
<1>2. StoreInv /\ [Next]_storeVars => StoreInv'
  BY StoreInvStep
<1> QED
  BY <1>1, <1>2, PTL DEF Spec

(* The store's variables keep their types, and a batch never outlives the  *)
(* FlushFinalized call that collected it.                                  *)
THEOREM TypeCorrect == Spec => []TypeOK
<1>1. StoreInv => TypeOK
  BY DEF StoreInv
<1> QED
  BY <1>1, StoreInvariant, PTL

(* FlushFinalized never frees a record whose row is not on disk, for any   *)
(* number of files and any failure of the disk.                            *)
THEOREM NoRowLost == Spec => []ReleasedRowsOnDisk
<1>1. StoreInv => ReleasedRowsOnDisk
  BY DEF StoreInv
<1> QED
  BY <1>1, StoreInvariant, PTL

(* Until the run releases its state, a record in memory is reachable       *)
(* through the index, so an attach to it is never lost.                    *)
THEOREM LiveIndexed == Spec => []LiveRecordsIndexed
<1>1. StoreInv => LiveRecordsIndexed
  BY DEF StoreInv
<1> QED
  BY <1>1, StoreInvariant, PTL

(* A flusher writes a record's row at most once, retries after a failed    *)
(* write included.                                                         *)
THEOREM NoRowTwice == Spec => []OneRowPerFlusher
<1>1. StoreInv => OneRowPerFlusher
  BY DEF StoreInv
<1> QED
  BY <1>1, StoreInvariant, PTL

(* In a run with downloads no row of the background flusher has silently   *)
(* blank download columns.                                                 *)
THEOREM NoSilentBlank == Spec => []BackgroundRowsSettled
<1>1. StoreInv => BackgroundRowsSettled
  BY DEF StoreInv
<1> QED
  BY <1>1, StoreInvariant, PTL

(* The CSV file is append-only and a released record never returns.        *)
THEOREM AppendOnly == Spec => SealedForGood
<1> DEFINE Kept == \A f \in Files :
                     /\ slot[f] = "nil" => slot'[f] = "nil"
                     /\ Len(csv[f]) <= Len(csv'[f])
                     /\ \A i \in DOMAIN csv[f] : csv'[f][i] = csv[f][i]
<1>1. ASSUME TypeOK, [Next]_storeVars PROVE Kept
  <2>1. CASE ~(\E w \in Flushers : Flush(w))
    <3>1. Quiet
      BY <1>1, <2>1, NextQuiet
    <3>2. \A f \in Files : Len(csv[f]) \in Nat
      BY <1>1 DEF TypeOK
    <3> QED
      BY <3>1, <3>2 DEF Quiet
  <2>2. ASSUME NEW w \in Flushers, FlushCollect(w) PROVE Kept
    BY <1>1, <2>2 DEF FlushCollect, diskVars, TypeOK
  <2>3. ASSUME NEW w \in Flushers, NEW written \in SUBSET batch[w],
               AppendRows(w, written), UNCHANGED slot
        PROVE  Kept
    <3>1. written \in SUBSET Files
      BY <1>1 DEF TypeOK
    <3>2. \A f \in Files : Appended(w, written, f)
      BY <1>1, <2>3, <3>1, AppendedRows
    <3> QED
      BY <2>3, <3>2 DEF Appended
  <2>4. ASSUME NEW w \in Flushers, FlushWrite(w) PROVE Kept
    BY <2>3, <2>4 DEF FlushWrite, ledgerVars
  <2>5. ASSUME NEW w \in Flushers, FlushWriteFails(w) PROVE Kept
    BY <2>3, <2>5 DEF FlushWriteFails, ledgerVars
  <2>6. ASSUME NEW w \in Flushers, FlushCommit(w) PROVE Kept
    BY <1>1, <2>6 DEF FlushCommit, TypeOK
  <2> QED
    BY <2>1, <2>2, <2>4, <2>5, <2>6 DEF Flush
<1>2. TypeOK /\ [Next]_storeVars => [Kept]_storeVars
  BY <1>1
<1> QED
  BY <1>2, TypeCorrect, PTL DEF Spec, SealedForGood
-----------------------------------------------------------------------------
(* A match is recorded somewhere: in the record, in a flusher's copy of it *)
(* or in a row on disk.                                                    *)
MatchIn(f) ==
  \/ rec[f].hash = "match"
  \/ \E w \in Flushers : snap[w][f].hash = "match"
  \/ \E i \in DOMAIN csv[f] : csv[f][i].rec.hash = "match"

Matched == {f \in Files : MatchIn(f)}

(* MatchedRowsCounted is about rows only, which is not inductive: a row is *)
(* copied from a snapshot, and a snapshot from the record.                 *)
MatchesCounted == Cardinality(Matched) <= verified

(* Every file a live download was due to hold has a record.                *)
DueUploaded ==
  \A d \in Readers : reader[d].pc = "tail" => \A f \in reader[d].due : slot[f] # "absent"
-----------------------------------------------------------------------------
(* Copying, stamping and settling a record keep its HashMatch, and a new   *)
(* record has none.                                                        *)
LEMMA HashKept ==
  /\ \A r \in Record : Stamped(r).hash = r.hash /\ [r EXCEPT !.tid = "set"].hash = r.hash
  /\ \A u, t : Uploaded(u, t).hash = "none"
  /\ Blank.hash = "none"
  BY DEF Record, Stamped, Uploaded, Blank

(* Only an attach that compares equal hashes records a new match.          *)
LEMMA HashAttached ==
  ASSUME NEW r \in Record, NEW o \in {"match", "mismatch", "error"},
         DownloadedAs(r, o).hash = "match"
  PROVE  r.hash = "match" \/ (Hashed(r, o) /\ o = "match")
  BY DEF Record, DownloadedAs, Hashed

(* A set of files that does not grow, and a counter that does not shrink.  *)
LEMMA CountKept ==
  ASSUME TypeOK, MatchesCounted, Matched' \subseteq Matched, verified' = verified
  PROVE  MatchesCounted'
<1>1. IsFiniteSet(Matched)
  BY FS_Subset, StoreAssumption DEF Matched
<1>2. IsFiniteSet(Matched') /\ Cardinality(Matched') <= Cardinality(Matched)
  BY <1>1, FS_Subset
<1>3. Cardinality(Matched) \in Nat /\ Cardinality(Matched') \in Nat
  BY <1>1, <1>2, FS_CardinalityType
<1>4. Cardinality(Matched') <= verified'
  BY <1>2, <1>3 DEF MatchesCounted, TypeOK
<1> QED
  BY <1>4 DEF MatchesCounted

(* One more file, and one more on the counter.                             *)
LEMMA CountGrows ==
  ASSUME MatchesCounted, TypeOK, NEW f \in Files, Matched' \subseteq Matched \union {f},
         verified' = verified + 1
  PROVE  MatchesCounted'
<1>1. IsFiniteSet(Matched)
  BY FS_Subset, StoreAssumption DEF Matched
<1>2. /\ IsFiniteSet(Matched \union {f})
      /\ Cardinality(Matched \union {f}) \in {Cardinality(Matched), Cardinality(Matched) + 1}
  BY <1>1, FS_AddElement
<1>3. IsFiniteSet(Matched') /\ Cardinality(Matched') <= Cardinality(Matched \union {f})
  BY <1>2, FS_Subset
<1>4. Cardinality(Matched) \in Nat /\ Cardinality(Matched') \in Nat
  BY <1>1, <1>3, FS_CardinalityType
<1>5. Cardinality(Matched') <= verified'
  BY <1>2, <1>3, <1>4 DEF MatchesCounted, TypeOK
<1> QED
  BY <1>5 DEF MatchesCounted

(* A step that leaves every recorded HashMatch where it was, or erases it. *)
Unmatched ==
  /\ verified' = verified
  /\ \A f \in Files :
       /\ rec'[f].hash = "match" => rec[f].hash = "match"
       /\ \A w \in Flushers : snap'[w][f].hash = "match" =>
            rec[f].hash = "match" \/ snap[w][f].hash = "match"
       /\ \A i \in DOMAIN csv'[f] : csv'[f][i].rec.hash = "match" => MatchIn(f)

(* Such a step keeps the count.                                            *)
LEMMA UnmatchedStep == TypeOK /\ MatchesCounted /\ Unmatched => MatchesCounted'
<1> SUFFICES ASSUME TypeOK, MatchesCounted, Unmatched PROVE MatchesCounted'
  OBVIOUS
<1>1. ASSUME NEW f \in Files, MatchIn(f)' PROVE MatchIn(f)
  <2>1. CASE rec'[f].hash = "match"
    BY <2>1 DEF Unmatched, MatchIn
  <2>2. CASE \E w \in Flushers : snap'[w][f].hash = "match"
    BY <2>2 DEF Unmatched, MatchIn
  <2>3. CASE \E i \in DOMAIN csv'[f] : csv'[f][i].rec.hash = "match"
    BY <2>3 DEF Unmatched
  <2> QED
    BY <1>1, <2>1, <2>2, <2>3 DEF MatchIn
<1>2. Matched' \subseteq Matched
  BY <1>1 DEF Matched
<1> QED
  BY <1>2, CountKept DEF Unmatched

(* Rows appended from a snapshot add no match of their own.                *)
LEMMA RowsUnmatched ==
  ASSUME TypeOK, NEW w \in Flushers, NEW written \in SUBSET Files, AppendRows(w, written),
         NEW f \in Files, NEW i \in DOMAIN csv'[f], csv'[f][i].rec.hash = "match"
  PROVE  MatchIn(f)
<1>1. Appended(w, written, f)
  BY AppendedRows
<1>2. CASE i \in DOMAIN csv[f]
  BY <1>1, <1>2 DEF Appended, MatchIn
<1>3. CASE i \notin DOMAIN csv[f]
  <2>1. csv'[f][i] = [rec |-> snap[w][f], by |-> w]
    BY <1>1, <1>3 DEF Appended
  <2>2. csv'[f][i].rec = snap[w][f]
    BY <2>1
  <2> QED
    BY <2>2 DEF MatchIn
<1> QED
  BY <1>2, <1>3

(* The counter of matches keeps up with every step of the store: only the  *)
(* attach adds one, and it counts it in the same critical section.         *)
LEMMA MatchStep == TypeOK /\ MatchesCounted /\ [Next]_storeVars => MatchesCounted'
<1> SUFFICES ASSUME TypeOK, MatchesCounted, [Next]_storeVars PROVE MatchesCounted'
  OBVIOUS
<1>0. \A f \in Files : rec[f] \in Record
  BY DEF TypeOK
<1>1. ASSUME NEW f \in Files, NEW u \in {"ok", "failed"}, AddUpload(f, u)
      PROVE  Unmatched
  <2>1. PICK t : rec' = [rec EXCEPT ![f] = Uploaded(u, t)]
    BY <1>1 DEF AddUpload
  <2>2. Uploaded(u, t).hash = "none"
    BY HashKept
  <2>3. \A g \in Files : rec'[g] = rec[g] \/ rec'[g].hash = "none"
    BY <2>1, <2>2 DEF TypeOK
  <2> QED
    BY <1>1, <2>3 DEF AddUpload, Unmatched, MatchIn, diskVars, flushVars
<1>2. ASSUME NEW f \in Files, SettleTrackID(f) PROVE Unmatched
  <2>1. PICK r : r = [rec[f] EXCEPT !.tid = "set"]
    OBVIOUS
  <2>2. r.hash = rec[f].hash
    BY <1>0, <2>1, HashKept
  <2>3. rec' = [rec EXCEPT ![f] = r] \/ rec' = rec
    BY <1>2, <2>1 DEF SettleTrackID, AttachTrackID
  <2>4. \A g \in Files : rec'[g].hash = rec[g].hash
    BY <2>2, <2>3 DEF TypeOK
  <2> QED
    BY <1>2, <2>4 DEF SettleTrackID, AttachTrackID, Unmatched, MatchIn, diskVars, flushVars
<1>3. ASSUME NEW f \in Files, GraceExpires(f) PROVE Unmatched
  BY <1>3 DEF GraceExpires, Unmatched, MatchIn, diskVars, flushVars
<1>4. ASSUME NEW f \in Files, NEW o \in {"match", "mismatch", "error"},
             SettleDownload(f, o)
      PROVE  MatchesCounted'
  <2>1. PICK r : r = DownloadedAs(rec[f], o)
    OBVIOUS
  <2>2. r.hash = "match" => rec[f].hash = "match" \/ (Hashed(rec[f], o) /\ o = "match")
    BY <1>0, <2>1, HashAttached
  <2>3. UNCHANGED <<csv, snap>>
    BY <1>4 DEF SettleDownload, AttachDownload, diskVars, flushVars
  <2>4. CASE CanAttach(f) /\ Hashed(rec[f], o) /\ o = "match"
    <3>1. verified' = verified + 1 /\ \A g \in Files \ {f} : rec'[g] = rec[g]
      BY <1>4, <2>4 DEF SettleDownload, AttachDownload, TypeOK
    <3>2. Matched' \subseteq Matched \union {f}
      BY <2>3, <3>1 DEF Matched, MatchIn
    <3> QED
      BY <3>1, <3>2, CountGrows
  <2>5. CASE ~(CanAttach(f) /\ Hashed(rec[f], o) /\ o = "match")
    <3>1. verified' = verified /\ (rec' = rec \/ (CanAttach(f) /\ rec' = [rec EXCEPT ![f] = r]))
      BY <1>4, <2>1, <2>5 DEF SettleDownload, AttachDownload
    <3>2. \A g \in Files : rec'[g].hash = "match" => rec[g].hash = "match"
      BY <2>2, <2>5, <3>1 DEF TypeOK
    <3>3. Unmatched
      BY <2>3, <3>1, <3>2 DEF Unmatched, MatchIn
    <3> QED
      BY <3>3, UnmatchedStep
  <2> QED
    BY <2>4, <2>5
<1>5. ASSUME NEW w \in Flushers, FlushCollect(w) PROVE Unmatched
  <2>1. \A f \in Files : Collected(w, f).hash = rec[f].hash
    BY <1>0, HashKept DEF Collected
  <2>2. \A f \in Files : rec'[f].hash = rec[f].hash
    BY <1>5, <2>1 DEF FlushCollect
  <2>3. /\ \A v \in Flushers \ {w} : snap'[v] = snap[v]
        /\ snap'[w] = [f \in Files |-> IF f \in Selected(w) THEN Collected(w, f) ELSE Blank]
    BY <1>5 DEF FlushCollect, TypeOK
  <2>4. \A f \in Files : snap'[w][f].hash = "match" => rec[f].hash = "match"
    BY <2>1, <2>3, HashKept
  <2>5. UNCHANGED <<csv, verified>>
    BY <1>5 DEF FlushCollect, diskVars
  <2> QED
    BY <2>2, <2>3, <2>4, <2>5 DEF Unmatched, MatchIn
<1>6. ASSUME NEW w \in Flushers, FlushWrite(w) PROVE Unmatched
  <2>1. UNCHANGED <<rec, verified, snap>>
    BY <1>6 DEF FlushWrite, ledgerVars
  <2>2. \A f \in Files : \A i \in DOMAIN csv'[f] : csv'[f][i].rec.hash = "match" => MatchIn(f)
    BY <1>6, RowsUnmatched DEF FlushWrite, TypeOK
  <2> QED
    BY <2>1, <2>2 DEF Unmatched
<1>7. ASSUME NEW w \in Flushers, FlushWriteFails(w) PROVE Unmatched
  <2>1. UNCHANGED <<rec, verified>>
    BY <1>7 DEF FlushWriteFails, ledgerVars
  <2>2. PICK written \in SUBSET batch[w] : AppendRows(w, written)
    BY <1>7 DEF FlushWriteFails
  <2>3. \A f \in Files : \A i \in DOMAIN csv'[f] : csv'[f][i].rec.hash = "match" => MatchIn(f)
    BY <2>2, RowsUnmatched DEF TypeOK
  <2>4. \A v \in Flushers, f \in Files : snap'[v][f] = snap[v][f] \/ snap'[v][f].hash = "none"
    BY <1>7, HashKept DEF FlushWriteFails, TypeOK
  <2> QED
    BY <2>1, <2>3, <2>4 DEF Unmatched
<1>8. ASSUME NEW w \in Flushers, FlushCommit(w) PROVE Unmatched
  <2>1. UNCHANGED <<csv, verified>>
    BY <1>8 DEF FlushCommit
  <2>2. \A v \in Flushers, f \in Files : snap'[v][f] = snap[v][f] \/ snap'[v][f].hash = "none"
    BY <1>8, HashKept DEF FlushCommit, TypeOK
  <2>3. \A f \in Files : rec'[f] = rec[f] \/ rec'[f].hash = "none"
    BY <1>8, HashKept DEF FlushCommit
  <2> QED
    BY <2>1, <2>2, <2>3 DEF Unmatched, MatchIn
<1>9. ASSUME StampPendingDownloads PROVE Unmatched
  <2>1. \A f \in Files : rec'[f].hash = rec[f].hash
    BY <1>0, <1>9, HashKept DEF StampPendingDownloads
  <2>2. UNCHANGED <<snap, csv, verified>>
    BY <1>9 DEF StampPendingDownloads, diskVars, flushVars
  <2> QED
    BY <2>1, <2>2 DEF Unmatched, MatchIn
<1>10. ASSUME UNCHANGED <<rec, snap, csv, verified>> PROVE Unmatched
  BY <1>10 DEF Unmatched, MatchIn
<1>11. ASSUME CloseStream \/ ReleaseHeavyState \/ AbandonSeal \/ (\E d \in Readers : Read(d))
       PROVE  Unmatched
  <2>1. UNCHANGED <<rec, snap, csv, verified>>
    BY <1>11 DEF CloseStream, ReleaseHeavyState, AbandonSeal, Read, ReadStreamFile, WriteRemainingCSV,
       ReaderDone, ledgerVars, diskVars, flushVars
  <2> QED
    BY <1>10, <2>1
<1>12. ASSUME UNCHANGED storeVars PROVE Unmatched
  BY <1>10, <1>12 DEF storeVars
<1> QED
  BY <1>1, <1>2, <1>3, <1>4, <1>5, <1>6, <1>7, <1>8, <1>9, <1>11, <1>12, UnmatchedStep
  DEF Next, Flush

(* Only the readers' own steps change what a live download holds; the      *)
(* others never take back a record or a row.                               *)
LEMMA ReaderStep ==
  StoreInv /\ DueUploaded /\ MissedRowsOnDisk /\ [Next]_storeVars
    => DueUploaded' /\ MissedRowsOnDisk'
<1> SUFFICES ASSUME StoreInv, DueUploaded, MissedRowsOnDisk, [Next]_storeVars
             PROVE  DueUploaded' /\ MissedRowsOnDisk'
  OBVIOUS
<1>0. TypeOK /\ ReleasedRowsOnDisk
  BY DEF StoreInv
<1>1. ASSUME UNCHANGED reader
      PROVE  DueUploaded' /\ MissedRowsOnDisk'
  <2>1. \A f \in Files : /\ slot[f] # "absent" => slot'[f] # "absent"
                         /\ csv[f] # <<>> => csv'[f] # <<>>
    <3>1. CASE ~(\E w \in Flushers : Flush(w))
      BY <1>0, <3>1, NextQuiet DEF Quiet
    <3>2. ASSUME NEW w \in Flushers, NEW written \in SUBSET batch[w], AppendRows(w, written)
          PROVE  \A f \in Files : csv[f] # <<>> => csv'[f] # <<>>
      BY <1>0, <3>2, AppendedRows DEF TypeOK, Appended
    <3>3. ASSUME NEW w \in Flushers, Flush(w)
          PROVE  \A f \in Files : csv[f] # <<>> => csv'[f] # <<>>
      BY <3>2, <3>3 DEF Flush, FlushCollect, FlushWrite, FlushWriteFails, FlushCommit, diskVars
    <3>4. ASSUME NEW w \in Flushers, Flush(w)
          PROVE  \A f \in Files : slot[f] # "absent" => slot'[f] # "absent"
      BY <3>4 DEF Flush, FlushCollect, FlushWrite, FlushWriteFails, FlushCommit, ledgerVars
    <3> QED
      BY <3>1, <3>3, <3>4
  <2>2. \A d \in Readers : reader[d].due \subseteq Files
    BY <1>0 DEF TypeOK
  <2>3. DueUploaded'
    BY <1>1, <2>1, <2>2 DEF DueUploaded
  <2>4. MissedRowsOnDisk'
    BY <1>1, <2>1, <2>2 DEF MissedRowsOnDisk
  <2> QED
    BY <2>3, <2>4
<1>2. ASSUME NEW d \in Readers, Read(d)
      PROVE  DueUploaded' /\ MissedRowsOnDisk'
  <2>1. UNCHANGED <<slot, csv>>
    BY <1>2 DEF Read, ReadStreamFile, WriteRemainingCSV, ReaderDone, ledgerVars, diskVars
  <2>2. \A e \in Readers \ {d} : reader'[e] = reader[e]
    BY <1>0, <1>2 DEF Read, ReadStreamFile, WriteRemainingCSV, ReaderDone, TypeOK
  <2>3. /\ reader'[d].pc = "tail" => \A f \in reader'[d].due : slot[f] # "absent"
        /\ reader'[d].pc = "done" =>
             \A f \in reader'[d].due \ reader'[d].served : csv[f] # <<>>
    <3>1. CASE ReadStreamFile(d)
      BY <1>0, <3>1 DEF ReadStreamFile, TypeOK
    <3>2. CASE WriteRemainingCSV(d)
      <4>1. /\ reader[d].pc = "tail" /\ reader'[d].pc = "done"
            /\ reader'[d].due = reader[d].due
            /\ reader'[d].served = reader[d].file \union {f \in Files : Live(f)}
        BY <1>0, <3>2 DEF WriteRemainingCSV, TypeOK
      <4>2. ASSUME NEW f \in reader'[d].due \ reader'[d].served PROVE csv[f] # <<>>
        <5>1. f \in Files /\ slot[f] # "absent" /\ ~Live(f)
          BY <1>0, <4>1, <4>2 DEF DueUploaded, TypeOK
        <5> QED
          BY <1>0, <5>1 DEF Live, TypeOK, ReleasedRowsOnDisk
      <4> QED
        BY <4>1, <4>2
    <3>3. CASE ReaderDone(d)
      BY <1>0, <3>3 DEF ReaderDone, TypeOK
    <3> QED
      BY <1>2, <3>1, <3>2, <3>3 DEF Read
  <2>4. DueUploaded'
    BY <2>1, <2>2, <2>3 DEF DueUploaded
  <2>5. MissedRowsOnDisk'
    BY <2>1, <2>2, <2>3 DEF MissedRowsOnDisk
  <2> QED
    BY <2>4, <2>5
<1>3. UNCHANGED reader \/ (\E d \in Readers : Read(d))
  BY DEF Next, AddUpload, SettleTrackID, AttachTrackID, GraceExpires, SettleDownload,
     AttachDownload, Flush, FlushCollect, FlushWrite, FlushWriteFails, FlushCommit,
     StampPendingDownloads, CloseStream, ReleaseHeavyState, AbandonSeal, storeVars
<1> QED
  BY <1>1, <1>2, <1>3

(* For any number of files and attaches: HashVerified in the run's meta is *)
(* never less than the number of rows that say the hashes matched.         *)
THEOREM MatchesNeverUncounted == Spec => []MatchedRowsCounted
<1>1. Init => MatchesCounted
  <2>1. ASSUME Init PROVE Matched = {}
    BY <2>1, HashKept DEF Init, Matched, MatchIn
  <2>2. ASSUME Init PROVE Cardinality(Matched) <= verified
    <3>1. Cardinality(Matched) = 0
      BY <2>1, <2>2, FS_EmptySet
    <3> QED
      BY <2>2, <3>1 DEF Init
  <2> QED
    BY <2>2 DEF MatchesCounted
<1>2. TypeOK /\ MatchesCounted => MatchedRowsCounted
  <2> SUFFICES ASSUME TypeOK, MatchesCounted PROVE MatchedRowsCounted
    OBVIOUS
  <2> DEFINE R == {f \in Files : \E i \in DOMAIN csv[f] : csv[f][i].rec.hash = "match"}
  <2>1. R \subseteq Matched /\ IsFiniteSet(Matched)
    BY FS_Subset, StoreAssumption DEF Matched, MatchIn
  <2>2. IsFiniteSet(R) /\ Cardinality(R) <= Cardinality(Matched)
    BY <2>1, FS_Subset
  <2>3. Cardinality(R) \in Nat /\ Cardinality(Matched) \in Nat
    BY <2>1, <2>2, FS_CardinalityType
  <2> HIDE DEF R
  <2>4. Cardinality(R) <= verified
    BY <2>2, <2>3 DEF MatchesCounted, TypeOK
  <2> QED
    BY <2>4 DEF R, MatchedRowsCounted
<1> QED
  BY <1>1, <1>2, MatchStep, TypeCorrect, PTL DEF Spec

(* A record a live download should have held and did not is on disk: the   *)
(* flush that moved it between the handler's two halves wrote it first.    *)
THEOREM MissedAreOnDisk == Spec => []MissedRowsOnDisk
<1>1. Init => DueUploaded /\ MissedRowsOnDisk
  BY DEF Init, DueUploaded, MissedRowsOnDisk
<1> QED
  BY <1>1, ReaderStep, StoreInvariant, PTL DEF Spec
=============================================================================
