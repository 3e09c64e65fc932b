-------------------------- MODULE RunArchiveProofs --------------------------
(***************************************************************************)
(* For any runs, rows and crashes: every interrupted run is recovered at the *)
(* next boot, a listing misses no run, and the reports directory implements  *)
(* RunHistory.  For any follow-ups and failing writes of the diagnosis log   *)
(* kept beside the reports: a prompt holds its whole thread.                 *)
(***************************************************************************)
EXTENDS RunArchive, RunDoctor, FiniteSetTheorems, SequenceTheorems, WellFoundedInduction, TLAPS

Stages == {"idle", "running", "flushed", "trailed", "renaming", "sealed", "evicted", "dead"}

\* Before its rename, or a failed write, nothing has sealed a run.
Unsealed == {"idle", "running", "flushed", "trailed", "renaming"}

ArchTypes ==
    /\ process \in {"up", "down", "recovering"}
    /\ stage \in [ArchRuns -> Stages]
    /\ finished \in [ArchRuns -> Seq({"ok", "failed"})]
    /\ onDiskRows \in [ArchRuns -> Nat]
    /\ csvFile \in [ArchRuns -> Seq(Rows) \cup {NoMeta}]
    /\ meta \in [ArchRuns -> Metas \cup {NoMeta}]
    /\ \A r \in ArchRuns : onDiskRows[r] <= Len(finished[r])

\* A run has a CSV from its start on, and no meta before its seal.
FilesFollowStage ==
    \A r \in ArchRuns : /\ stage[r] = "idle" <=> csvFile[r] = NoMeta
                        /\ stage[r] \in Unsealed => meta[r] = NoMeta

\* Runs are in memory only while the process is up, and what recovery has
\* still to look at has no meta.
RecoveryFormed ==
    /\ process # "up" => \A r \in ArchRuns : stage[r] \notin InMemory
    /\ process # "recovering" => toRecover = {}
    /\ \A r \in toRecover : r \in ArchRuns /\ csvFile[r] # NoMeta /\ meta[r] = NoMeta

\* The recovery under way covers every dead run with rows and no meta.
RecoveryCovers ==
    process # "down" =>
        \A r \in ArchRuns :
            (stage[r] = "dead" /\ DataRows(csvFile[r]) # <<>>)
                => meta[r] # NoMeta \/ r \in unwritten \/ r \in toRecover

\* What a listing owes is in the half it has read or still on disk.
ListingCovers ==
    /\ lister \in [pc : {"idle", "disk", "done"}, live : SUBSET ArchRuns,
                   due : SUBSET ArchRuns, reply : SUBSET ArchRuns]
    /\ lister.pc = "disk" => lister.due \subseteq lister.live \cup OnDisk
    /\ lister.pc = "done" => lister.due \subseteq lister.reply

ArchInv == ArchTypes /\ FilesFollowStage /\ RecoveryFormed /\ RecoveryCovers

-----------------------------------------------------------------------------
\* A count of rows is a number.
LEMMA CountType ==
  ASSUME NEW S, NEW rows \in Seq(S), NEW kinds
  PROVE  Count(rows, kinds) \in Nat
<1>1. Len(rows) \in Nat /\ DOMAIN rows = 1..Len(rows) OBVIOUS
<1>2. IsFiniteSet(1..Len(rows)) BY <1>1, FS_Interval
<1>3. {i \in DOMAIN rows : rows[i] \in kinds} \subseteq 1..Len(rows) BY <1>1
<1>4. IsFiniteSet({i \in DOMAIN rows : rows[i] \in kinds}) BY <1>2, <1>3, FS_Subset
<1> QED BY <1>4, FS_CardinalityType DEF Count

\* What the seal writes is metadata.
LEMMA SealedMetaType ==
  ASSUME ArchTypes, NEW r \in ArchRuns
  PROVE  SealedMeta(r) \in Metas
<1>1. finished[r] \in Seq({"ok", "failed"}) BY DEF ArchTypes
<1>2. Count(finished[r], {"ok"}) \in Nat /\ Count(finished[r], {"failed"}) \in Nat
  BY <1>1, CountType
<1> QED BY <1>2 DEF SealedMeta, Metas

\* What recovery reads off a CSV is metadata.
LEMMA RecoveredMetaType ==
  ASSUME NEW rows \in Seq(Rows)
  PROVE  RecoveredMeta(rows) \in Metas
<1>1. Count(rows, Rows \ {"trailer", "broken"}) \in Nat /\ Count(rows, {"failed"}) \in Nat
  BY CountType
<1> QED BY <1>1 DEF RecoveredMeta, Metas

\* The unflushed rows are rows.
LEMMA PendingType ==
  ASSUME ArchTypes, NEW r \in ArchRuns
  PROVE  Pending(r) \in Seq(Rows)
<1>1. finished[r] \in Seq({"ok", "failed"}) /\ onDiskRows[r] \in Nat BY DEF ArchTypes
<1>2. Len(finished[r]) \in Nat BY <1>1
<1>3. finished[r] \in Seq(Rows) BY <1>1 DEF Rows
<1>4. \A i \in (onDiskRows[r] + 1)..Len(finished[r]) : finished[r][i] \in Rows BY <1>1, <1>3
<1> QED BY <1>1, <1>2, <1>3, <1>4 DEF Pending

-----------------------------------------------------------------------------
\* A step of run r that is up, from stage s to stage t, neither of which is
\* "dead", that may write to r's CSV but to no meta.
LEMMA RunSteps ==
  ASSUME ArchInv, NEW r \in ArchRuns, process = "up", UNCHANGED process,
         stage[r] # "dead",
         NEW t \in Stages \ {"dead"}, stage' = [stage EXCEPT ![r] = t],
         t \in Unsealed => stage[r] \in Unsealed, t # "idle",
         NEW c \in Seq(Rows), csvFile' = [csvFile EXCEPT ![r] = c],
         finished' \in [ArchRuns -> Seq({"ok", "failed"})],
         onDiskRows' \in [ArchRuns -> Nat],
         \A q \in ArchRuns : onDiskRows'[q] <= Len(finished'[q]),
         unwritten \subseteq unwritten', UNCHANGED <<meta, toRecover>>
  PROVE  ArchInv'
<1>1. ArchTypes' BY DEF ArchInv, ArchTypes
<1>2. c # NoMeta BY NoMetaAssumption
<1>3. ASSUME NEW q \in ArchRuns
      PROVE  /\ stage'[q] = IF q = r THEN t ELSE stage[q]
             /\ csvFile'[q] = IF q = r THEN c ELSE csvFile[q]
  BY DEF ArchInv, ArchTypes
<1>4. FilesFollowStage' BY <1>2, <1>3 DEF ArchInv, FilesFollowStage
<1>5. toRecover = {} BY DEF ArchInv, RecoveryFormed
<1>6. RecoveryFormed' BY <1>5 DEF RecoveryFormed
<1>7. RecoveryCovers'
  <2> SUFFICES ASSUME NEW q \in ArchRuns, stage'[q] = "dead", DataRows(csvFile'[q]) # <<>>
               PROVE  meta'[q] # NoMeta \/ q \in unwritten' \/ q \in toRecover'
    BY DEF RecoveryCovers
  <2>1. q # r /\ stage[q] = "dead" /\ csvFile'[q] = csvFile[q] BY <1>3
  <2> QED BY <2>1 DEF ArchInv, RecoveryCovers
<1> QED BY <1>1, <1>4, <1>6, <1>7 DEF ArchInv

\* Stream, files, flush and trailer of a run.
LEMMA WritesKeep ==
  ASSUME ArchInv, NEW r \in ArchRuns,
         \/ RunOpens(r) \/ (\E o \in {"ok", "failed"} : FileFinishes(r, o))
         \/ BackgroundFlush(r) \/ SealFlush(r) \/ SealTrailer(r)
  PROVE  ArchInv'
<1> USE DEF ArchInv
<1>1. /\ stage[r] \in Stages
      /\ stage[r] # "idle" => csvFile[r] \in Seq(Rows)
      /\ csvFile = [csvFile EXCEPT ![r] = csvFile[r]]
      /\ stage = [stage EXCEPT ![r] = stage[r]]
  BY DEF ArchTypes, FilesFollowStage
<1>2. /\ \A q \in ArchRuns : onDiskRows[q] <= Len(finished[q])
      /\ finished \in [ArchRuns -> Seq({"ok", "failed"})]
      /\ onDiskRows \in [ArchRuns -> Nat]
  BY DEF ArchTypes
<1>3. CASE RunOpens(r)
  <2>1. <<>> \in Seq(Rows) /\ "running" \in Stages \ {"dead"} BY DEF Stages
  <2> QED BY <1>2, <1>3, <2>1, RunSteps DEF RunOpens, Unsealed
<1>4. CASE \E o \in {"ok", "failed"} : FileFinishes(r, o)
  <2>1. PICK o \in {"ok", "failed"} : FileFinishes(r, o) BY <1>4
  <2>2. Append(finished[r], o) \in Seq({"ok", "failed"})
        /\ Len(Append(finished[r], o)) = Len(finished[r]) + 1
    BY <1>2
  <2>3. finished' \in [ArchRuns -> Seq({"ok", "failed"})]
        /\ \A q \in ArchRuns : onDiskRows[q] <= Len(finished'[q])
    BY <1>2, <2>1, <2>2 DEF FileFinishes
  <2>4. stage[r] = "running" /\ csvFile[r] \in Seq(Rows) BY <1>1, <2>1 DEF FileFinishes
  <2>5. /\ stage' = [stage EXCEPT ![r] = "running"]
        /\ csvFile' = [csvFile EXCEPT ![r] = csvFile[r]]
        /\ process = "up" /\ UNCHANGED <<process, onDiskRows, meta, toRecover, unwritten>>
    BY <1>1, <2>1, <2>4 DEF FileFinishes, archFiles
  <2>6. "running" \in Stages \ {"dead"} BY DEF Stages
  <2> QED BY <1>2, <2>3, <2>4, <2>5, <2>6, RunSteps DEF Unsealed
<1> DEFINE flushed == csvFile[r] \o Pending(r)
<1>5. ASSUME stage[r] = "running" PROVE flushed \in Seq(Rows)
  BY <1>1, <1>5, PendingType
<1>6. ASSUME FlushRows(r)
      PROVE  /\ csvFile' = [csvFile EXCEPT ![r] = flushed]
             /\ onDiskRows' \in [ArchRuns -> Nat]
             /\ \A q \in ArchRuns : onDiskRows'[q] <= Len(finished[q])
  BY <1>2, <1>6 DEF FlushRows
<1>7. CASE BackgroundFlush(r)
  <2>1. stage[r] = "running" /\ stage' = [stage EXCEPT ![r] = "running"]
        /\ FlushRows(r) /\ process = "up" /\ UNCHANGED <<process, finished, meta, toRecover, unwritten>>
    BY <1>1, <1>7 DEF BackgroundFlush
  <2>2. "running" \in Stages \ {"dead"} BY DEF Stages
  <2> QED BY <1>2, <1>5, <1>6, <2>1, <2>2, RunSteps DEF Unsealed
<1>8. CASE SealFlush(r)
  <2>1. stage[r] = "running" /\ stage' = [stage EXCEPT ![r] = "flushed"]
        /\ process = "up" /\ UNCHANGED <<process, finished, meta, toRecover, unwritten>>
    BY <1>8 DEF SealFlush
  <2>2. "flushed" \in Stages \ {"dead"} /\ csvFile[r] \in Seq(Rows) BY <1>1, <2>1 DEF Stages
  <2>3. CASE FlushRows(r) BY <1>2, <1>5, <1>6, <2>1, <2>2, <2>3, RunSteps DEF Unsealed
  <2>4. CASE UNCHANGED <<csvFile, onDiskRows>>
    <3>1. csvFile' = [csvFile EXCEPT ![r] = csvFile[r]] BY <1>1, <2>4
    <3> QED BY <1>2, <2>1, <2>2, <2>4, <3>1, RunSteps DEF Unsealed
  <2> QED BY <1>8, <2>3, <2>4 DEF SealFlush
<1>9. CASE SealTrailer(r)
  <2>1. stage[r] = "flushed" /\ stage' = [stage EXCEPT ![r] = "trailed"]
        /\ process = "up" /\ UNCHANGED <<process, finished, onDiskRows, meta, toRecover, unwritten>>
    BY <1>9 DEF SealTrailer
  <2>2. "trailed" \in Stages \ {"dead"} /\ csvFile[r] \in Seq(Rows) BY <1>1, <2>1 DEF Stages
  <2>3. PICK c \in Seq(Rows) : csvFile' = [csvFile EXCEPT ![r] = c]
    <3>1. Append(csvFile[r], "trailer") \in Seq(Rows) BY <2>2 DEF Rows
    <3> QED BY <1>1, <1>9, <2>2, <3>1 DEF SealTrailer
  <2> QED BY <1>2, <2>1, <2>2, <2>3, RunSteps DEF Unsealed
<1> QED BY <1>3, <1>4, <1>7, <1>8, <1>9

\* The meta's temporary file, a meta that cannot be written, and eviction.
LEMMA LeavesKeep ==
  ASSUME ArchInv, NEW r \in ArchRuns, MetaTemp(r) \/ EvictRun(r)
  PROVE  ArchInv'
<1> USE DEF ArchInv
<1>1. stage[r] \in {"trailed", "sealed"} BY DEF MetaTemp, EvictRun
<1>2. csvFile[r] \in Seq(Rows) /\ csvFile = [csvFile EXCEPT ![r] = csvFile[r]]
  BY <1>1 DEF ArchTypes, FilesFollowStage
<1>3. PICK t \in {"renaming", "sealed", "evicted"} :
         stage' = [stage EXCEPT ![r] = t] /\ (t = "renaming" => stage[r] = "trailed")
  BY DEF MetaTemp, EvictRun
<1>4. /\ process = "up"
      /\ UNCHANGED <<process, finished, onDiskRows, csvFile, meta, toRecover>>
      /\ unwritten \subseteq unwritten'
  BY DEF MetaTemp, EvictRun, archFiles
<1>5. /\ \A q \in ArchRuns : onDiskRows[q] <= Len(finished[q])
      /\ finished \in [ArchRuns -> Seq({"ok", "failed"})]
      /\ onDiskRows \in [ArchRuns -> Nat]
  BY DEF ArchTypes
<1>6. t \in Stages \ {"dead"} BY DEF Stages
<1> QED BY <1>1, <1>2, <1>3, <1>4, <1>5, <1>6, RunSteps DEF Unsealed

\* The rename gives the run its entry.
LEMMA RenameKeeps == ASSUME ArchInv, NEW r \in ArchRuns, MetaRename(r) PROVE ArchInv'
<1> USE DEF ArchInv
<1>1. /\ process = "up" /\ stage[r] = "renaming" /\ stage' = [stage EXCEPT ![r] = "sealed"]
      /\ meta' = [meta EXCEPT ![r] = SealedMeta(r)]
      /\ UNCHANGED <<process, finished, onDiskRows, csvFile, toRecover, unwritten>>
  BY DEF MetaRename
<1>2. SealedMeta(r) \in Metas BY SealedMetaType
<1>3. ArchTypes' BY <1>1, <1>2 DEF ArchTypes, Stages
<1>4. ASSUME NEW q \in ArchRuns
      PROVE  /\ stage'[q] = IF q = r THEN "sealed" ELSE stage[q]
             /\ q # r => meta'[q] = meta[q]
  BY <1>1 DEF ArchTypes
<1>5. FilesFollowStage' BY <1>1, <1>4 DEF FilesFollowStage, Unsealed
<1>6. toRecover = {} BY <1>1 DEF RecoveryFormed
<1>7. RecoveryFormed' BY <1>1, <1>6 DEF RecoveryFormed
<1>8. RecoveryCovers' BY <1>1, <1>4 DEF RecoveryCovers
<1> QED BY <1>3, <1>5, <1>7, <1>8

-----------------------------------------------------------------------------
\* The process dies: its runs are dead, files and entries stay.
LEMMA CrashKeeps ==
  ASSUME ArchInv, ArchCrash \/ \E r \in ArchRuns : CrashInFlush(r)
  PROVE  ArchInv'
<1> USE DEF ArchInv
<1>1. /\ process' = "down" /\ toRecover' = {} /\ UNCHANGED <<finished, onDiskRows, meta, unwritten>>
      /\ stage' = [r \in ArchRuns |-> IF stage[r] \in InMemory THEN "dead" ELSE stage[r]]
  BY DEF ArchCrash, CrashInFlush, ProcessDies, archFiles
<1>2. /\ csvFile' \in [ArchRuns -> Seq(Rows) \cup {NoMeta}]
      /\ \A q \in ArchRuns : csvFile[q] = NoMeta <=> csvFile'[q] = NoMeta
  <2>1. CASE ArchCrash BY <2>1 DEF ArchCrash, archFiles, ArchTypes
  <2>2. CASE \E r \in ArchRuns : CrashInFlush(r)
    <3>1. PICK r \in ArchRuns : CrashInFlush(r) BY <2>2
    <3>2. csvFile[r] \in Seq(Rows) BY <3>1 DEF CrashInFlush, FilesFollowStage, ArchTypes
    <3>3. PICK piece \in {"torn", "broken"} : csvFile' = [csvFile EXCEPT ![r] = Append(@, piece)]
      BY <3>1 DEF CrashInFlush
    <3>4. Append(csvFile[r], piece) \in Seq(Rows) BY <3>2 DEF Rows
    <3>5. Append(csvFile[r], piece) # NoMeta /\ csvFile[r] # NoMeta
      BY <3>2, <3>4, NoMetaAssumption
    <3> QED BY <3>3, <3>4, <3>5 DEF ArchTypes
  <2> QED BY <2>1, <2>2
<1>3. ArchTypes' BY <1>1, <1>2 DEF ArchTypes, Stages
<1>4. FilesFollowStage' BY <1>1, <1>2 DEF FilesFollowStage, Unsealed, InMemory
<1>5. RecoveryFormed' BY <1>1 DEF RecoveryFormed, InMemory
<1>6. RecoveryCovers' BY <1>1 DEF RecoveryCovers
<1> QED BY <1>3, <1>4, <1>5, <1>6

\* Boot, one recovered CSV, and the end of the recovery.
LEMMA RecoveryKeeps ==
  ASSUME ArchInv, ArchBoot \/ (\E r \in ArchRuns : RecoverOne(r)) \/ RecoveryDone
  PROVE  ArchInv'
<1> USE DEF ArchInv
<1>1. CASE ArchBoot
  <2>1. /\ process = "down" /\ process' = "recovering"
        /\ toRecover' = {r \in ArchRuns : csvFile[r] # NoMeta /\ meta[r] = NoMeta}
        /\ UNCHANGED <<stage, finished, onDiskRows, csvFile, meta, unwritten>>
    BY <1>1 DEF ArchBoot, CsvsWithoutMeta, archFiles
  <2>2. ArchTypes' /\ FilesFollowStage' BY <2>1 DEF ArchTypes, FilesFollowStage
  <2>3. RecoveryFormed' BY <2>1 DEF RecoveryFormed
  <2>4. RecoveryCovers' BY <2>1 DEF RecoveryCovers, FilesFollowStage
  <2> QED BY <2>2, <2>3, <2>4
<1>2. CASE \E r \in ArchRuns : RecoverOne(r)
  <2>1. PICK r \in ArchRuns : RecoverOne(r) BY <1>2
  <2>2. /\ process = "recovering" /\ r \in toRecover /\ toRecover' = toRecover \ {r}
        /\ UNCHANGED <<process, stage, finished, onDiskRows, csvFile>>
        /\ unwritten \subseteq unwritten'
    BY <2>1 DEF RecoverOne
  <2>3. csvFile[r] \in Seq(Rows) /\ meta[r] = NoMeta BY <2>2 DEF RecoveryFormed, ArchTypes
  <2>4. RecoveredMeta(csvFile[r]) \in Metas BY <2>3, RecoveredMetaType
  <2>5. /\ meta' \in [ArchRuns -> Metas \cup {NoMeta}]
        /\ \A q \in ArchRuns \ {r} : meta'[q] = meta[q]
    BY <2>1, <2>4 DEF RecoverOne, ArchTypes
  <2>6. DataRows(csvFile[r]) # <<>> => meta'[r] # NoMeta \/ r \in unwritten'
    BY <2>1, <2>4, NoMetaAssumption DEF RecoverOne, ArchTypes
  <2>7. stage[r] # "idle" => stage[r] \notin Unsealed
    BY <2>2 DEF RecoveryFormed, InMemory, Unsealed
  <2>8. stage[r] # "idle" BY <2>2 DEF RecoveryFormed, FilesFollowStage
  <2>9. ArchTypes' BY <2>2, <2>5 DEF ArchTypes
  <2>10. FilesFollowStage' BY <2>2, <2>5, <2>7, <2>8 DEF FilesFollowStage
  <2>11. RecoveryFormed' BY <2>2, <2>5 DEF RecoveryFormed
  <2>12. RecoveryCovers' BY <2>2, <2>5, <2>6 DEF RecoveryCovers
  <2> QED BY <2>9, <2>10, <2>11, <2>12
<1>3. CASE RecoveryDone
  <2>1. /\ process = "recovering" /\ toRecover = {} /\ process' = "up"
        /\ UNCHANGED <<stage, finished, onDiskRows, csvFile, meta, toRecover, unwritten>>
    BY <1>3 DEF RecoveryDone, archFiles
  <2> QED BY <2>1 DEF ArchTypes, FilesFollowStage, RecoveryFormed, RecoveryCovers
<1> QED BY <1>1, <1>2, <1>3

\* Every step of runs, listings, crashes and recovery keeps the invariant.
LEMMA ArchStep == ASSUME ArchInv, [ArchNext]_archVars PROVE ArchInv'
<1> DEFINE Aside == UNCHANGED <<process, stage, finished, onDiskRows, csvFile, meta, toRecover, unwritten>>
<1>1. ASSUME Aside PROVE ArchInv'
  BY <1>1 DEF ArchInv, ArchTypes, FilesFollowStage, RecoveryFormed, RecoveryCovers
<1>2. CASE UNCHANGED archVars BY <1>1, <1>2 DEF archVars
<1>3. CASE ListRegistry \/ ListDisk \/ ListAnswered
  BY <1>1, <1>3 DEF ListRegistry, ListDisk, ListAnswered, archFiles
<1>4. ASSUME NEW r \in ArchRuns,
             \/ RunOpens(r) \/ (\E o \in {"ok", "failed"} : FileFinishes(r, o))
             \/ BackgroundFlush(r) \/ SealFlush(r) \/ SealTrailer(r)
             \/ MetaTemp(r) \/ MetaRename(r) \/ EvictRun(r)
      PROVE  ArchInv'
  BY <1>4, WritesKeep, LeavesKeep, RenameKeeps
<1>5. CASE ArchCrash \/ \E r \in ArchRuns : CrashInFlush(r) BY <1>5, CrashKeeps
<1>6. CASE ArchBoot \/ (\E r \in ArchRuns : RecoverOne(r)) \/ RecoveryDone BY <1>6, RecoveryKeeps
<1> QED BY <1>2, <1>3, <1>4, <1>5, <1>6 DEF ArchNext

\* An empty reports directory satisfies the invariant.
LEMMA ArchInitInv == ASSUME ArchInit PROVE ArchInv
<1>1. ArchTypes BY DEF ArchInit, ArchTypes, Stages
<1>2. FilesFollowStage BY DEF ArchInit, FilesFollowStage
<1>3. RecoveryFormed /\ RecoveryCovers BY DEF ArchInit, RecoveryFormed, RecoveryCovers
<1> QED BY <1>1, <1>2, <1>3 DEF ArchInv

\* Every run that died with a row in its CSV has an entry once the server is
\* up, in whichever step of the seal or of an earlier recovery the process
\* died (RecoverInterrupted, sealAllAndWriteMeta).
THEOREM RecoveryComplete == ArchSpec => []RecoveredOnBoot
<1>1. ArchInit => ArchInv BY ArchInitInv
<1>2. ArchInv /\ [ArchNext]_archVars => ArchInv' BY ArchStep
<1>3. ArchInv => RecoveredOnBoot
  BY DEF ArchInv, RecoveryFormed, RecoveryCovers, RecoveredOnBoot
<1> QED BY <1>1, <1>2, <1>3, PTL DEF ArchSpec

-----------------------------------------------------------------------------
\* A step leaves the entries alone, or adds the entry of a run that had none.
LEMMA EntriesStep ==
  ASSUME ArchInv, [ArchNext]_archVars
  PROVE  \/ meta' = meta
         \/ \E r \in ArchRuns, e \in Metas : meta[r] = NoMeta /\ meta' = [meta EXCEPT ![r] = e]
<1>1. ASSUME NEW r \in ArchRuns, MetaRename(r)
      PROVE  meta[r] = NoMeta /\ SealedMeta(r) \in Metas /\ meta' = [meta EXCEPT ![r] = SealedMeta(r)]
  BY <1>1, SealedMetaType DEF MetaRename, ArchInv, FilesFollowStage, Unsealed
<1>2. ASSUME NEW r \in ArchRuns, RecoverOne(r), meta' # meta
      PROVE  /\ meta[r] = NoMeta /\ RecoveredMeta(csvFile[r]) \in Metas
             /\ meta' = [meta EXCEPT ![r] = RecoveredMeta(csvFile[r])]
  <2>1. meta[r] = NoMeta /\ csvFile[r] \in Seq(Rows)
    BY <1>2 DEF RecoverOne, ArchInv, RecoveryFormed, ArchTypes
  <2> QED BY <1>2, <2>1, RecoveredMetaType DEF RecoverOne
<1>3. ASSUME NEW r \in ArchRuns,
             \/ RunOpens(r) \/ (\E o \in {"ok", "failed"} : FileFinishes(r, o))
             \/ BackgroundFlush(r) \/ SealFlush(r) \/ SealTrailer(r)
             \/ MetaTemp(r) \/ EvictRun(r) \/ CrashInFlush(r)
      PROVE  meta' = meta
  BY <1>3 DEF RunOpens, FileFinishes, BackgroundFlush, SealFlush, SealTrailer, MetaTemp,
              EvictRun, CrashInFlush, archFiles
<1>4. CASE ArchCrash \/ ArchBoot \/ RecoveryDone \/ ListRegistry \/ ListDisk \/ ListAnswered
  BY <1>4 DEF ArchCrash, ArchBoot, RecoveryDone, ListRegistry, ListDisk, ListAnswered, archFiles
<1>5. CASE UNCHANGED archVars BY <1>5 DEF archVars
<1> QED BY <1>1, <1>2, <1>3, <1>4, <1>5 DEF ArchNext

\* The reports directory implements RunHistory: seal, recovery and crashes
\* list a run at most once and never touch an entry again (WriteMeta,
\* RecoverInterrupted).
THEOREM HistoryImplemented == ArchSpec => HistoryKept
<1>1. ArchInit => ArchInv BY ArchInitInv
<1>2. ArchInv /\ [ArchNext]_archVars => ArchInv' BY ArchStep
<1>3. ArchInit => History!HistoryInit BY DEF ArchInit, History!HistoryInit
<1>4. ArchInv /\ [ArchNext]_archVars => [History!HistoryNext]_meta
  <2> SUFFICES ASSUME ArchInv, [ArchNext]_archVars, meta' # meta PROVE History!HistoryNext
    OBVIOUS
  <2>1. PICK r \in ArchRuns, e \in Metas : meta[r] = NoMeta /\ meta' = [meta EXCEPT ![r] = e]
    BY EntriesStep
  <2>2. meta'[r] = e BY <2>1 DEF ArchInv, ArchTypes
  <2> QED BY <2>1, <2>2 DEF History!HistoryNext, History!ListRun
<1> QED BY <1>1, <1>2, <1>3, <1>4, PTL DEF ArchSpec, HistoryKept, History!HistorySpec

\* A listing that has read the registry finds the rest on disk: entries only
\* appear.
LEMMA ListingStep ==
  ASSUME ArchInv, ListingCovers, [ArchNext]_archVars
  PROVE  ListingCovers'
<1>1. OnDisk \subseteq OnDisk'
  BY EntriesStep, NoMetaAssumption DEF OnDisk, ArchInv, ArchTypes
<1>2. CASE lister' = lister BY <1>1, <1>2 DEF ListingCovers
<1>3. CASE ListRegistry
  <2>1. lister' = [pc |-> "disk", live |-> Registered, due |-> Registered \cup OnDisk, reply |-> {}]
    BY <1>3 DEF ListRegistry
  <2> QED BY <1>1, <2>1 DEF ListingCovers, Registered, OnDisk
<1>4. CASE ListDisk
  <2>1. /\ lister.pc = "disk"
        /\ lister' = [lister EXCEPT !.pc = "done", !.reply = lister.live \cup OnDisk]
    BY <1>4 DEF ListDisk
  <2> QED BY <2>1 DEF ListingCovers, OnDisk
<1>5. CASE lister' = NotListing BY <1>5 DEF NotListing, ListingCovers
<1>6. ASSUME NEW r \in ArchRuns,
             \/ RunOpens(r) \/ (\E o \in {"ok", "failed"} : FileFinishes(r, o))
             \/ BackgroundFlush(r) \/ SealFlush(r) \/ SealTrailer(r)
             \/ MetaTemp(r) \/ MetaRename(r) \/ EvictRun(r) \/ RecoverOne(r)
      PROVE  lister' = lister
  BY <1>6 DEF RunOpens, FileFinishes, BackgroundFlush, SealFlush, SealTrailer, MetaTemp,
              MetaRename, EvictRun, RecoverOne
<1>7. CASE ArchCrash \/ \E r \in ArchRuns : CrashInFlush(r)
  BY <1>5, <1>7 DEF ArchCrash, CrashInFlush, ProcessDies
<1>8. CASE ArchBoot \/ RecoveryDone BY <1>2, <1>8 DEF ArchBoot, RecoveryDone
<1>9. CASE ListAnswered BY <1>5, <1>9 DEF ListAnswered
<1>10. CASE UNCHANGED archVars BY <1>2, <1>10 DEF archVars
<1> QED BY <1>2, <1>3, <1>4, <1>6, <1>7, <1>8, <1>9, <1>10 DEF ArchNext

\* GET /api/runs answers with every run that was in the registry or on disk
\* when it came, whatever seals, evictions and recoveries fall between its two
\* reads (handleRuns).
THEOREM ListingComplete == ArchSpec => []ListingMissesNoRun
<1>1. ArchInit => ArchInv /\ ListingCovers
  BY ArchInitInv DEF ArchInit, NotListing, ListingCovers
<1>2. ArchInv /\ ListingCovers /\ [ArchNext]_archVars => ArchInv' /\ ListingCovers'
  BY ArchStep, ListingStep
<1>3. ListingCovers => ListingMissesNoRun BY DEF ListingCovers, ListingMissesNoRun
<1> QED BY <1>1, <1>2, <1>3, PTL DEF ArchSpec

-----------------------------------------------------------------------------
(* The diagnosis log.                                                       *)

Diags == Nat \cup {NoDiag}

LogLines == [id : Nat, parent : Diags, good : BOOLEAN]

AskLocals ==
    [pc : {"idle", "walk", "calling", "append", "refetch", "answered"}, parent : Diags, cur : Diags,
     chain : Seq(Nat), own : Diags, reply : Diags]

\* Lines are numbered in the order they were tried, and a readable line names
\* an older readable one as its parent, or none.
LogFormed ==
    /\ written \in Nat
    /\ dlog \in Seq(LogLines)
    /\ \A i \in 1..Len(dlog) : dlog[i].id < written
    /\ \A i, j \in 1..Len(dlog) : dlog[i].id = dlog[j].id => i = j
    /\ \A i \in ListDiagnoses :
          dlog[i].parent # NoDiag => dlog[i].parent \in Known /\ dlog[i].parent < dlog[i].id

\* The turns found so far: readable, each the parent of the next and so older,
\* the last one the parent the client named.
Thread(q) ==
    /\ q.parent # NoDiag => q.parent \in Known
    /\ \A i \in 1..Len(q.chain) : q.chain[i] \in Known
    /\ \A i, j \in 1..Len(q.chain) : i < j => q.chain[i] < q.chain[j]
    /\ \A i \in 1..Len(q.chain) - 1 : ParentOf(q.chain[i + 1]) = q.chain[i]
    /\ Len(q.chain) > 0 => q.chain[Len(q.chain)] = q.parent
    /\ Len(q.chain) <= MaxDepth

\* The walk is at the parent of the first turn; when it is over nothing is left.
WalkAt(q) ==
    /\ q.pc = "idle" => q.parent = NoDiag
    /\ q.pc = "walk" => q.parent # NoDiag
    /\ q.pc = "walk" => q.cur = IF Len(q.chain) = 0 THEN q.parent ELSE ParentOf(q.chain[1])
    /\ q.pc # "walk" /\ q.parent # NoDiag =>
          Len(q.chain) > 0 /\ (Len(q.chain) = MaxDepth \/ ParentOf(q.chain[1]) = NoDiag)

DoctorInv ==
    /\ LogFormed /\ asks \in [Askers -> AskLocals]
    /\ \A a \in Askers : Thread(asks[a]) /\ WalkAt(asks[a])

\* What a lookup of a readable line finds.
LEMMA FoundLine ==
  ASSUME LogFormed, NEW d \in Known
  PROVE  /\ d \in Nat /\ d < written
         /\ \A i \in ListDiagnoses : dlog[i].id = d => ParentOf(d) = dlog[i].parent
         /\ ParentOf(d) \in Diags
         /\ ParentOf(d) # NoDiag => ParentOf(d) \in Known /\ ParentOf(d) < d
<1>1. PICK i \in ListDiagnoses : dlog[i].id = d
  BY DEF Known
<1>2. i \in 1..Len(dlog) /\ dlog[i] \in LogLines
  <2>1. i \in 1..Len(dlog)
    BY DEF ListDiagnoses
  <2> QED
    BY <2>1 DEF LogFormed
<1>3. d \in Nat /\ d < written
  BY <1>1, <1>2 DEF LogFormed, LogLines
<1>4. (CHOOSE j \in ListDiagnoses : dlog[j].id = d) = i
  BY <1>1 DEF LogFormed, ListDiagnoses
<1>5. ParentOf(d) = dlog[i].parent
  BY <1>4 DEF ParentOf
<1>6. \A j \in ListDiagnoses : dlog[j].id = d => j = i
  BY <1>1 DEF LogFormed, ListDiagnoses
<1> QED
  BY <1>1, <1>2, <1>3, <1>5, <1>6 DEF LogFormed, LogLines

\* Lookups answer as before once readable lines are only added.
LEMMA LookupsKept ==
  ASSUME LogFormed, LogFormed',
         \A i \in ListDiagnoses : i \in ListDiagnoses' /\ dlog'[i] = dlog[i]
  PROVE  \A d \in Known : d \in Known' /\ ParentOf(d)' = ParentOf(d)
<1> SUFFICES ASSUME NEW d \in Known PROVE d \in Known' /\ ParentOf(d)' = ParentOf(d)
  OBVIOUS
<1>1. PICK i \in ListDiagnoses : dlog[i].id = d
  BY DEF Known
<1>2. i \in ListDiagnoses' /\ dlog'[i] = dlog[i]
  BY <1>1
<1>3. d \in Known'
  BY <1>1, <1>2 DEF Known
<1>4. ParentOf(d) = dlog[i].parent
  BY <1>1, FoundLine
<1>5. (CHOOSE j \in ListDiagnoses' : dlog'[j].id = d) = i
  BY <1>1, <1>2 DEF LogFormed, ListDiagnoses
<1>6. ParentOf(d)' = dlog'[i].parent
  BY <1>3, <1>5 DEF ParentOf
<1> QED
  BY <1>2, <1>3, <1>4, <1>6

LEMMA ThreadKept ==
  ASSUME NEW q \in AskLocals, Thread(q), WalkAt(q),
         \A d \in Known : d \in Known' /\ ParentOf(d)' = ParentOf(d)
  PROVE  Thread(q)' /\ WalkAt(q)'
<1>1. q.chain \in Seq(Nat) /\ Len(q.chain) \in Nat
  BY DEF AskLocals
<1>2. \A i \in 1..Len(q.chain) : q.chain[i] \in Known' /\ ParentOf(q.chain[i])' = ParentOf(q.chain[i])
  BY DEF Thread
<1>3. \A i \in 1..Len(q.chain) - 1 : i + 1 \in 1..Len(q.chain)
  BY <1>1
<1>4. Thread(q)'
  BY <1>2, <1>3 DEF Thread
<1>5. Len(q.chain) > 0 => 1 \in 1..Len(q.chain)
  BY <1>1
<1>6. Len(q.chain) = 0 \/ Len(q.chain) > 0
  BY <1>1
<1>7. WalkAt(q)'
  BY <1>2, <1>5, <1>6 DEF WalkAt
<1> QED
  BY <1>4, <1>7

\* A step of one request that leaves the log alone.
LEMMA AskStep ==
  ASSUME DoctorInv, UNCHANGED <<dlog, written>>, NEW a \in Askers, NEW t \in AskLocals,
         asks' = [asks EXCEPT ![a] = t], Thread(t), WalkAt(t)
  PROVE  DoctorInv'
<1>1. ListDiagnoses' = ListDiagnoses /\ Known' = Known
  BY DEF ListDiagnoses, Known
<1>2. \A d : ParentOf(d)' = ParentOf(d)
  BY <1>1 DEF ParentOf
<1>3. LogFormed'
  BY <1>1 DEF DoctorInv, LogFormed
<1>4. \A d \in Known : d \in Known' /\ ParentOf(d)' = ParentOf(d)
  BY <1>1, <1>2
<1>5. ASSUME NEW c \in Askers PROVE Thread(asks[c])' /\ WalkAt(asks[c])' /\ asks'[c] \in AskLocals
  <2>1. PICK q \in AskLocals : q = asks'[c] /\ Thread(q) /\ WalkAt(q)
    BY DEF DoctorInv
  <2>2. Thread(q)' /\ WalkAt(q)'
    BY <1>4, <2>1, ThreadKept
  <2>3. Thread(asks[c])'
    BY <2>1, <2>2 DEF Thread
  <2>4. WalkAt(asks[c])'
    BY <2>1, <2>2 DEF WalkAt
  <2> QED
    BY <2>1, <2>3, <2>4
<1>6. asks' \in [Askers -> AskLocals]
  BY DEF DoctorInv
<1> QED
  BY <1>3, <1>5, <1>6 DEF DoctorInv

\* A line is added at the end: a readable one of a known parent, or one that
\* cannot be read.
LEMMA LogGrows ==
  ASSUME LogFormed, written' = written + 1, NEW line \in LogLines, line.id = written,
         dlog' = Append(dlog, line),
         line.good /\ line.parent # NoDiag => line.parent \in Known
  PROVE  LogFormed' /\ \A i \in ListDiagnoses : i \in ListDiagnoses' /\ dlog'[i] = dlog[i]
<1> DEFINE n == Len(dlog) + 1
<1>1. /\ dlog' \in Seq(LogLines) /\ Len(dlog') = n /\ Len(dlog) \in Nat
      /\ dlog'[n] = line /\ \A i \in 1..Len(dlog) : dlog'[i] = dlog[i]
  BY DEF LogFormed
<1>2. 1..Len(dlog') = 1..Len(dlog) \cup {n}
  BY <1>1
<1>3. \A i \in ListDiagnoses : i \in 1..Len(dlog) /\ i \in ListDiagnoses' /\ dlog'[i] = dlog[i]
  BY <1>1, <1>2 DEF ListDiagnoses
<1>4. ListDiagnoses' \subseteq ListDiagnoses \cup {n} /\ (n \in ListDiagnoses' => line.good)
  BY <1>1, <1>2 DEF ListDiagnoses
<1>5. Known \subseteq Known'
  BY <1>3 DEF Known
<1>6. line.id \in Nat /\ written \in Nat
  BY DEF LogLines, LogFormed
<1>7. \A i \in 1..Len(dlog) : dlog[i].id < written /\ dlog[i].id \in Nat
  <2>1. \A i \in 1..Len(dlog) : dlog[i] \in LogLines
    BY DEF LogFormed
  <2>2. \A i \in 1..Len(dlog) : dlog[i].id < written
    BY DEF LogFormed
  <2> QED
    BY <2>1, <2>2 DEF LogLines
<1>8. \A i \in 1..Len(dlog') : dlog'[i].id < written'
  BY <1>1, <1>2, <1>6, <1>7
<1>9. \A i, j \in 1..Len(dlog') : dlog'[i].id = dlog'[j].id => i = j
  <2> SUFFICES ASSUME NEW i \in 1..Len(dlog'), NEW j \in 1..Len(dlog'), dlog'[i].id = dlog'[j].id
               PROVE  i = j
    OBVIOUS
  <2>1. CASE i = n /\ j = n BY <2>1
  <2>2. CASE i \in 1..Len(dlog) /\ j \in 1..Len(dlog) BY <1>1, <2>2 DEF LogFormed
  <2>3. CASE i \in 1..Len(dlog) /\ j = n BY <1>1, <1>6, <1>7, <2>3
  <2>4. CASE j \in 1..Len(dlog) /\ i = n BY <1>1, <1>6, <1>7, <2>4
  <2> QED BY <1>2, <2>1, <2>2, <2>3, <2>4
<1>10. ASSUME NEW i \in ListDiagnoses', dlog'[i].parent # NoDiag
       PROVE  dlog'[i].parent \in Known' /\ dlog'[i].parent < dlog'[i].id
  <2>1. CASE i \in ListDiagnoses
    BY <1>3, <1>5, <1>10, <2>1 DEF LogFormed
  <2>2. CASE i = n
    <3>1. line.parent \in Known
      BY <1>1, <1>4, <1>10, <2>2
    <3> QED
      BY <1>1, <1>5, <2>2, <3>1, FoundLine
  <2> QED
    BY <1>4, <2>1, <2>2
<1>11. written' \in Nat /\ dlog' \in Seq(LogLines)
  BY <1>1, <1>6
<1>12. LogFormed'
  <2> HIDE DEF n
  <2>1. \A i \in ListDiagnoses' :
           dlog'[i].parent # NoDiag => dlog'[i].parent \in Known' /\ dlog'[i].parent < dlog'[i].id
    BY <1>10
  <2> QED
    BY <1>8, <1>9, <1>11, <2>1 DEF LogFormed
<1> QED
  BY <1>3, <1>12

LEMMA AskedStep ==
  ASSUME DoctorInv, NEW a \in Askers, DoctorAsked(a)
  PROVE  DoctorInv'
<1>1. PICK p \in Known \cup {NoDiag} :
        asks' = [asks EXCEPT ![a] = [NotAsking EXCEPT !.pc = IF p = NoDiag THEN "calling" ELSE "walk",
                                       !.parent = p, !.cur = p]]
  BY DEF DoctorAsked
<1> DEFINE t == [NotAsking EXCEPT !.pc = IF p = NoDiag THEN "calling" ELSE "walk", !.parent = p, !.cur = p]
<1>2. Known \subseteq Nat
  BY FoundLine DEF DoctorInv
<1>3. /\ t.pc = (IF p = NoDiag THEN "calling" ELSE "walk") /\ t.parent = p /\ t.cur = p
      /\ t.chain = <<>> /\ t \in AskLocals
  <2>1. p \in Diags
    BY <1>2 DEF Diags
  <2>2. t = [pc |-> IF p = NoDiag THEN "calling" ELSE "walk", parent |-> p, cur |-> p,
              chain |-> <<>>, own |-> NoDiag, reply |-> NoDiag]
    <3> DEFINE u == IF p = NoDiag THEN "calling" ELSE "walk"
               t1 == [NotAsking EXCEPT !.pc = u]
               t2 == [t1 EXCEPT !.parent = p]
    <3>1. t = [t2 EXCEPT !.cur = p]
      OBVIOUS
    <3> HIDE DEF t, u
    <3>2. t1 = [pc |-> u, parent |-> NoDiag, cur |-> NoDiag, chain |-> <<>>, own |-> NoDiag, reply |-> NoDiag]
      BY DEF NotAsking
    <3> HIDE DEF t1
    <3>3. t2 = [pc |-> u, parent |-> p, cur |-> NoDiag, chain |-> <<>>, own |-> NoDiag, reply |-> NoDiag]
      BY <3>2
    <3> HIDE DEF t2
    <3>4. t = [pc |-> u, parent |-> p, cur |-> p, chain |-> <<>>, own |-> NoDiag, reply |-> NoDiag]
      BY <3>1, <3>3
    <3> QED
      BY <3>4 DEF u
  <2>3. (IF p = NoDiag THEN "calling" ELSE "walk") \in {"calling", "walk"}
    OBVIOUS
  <2> HIDE DEF t
  <2> QED
    BY <2>1, <2>2, <2>3 DEF AskLocals, Diags
<1>4. Len(t.chain) = 0
  BY <1>3
<1> HIDE DEF t
<1>5. Thread(t) /\ WalkAt(t)
  BY <1>3, <1>4, DoctorAssumption DEF Thread, WalkAt
<1> QED
  BY <1>1, <1>3, <1>5, AskStep DEF DoctorAsked, t

\* The end of a request.
LEMMA NoAsk == NotAsking \in AskLocals /\ (DoctorInv => Thread(NotAsking) /\ WalkAt(NotAsking))
<1>1. NotAsking \in AskLocals /\ NotAsking.pc = "idle" /\ NotAsking.parent = NoDiag
      /\ NotAsking.chain = <<>>
  BY DEF NotAsking, AskLocals, Diags
<1>2. Len(NotAsking.chain) = 0
  BY <1>1
<1> QED
  BY <1>1, <1>2, DoctorAssumption DEF Thread, WalkAt

\* A turn older than the first goes in front of a thread.
LEMMA WalkStep ==
  ASSUME DoctorInv, NEW a \in Askers, WalkParents(a)
  PROVE  DoctorInv'
<1> DEFINE q == asks[a]
<1>1. /\ q \in AskLocals /\ Thread(q) /\ WalkAt(q) /\ q.pc = "walk" /\ LogFormed
      /\ asks' = [asks EXCEPT ![a] =
                    IF Len(q.chain) < MaxDepth /\ q.cur \in Known
                    THEN [q EXCEPT !.chain = <<q.cur>> \o q.chain, !.cur = ParentOf(q.cur)]
                    ELSE [q EXCEPT !.pc = "calling", !.cur = NoDiag]]
      /\ UNCHANGED <<dlog, written>>
  BY DEF WalkParents, DoctorInv
<1> HIDE DEF q
<1>2. q.chain \in Seq(Nat) /\ Len(q.chain) \in Nat
  BY <1>1 DEF AskLocals
<1>3. CASE Len(q.chain) < MaxDepth /\ q.cur \in Known
  <2> DEFINE c == <<q.cur>> \o q.chain
             t == [q EXCEPT !.chain = c, !.cur = ParentOf(q.cur)]
  <2>1. q.cur \in Nat /\ ParentOf(q.cur) \in Diags
    BY <1>1, <1>3, FoundLine
  <2>2. /\ c \in Seq(Nat) /\ Len(c) = Len(q.chain) + 1 /\ c[1] = q.cur
        /\ \A i \in 1..Len(q.chain) : c[i + 1] = q.chain[i]
    BY <1>2, <2>1
  <2>3. t \in AskLocals /\ t.chain = c /\ t.cur = ParentOf(q.cur) /\ t.pc = "walk" /\ t.parent = q.parent
    BY <1>1, <2>1, <2>2 DEF AskLocals
  <2>4. \A j \in 1..Len(c) : j = 1 \/ (j - 1 \in 1..Len(q.chain) /\ c[j] = q.chain[j - 1])
    <3> SUFFICES ASSUME NEW j \in 1..Len(c), j # 1
                 PROVE  j - 1 \in 1..Len(q.chain) /\ c[j] = q.chain[j - 1]
      OBVIOUS
    <3> HIDE DEF c
    <3>1. j - 1 \in 1..Len(q.chain) /\ (j - 1) + 1 = j
      BY <1>2, <2>2
    <3> QED
      BY <2>2, <3>1
  <2> HIDE DEF c, t
  <2>5. \A i \in 1..Len(c) : c[i] \in Known
    BY <1>1, <1>3, <2>2, <2>4 DEF Thread
  <2>6. Len(q.chain) > 0 => q.cur = ParentOf(q.chain[1]) /\ q.chain[1] \in Known /\ q.cur < q.chain[1]
    <3> SUFFICES ASSUME Len(q.chain) > 0
                 PROVE  q.cur = ParentOf(q.chain[1]) /\ q.chain[1] \in Known /\ q.cur < q.chain[1]
      OBVIOUS
    <3>1. q.cur = ParentOf(q.chain[1])
      BY <1>1, <1>2 DEF WalkAt
    <3>2. q.chain[1] \in Known
      BY <1>1, <1>2 DEF Thread
    <3>3. q.cur # NoDiag
      BY <2>1, DoctorAssumption
    <3> QED
      BY <1>1, <3>1, <3>2, <3>3, FoundLine
  <2>7. \A i, j \in 1..Len(c) : i < j => c[i] < c[j]
    <3>1. \A i \in 1..Len(q.chain) : q.chain[i] \in Nat
      BY <1>2
    <3>2. \A i \in 1..Len(q.chain) : q.cur < q.chain[i]
      <4> SUFFICES ASSUME NEW i \in 1..Len(q.chain) PROVE q.cur < q.chain[i]
        OBVIOUS
      <4>1. CASE i = 1 BY <2>6, <4>1, <1>2
      <4>2. CASE 1 < i
        <5>1. 1 \in 1..Len(q.chain)
          BY <1>2, <4>2
        <5>2. q.chain[1] < q.chain[i]
          BY <1>1, <4>2, <5>1 DEF Thread
        <5> QED BY <2>1, <2>6, <3>1, <5>1, <5>2, <1>2
      <4> QED BY <4>1, <4>2, <1>2
    <3>3. ASSUME NEW i \in 1..Len(c), NEW j \in 1..Len(c), i < j PROVE c[i] < c[j]
      <4>1. j - 1 \in 1..Len(q.chain) /\ c[j] = q.chain[j - 1]
        BY <1>2, <2>4, <3>3
      <4>2. CASE i = 1 BY <2>2, <3>2, <4>1, <4>2
      <4>3. CASE i > 1
        <5>1. i - 1 \in 1..Len(q.chain) /\ c[i] = q.chain[i - 1]
          BY <2>4, <4>3
        <5>2. i - 1 < j - 1
          BY <3>3, <1>2
        <5> QED BY <1>1, <4>1, <5>1, <5>2 DEF Thread
      <4> QED BY <4>2, <4>3, <1>2
    <3> QED BY <3>3
  <2>8. \A i \in 1..Len(c) - 1 : ParentOf(c[i + 1]) = c[i]
    <3> SUFFICES ASSUME NEW i \in 1..Len(c) - 1 PROVE ParentOf(c[i + 1]) = c[i]
      OBVIOUS
    <3>1. i \in 1..Len(q.chain) /\ c[i + 1] = q.chain[i]
      BY <1>2, <2>2
    <3>2. CASE i = 1 BY <1>2, <2>2, <2>6, <3>1, <3>2
    <3>3. CASE i > 1
      <4>1. i - 1 \in 1..Len(q.chain) - 1 /\ (i - 1) + 1 = i
        BY <1>2, <3>1, <3>3
      <4>2. ParentOf(q.chain[i]) = q.chain[i - 1]
        BY <1>1, <4>1 DEF Thread
      <4>3. c[i] = q.chain[i - 1]
        <5>1. i \in 1..Len(c)
          BY <1>2, <2>2
        <5> QED BY <2>4, <3>3, <5>1
      <4> QED BY <3>1, <4>2, <4>3
    <3> QED BY <3>2, <3>3, <1>2
  <2>9. c[Len(c)] = q.parent
    <3>1. CASE Len(q.chain) = 0 BY <1>1, <2>2, <3>1 DEF WalkAt
    <3>2. CASE Len(q.chain) > 0
      <4>1. Len(q.chain) \in 1..Len(q.chain) /\ q.chain[Len(q.chain)] = q.parent
        BY <1>1, <1>2, <3>2 DEF Thread
      <4> QED BY <2>2, <4>1
    <3> QED BY <1>2, <3>1, <3>2
  <2>10. Len(c) <= MaxDepth /\ Len(c) > 0
    BY <1>2, <1>3, <2>2, DoctorAssumption
  <2>11. Thread(t) /\ WalkAt(t)
    <3>1. Thread(t)
      BY <1>1, <2>3, <2>5, <2>7, <2>8, <2>9, <2>10 DEF Thread
    <3>2. WalkAt(t)
      BY <1>1, <1>2, <2>2, <2>3, <2>10 DEF WalkAt
    <3> QED BY <3>1, <3>2
  <2> QED
    BY <1>1, <1>3, <2>3, <2>11, AskStep DEF t, c
<1>4. CASE ~(Len(q.chain) < MaxDepth /\ q.cur \in Known)
  <2> DEFINE t == [q EXCEPT !.pc = "calling", !.cur = NoDiag]
  <2>1. t \in AskLocals /\ t.chain = q.chain /\ t.pc = "calling" /\ t.parent = q.parent
    BY <1>1 DEF AskLocals, Diags
  <2>2. Len(q.chain) > 0 /\ (Len(q.chain) = MaxDepth \/ ParentOf(q.chain[1]) = NoDiag)
    <3>1. q.parent \in Known /\ Len(q.chain) <= MaxDepth
      BY <1>1 DEF Thread, WalkAt
    <3>2. CASE Len(q.chain) = 0
      BY <1>1, <1>4, <3>1, <3>2, DoctorAssumption DEF WalkAt
    <3>3. CASE Len(q.chain) > 0 /\ q.cur \notin Known
      <4>1. q.cur = ParentOf(q.chain[1]) /\ q.chain[1] \in Known
        BY <1>1, <1>2, <3>3 DEF WalkAt, Thread
      <4>2. q.cur = NoDiag
        BY <1>1, <3>3, <4>1, FoundLine
      <4> QED BY <3>3, <4>1, <4>2
    <3>4. CASE Len(q.chain) > 0 /\ ~(Len(q.chain) < MaxDepth)
      BY <1>2, <3>1, <3>4, DoctorAssumption
    <3> QED BY <1>2, <1>4, <3>2, <3>3, <3>4
  <2> HIDE DEF t
  <2>3. Thread(t) /\ WalkAt(t)
    BY <1>1, <2>1, <2>2 DEF Thread, WalkAt
  <2> QED
    BY <1>1, <1>4, <2>1, <2>3, AskStep DEF t
<1> QED
  BY <1>3, <1>4

LEMMA AppendStep ==
  ASSUME DoctorInv, NEW a \in Askers, AppendDiagnosis(a)
  PROVE  DoctorInv'
<1> DEFINE q == asks[a]
           line == [id |-> written, parent |-> q.parent, good |-> TRUE]
           bad == [line EXCEPT !.good = FALSE]
           own == [q EXCEPT !.pc = "refetch", !.own = written]
<1>1. /\ q \in AskLocals /\ Thread(q) /\ WalkAt(q) /\ q.pc = "append" /\ LogFormed
      /\ written' = written + 1 /\ written \in Nat
  BY DEF AppendDiagnosis, DoctorInv, LogFormed
<1>2. dlog' = dlog \/ dlog' = Append(dlog, line) \/ dlog' = Append(dlog, bad)
  BY DEF AppendDiagnosis, AppendLine, AppendPart
<1>3. asks' = [asks EXCEPT ![a] = own] \/ asks' = [asks EXCEPT ![a] = NotAsking]
  BY DEF AppendDiagnosis
<1>4. /\ line \in LogLines /\ line.id = written /\ line.parent = q.parent
      /\ bad \in LogLines /\ bad.id = written /\ ~bad.good
  BY <1>1 DEF LogLines, AskLocals
<1>5. own \in AskLocals /\ own.parent = q.parent /\ own.chain = q.chain /\ own.pc = "refetch"
  BY <1>1 DEF AskLocals, Diags
<1> HIDE DEF q, line, bad, own
<1>6. Thread(own) /\ WalkAt(own)
  BY <1>1, <1>5 DEF Thread, WalkAt
<1>7. LogFormed' /\ \A i \in ListDiagnoses : i \in ListDiagnoses' /\ dlog'[i] = dlog[i]
  <2>1. CASE dlog' = dlog
    <3>1. ListDiagnoses' = ListDiagnoses /\ Known' = Known
      BY <2>1 DEF ListDiagnoses, Known
    <3>2. \A i \in 1..Len(dlog) : dlog[i] \in LogLines /\ dlog[i].id < written
      BY <1>1 DEF LogFormed
    <3>3. \A i \in 1..Len(dlog) : dlog[i].id < written + 1
      BY <1>1, <3>2 DEF LogLines
    <3> QED
      BY <1>1, <2>1, <3>1, <3>3 DEF LogFormed
  <2>2. CASE dlog' = Append(dlog, line)
    BY <1>1, <1>4, <2>2, LogGrows DEF Thread
  <2>3. CASE dlog' = Append(dlog, bad)
    BY <1>1, <1>4, <2>3, LogGrows
  <2> QED
    BY <1>2, <2>1, <2>2, <2>3
<1>8. \A d \in Known : d \in Known' /\ ParentOf(d)' = ParentOf(d)
  BY <1>1, <1>7, LookupsKept
<1>9. ASSUME NEW c \in Askers PROVE Thread(asks[c])' /\ WalkAt(asks[c])'
  <2>1. PICK x \in AskLocals : x = asks'[c] /\ Thread(x) /\ WalkAt(x)
    BY <1>3, <1>5, <1>6, NoAsk DEF DoctorInv
  <2>2. Thread(x)' /\ WalkAt(x)'
    BY <1>8, <2>1, ThreadKept
  <2>3. Thread(asks[c])'
    BY <2>1, <2>2 DEF Thread
  <2>4. WalkAt(asks[c])'
    BY <2>1, <2>2 DEF WalkAt
  <2> QED
    BY <2>3, <2>4
<1>10. asks' \in [Askers -> AskLocals]
  BY <1>3, <1>5, NoAsk DEF DoctorInv
<1> QED
  BY <1>7, <1>9, <1>10 DEF DoctorInv

\* The last of some positions is one of them.
LEMMA LastPosition ==
  ASSUME NEW n \in Nat, NEW S \in SUBSET (1..n), S # {}
  PROVE  Max(S) \in S
<1> DEFINE T == {k \in Nat : n - k \in S}
<1>1. T \subseteq Nat /\ T # {}
  <2>1. PICK i \in S : TRUE
    OBVIOUS
  <2>2. n - i \in Nat /\ n - (n - i) = i
    OBVIOUS
  <2> QED
    BY <2>2
<1>2. \E x \in T : \A y \in T : ~(<<y, x>> \in OpToRel(<, Nat))
  <2>1. IsWellFoundedOn(OpToRel(<, Nat), Nat)
    BY NatLessThanWellFounded
  <2> HIDE DEF T
  <2> QED
    BY <1>1, <2>1, WFMin
<1>3. PICK x \in T : \A y \in T : ~(y < x)
  BY <1>1, <1>2 DEF OpToRel
<1>4. PICK i \in S : x = n - i
  <2>1. x \in Nat /\ n - x \in S /\ x = n - (n - x)
    BY <1>3
  <2> QED
    BY <2>1
<1>5. \A j \in S : i >= j
  <2> SUFFICES ASSUME NEW j \in S PROVE i >= j
    OBVIOUS
  <2>1. n - j \in Nat /\ n - (n - j) = j
    OBVIOUS
  <2>2. n - j \in T
    BY <2>1
  <2>3. ~(n - j < n - i)
    BY <1>3, <1>4, <2>2
  <2>4. i \in Int /\ j \in Int
    OBVIOUS
  <2> QED
    BY <2>3, <2>4
<1> QED
  BY <1>5 DEF Max

\* A thread is not changed by what else a request does.
LEMMA OtherStep ==
  ASSUME DoctorInv, NEW a \in Askers,
         LookupFails(a) \/ ProviderAnswers(a) \/ Refetch(a) \/ DoctorReplies(a)
  PROVE  DoctorInv'
<1> DEFINE q == asks[a]
<1>1. q \in AskLocals /\ Thread(q) /\ WalkAt(q) /\ LogFormed
  BY DEF DoctorInv
<1>2. UNCHANGED <<dlog, written>>
  BY DEF LookupFails, ProviderAnswers, Refetch, DoctorReplies
<1>3. CASE asks' = [asks EXCEPT ![a] = NotAsking]
  BY <1>2, <1>3, NoAsk, AskStep
<1>4. ASSUME NEW t \in AskLocals, asks' = [asks EXCEPT ![a] = t], t.chain = q.chain,
             t.parent = q.parent, q.pc \notin {"idle", "walk"}, t.pc \notin {"idle", "walk"}
      PROVE  DoctorInv'
  <2> HIDE DEF q
  <2>1. Thread(t) /\ WalkAt(t)
    BY <1>1, <1>4 DEF Thread, WalkAt
  <2> QED
    BY <1>2, <1>4, <2>1, AskStep
<1>5. CASE q.pc = "calling" /\ asks' = [asks EXCEPT ![a].pc = "append"]
  <2>1. [q EXCEPT !.pc = "append"] \in AskLocals
    BY <1>1 DEF AskLocals
  <2> QED
    BY <1>1, <1>4, <1>5, <2>1 DEF AskLocals
<1>6. CASE Refetch(a)
  <2> DEFINE r == IF ListDiagnoses = {} THEN NoDiag ELSE dlog[Max(ListDiagnoses)].id
             t == [q EXCEPT !.pc = "answered", !.reply = r]
  <2>1. r \in Diags
    <3>1. SUFFICES ASSUME ListDiagnoses # {} PROVE dlog[Max(ListDiagnoses)].id \in Nat
      BY DEF Diags
    <3>2. Len(dlog) \in Nat /\ ListDiagnoses \in SUBSET (1..Len(dlog))
      BY <1>1 DEF LogFormed, ListDiagnoses
    <3>3. Max(ListDiagnoses) \in ListDiagnoses
      BY <3>1, <3>2, LastPosition
    <3>4. \A i \in ListDiagnoses : dlog[i] \in LogLines
      BY <1>1, <3>2 DEF LogFormed
    <3> QED BY <3>3, <3>4 DEF LogLines
  <2>2. t \in AskLocals /\ asks' = [asks EXCEPT ![a] = t] /\ q.pc = "refetch"
    BY <1>1, <1>6, <2>1 DEF Refetch, AskLocals
  <2> QED
    BY <1>1, <1>4, <2>2 DEF AskLocals
<1> QED
  BY <1>3, <1>5, <1>6 DEF LookupFails, ProviderAnswers, DoctorReplies

LEMMA DoctorStep ==
  ASSUME DoctorInv, DoctorNext \/ UNCHANGED doctorVars
  PROVE  DoctorInv'
<1>1. CASE DoctorNext
  BY <1>1, AskedStep, WalkStep, AppendStep, OtherStep DEF DoctorNext
<1>2. CASE UNCHANGED doctorVars
  <2>1. dlog' = dlog /\ written' = written /\ asks' = asks
    BY <1>2 DEF doctorVars
  <2>2. ListDiagnoses' = ListDiagnoses /\ Known' = Known
    BY <2>1 DEF ListDiagnoses, Known
  <2>3. \A d : ParentOf(d)' = ParentOf(d)
    BY <2>1, <2>2 DEF ParentOf
  <2>4. LogFormed'
    BY <2>1, <2>2 DEF DoctorInv, LogFormed
  <2>5. \A a \in Askers : Thread(asks[a])' /\ WalkAt(asks[a])'
    BY <2>1, <2>2, <2>3 DEF DoctorInv, Thread, WalkAt
  <2> QED
    BY <2>1, <2>4, <2>5 DEF DoctorInv
<1> QED
  BY <1>1, <1>2

\* DoctorInv is inductive: readable lines name older readable ones, the turns a
\* walk has found are a thread and it is at the parent of their first
\* (rundoctor_handlers.go:285-305, persist/diagnosis.go AppendDiagnosis).
THEOREM DoctorInvariant == DoctorSpec => []DoctorInv
<1>1. DoctorInit => DoctorInv
  <2> SUFFICES ASSUME DoctorInit PROVE DoctorInv
    OBVIOUS
  <2>1. dlog = <<>> /\ Len(dlog) = 0 /\ written = 0 /\ asks = [a \in Askers |-> NotAsking]
    BY DEF DoctorInit
  <2>2. NotAsking \in AskLocals /\ NotAsking.parent = NoDiag /\ NotAsking.pc = "idle" /\ NotAsking.chain = <<>>
    BY NoAsk DEF NotAsking
  <2>3. Len(NotAsking.chain) = 0
    BY <2>2
  <2>4. LogFormed
    BY <2>1 DEF LogFormed, ListDiagnoses
  <2>5. Thread(NotAsking) /\ WalkAt(NotAsking)
    BY <2>2, <2>3, DoctorAssumption DEF Thread, WalkAt
  <2> QED
    BY <2>1, <2>2, <2>4, <2>5 DEF DoctorInv
<1>2. DoctorInv /\ [DoctorNext]_doctorVars => DoctorInv'
  BY DoctorStep
<1> QED
  BY <1>1, <1>2, PTL DEF DoctorSpec

\* The prompt of a follow-up holds its thread without gaps: each turn the
\* parent of the next, back to the root or MaxDepth turns, though the log is
\* read once per turn and grows in between; turns get older towards the front,
\* so none comes twice (rundoctor_handlers.go:286-303).
THEOREM ThreadWhole == DoctorSpec => []PromptThreadWhole
<1>1. DoctorInv => PromptThreadWhole
  <2> SUFFICES ASSUME DoctorInv, NEW a \in Askers, asks[a].parent # NoDiag, asks[a].pc # "walk"
               PROVE  LET c == asks[a].chain IN
                      /\ c # <<>> /\ Last(c) = asks[a].parent /\ IsInjective(c)
                      /\ \A i \in 1..Len(c) - 1 : ParentOf(c[i + 1]) = c[i]
                      /\ Len(c) = MaxDepth \/ ParentOf(c[1]) = NoDiag
    BY DEF PromptThreadWhole
  <2> DEFINE q == asks[a]
  <2>1. q \in AskLocals /\ Thread(q) /\ WalkAt(q)
    BY DEF DoctorInv
  <2>2. Len(q.chain) > 0 /\ (Len(q.chain) = MaxDepth \/ ParentOf(q.chain[1]) = NoDiag)
    BY <2>1 DEF WalkAt
  <2>3. q.chain \in Seq(Nat) /\ q.chain # <<>> /\ DOMAIN q.chain = 1..Len(q.chain)
    BY <2>1, <2>2 DEF AskLocals
  <2>4. Last(q.chain) = q.parent
    BY <2>1, <2>2 DEF Last, Thread
  <2>5. IsInjective(q.chain)
    <3> SUFFICES ASSUME NEW i \in 1..Len(q.chain), NEW j \in 1..Len(q.chain), i # j
                 PROVE  q.chain[i] # q.chain[j]
      BY <2>3 DEF IsInjective
    <3>1. q.chain[i] \in Nat /\ q.chain[j] \in Nat
      BY <2>3
    <3>2. i < j \/ j < i
      BY <2>3
    <3> HIDE DEF q
    <3> QED
      BY <2>1, <3>1, <3>2 DEF Thread
  <2> QED
    BY <2>1, <2>2, <2>3, <2>4, <2>5 DEF Thread
<1> QED
  BY <1>1, DoctorInvariant, PTL
=============================================================================
