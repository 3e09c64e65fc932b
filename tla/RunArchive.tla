----------------------------- MODULE RunArchive -----------------------------
(***************************************************************************)
(* A run on disk: the streamed CSV, the seal that ends with the meta JSON   *)
(* (internal/runner/runner.go: sealAllAndWriteMeta), the recovery at the    *)
(* next boot (internal/persist) and GET /api/runs, which joins the runs in  *)
(* memory with the metas on disk (internal/web/web.go: handleRuns).         *)
(*                                                                         *)
(* The process may die between any two of these steps, and inside the       *)
(* flush of a batch: the CSV writer's buffer is written in pieces, so the   *)
(* last row may be cut short.                                               *)
(***************************************************************************)
EXTENDS Integers, Sequences, FiniteSets

CONSTANTS
    ArchRuns,       \* run identities
    MaxRows,        \* bound: files a run finishes
    MaxCrashes,     \* bound: deaths of the process
    ArchFaults,     \* whether writes to the reports directory may fail
    NoMeta          \* no file

ASSUME ArchAssumption ==
    /\ MaxRows \in Nat /\ MaxCrashes \in Nat
    /\ ArchFaults \in BOOLEAN

\* What a CSV holds: rows of files that went well or failed, the analysis
\* trailer, and a row cut by a crash: "torn" still reads as a row, "broken"
\* (cut inside a quoted field or inside the header) does not.
Rows == {"ok", "failed", "torn", "broken", "trailer"}

\* What a meta JSON says.
Metas == [total : Nat, failed : Nat, interrupted : BOOLEAN]

ASSUME NoMetaAssumption == NoMeta \notin Metas /\ NoMeta \notin Seq(Rows)

VARIABLES
    process,        \* "up", "down", "recovering"
    stage,          \* per run: where it is, "dead" when its process died
    finished,       \* per run: outcomes of its files, in order
    onDiskRows,        \* per run: how many of them have been flushed
    csvFile,            \* per run: the rows of its CSV, NoMeta without a file
    temp, meta,     \* per run: the ".tmp" beside the meta; the meta JSON
    toRecover,      \* the CSVs RecoverInterrupted has still to look at
    lister,         \* the locals of one GET /api/runs
    crashes,        \* counter of the bound
    unwritten       \* runs whose meta could not be written

archVars == <<process, stage, finished, onDiskRows, csvFile, temp, meta, toRecover,
              lister, crashes, unwritten>>
archFiles == <<csvFile, temp, meta>>

InMemory == {"running", "flushed", "trailed", "renaming", "sealed"}
NotListing == [pc |-> "idle", live |-> {}, due |-> {}, reply |-> {}]

Count(rows, kinds) == Cardinality({i \in DOMAIN rows : rows[i] \in kinds})

ArchInit ==
    /\ process = "up"
    /\ stage = [r \in ArchRuns |-> "idle"]
    /\ finished = [r \in ArchRuns |-> <<>>]
    /\ onDiskRows = [r \in ArchRuns |-> 0]
    /\ csvFile = [r \in ArchRuns |-> NoMeta]
    /\ temp = [r \in ArchRuns |-> FALSE]
    /\ meta = [r \in ArchRuns |-> NoMeta]
    /\ toRecover = {} /\ lister = NotListing
    /\ crashes = 0 /\ unwritten = {}

(***************************************************************************)
(* A run writes its report.                                                 *)
(***************************************************************************)
\* StartWithPersistAndTLS opens the stream; the header waits for a row.
RunOpens(r) ==
    /\ process = "up" /\ stage[r] = "idle"
    /\ stage' = [stage EXCEPT ![r] = "running"]
    /\ csvFile' = [csvFile EXCEPT ![r] = <<>>]
    /\ UNCHANGED <<process, finished, onDiskRows, temp, meta, toRecover, lister, crashes, unwritten>>

FileFinishes(r, outcome) ==
    /\ process = "up" /\ stage[r] = "running" /\ Len(finished[r]) < MaxRows
    /\ finished' = [finished EXCEPT ![r] = Append(@, outcome)]
    /\ UNCHANGED <<process, stage, onDiskRows, archFiles, toRecover, lister, crashes, unwritten>>

Pending(r) == SubSeq(finished[r], onDiskRows[r] + 1, Len(finished[r]))

FlushRows(r) ==
    /\ csvFile' = [csvFile EXCEPT ![r] = @ \o Pending(r)]
    /\ onDiskRows' = [onDiskRows EXCEPT ![r] = Len(finished[r])]

\* The background flusher writes a batch of rows.
BackgroundFlush(r) ==
    /\ process = "up" /\ stage[r] = "running" /\ Pending(r) # <<>>
    /\ FlushRows(r)
    /\ UNCHANGED <<process, stage, finished, temp, meta, toRecover, lister, crashes, unwritten>>

\* The seal flushes what is left and closes the stream; a failed flush is
\* logged and the seal goes on.
SealFlush(r) ==
    /\ process = "up" /\ stage[r] = "running"
    /\ stage' = [stage EXCEPT ![r] = "flushed"]
    /\ \/ FlushRows(r)
       \/ ArchFaults /\ UNCHANGED <<csvFile, onDiskRows>>
    /\ UNCHANGED <<process, finished, temp, meta, toRecover, lister, crashes, unwritten>>

\* appendCSVAnalysis: the trailer; a failure is logged.
SealTrailer(r) ==
    /\ process = "up" /\ stage[r] = "flushed"
    /\ stage' = [stage EXCEPT ![r] = "trailed"]
    /\ \/ csvFile' = [csvFile EXCEPT ![r] = Append(@, "trailer")]
       \/ ArchFaults /\ UNCHANGED csvFile
    /\ UNCHANGED <<process, finished, onDiskRows, temp, meta, toRecover, lister, crashes, unwritten>>

\* What the seal writes: Metrics counts the successful uploads, the failure
\* tally is clamped to them.
SealedMeta(r) ==
    LET total == Count(finished[r], {"ok"}) IN
    LET failed == Count(finished[r], {"failed"}) IN
    [total |-> total, failed |-> IF failed > total THEN total ELSE failed,
     interrupted |-> FALSE]

\* WriteMeta up to the rename, and the error that ends the seal.
MetaTemp(r) ==
    /\ process = "up" /\ stage[r] = "trailed"
    /\ \/ /\ temp' = [temp EXCEPT ![r] = TRUE]
          /\ stage' = [stage EXCEPT ![r] = "renaming"]
          /\ UNCHANGED unwritten
       \/ /\ ArchFaults
          /\ stage' = [stage EXCEPT ![r] = "sealed"]
          /\ unwritten' = unwritten \cup {r}
          /\ UNCHANGED temp
    /\ UNCHANGED <<process, finished, onDiskRows, csvFile, meta, toRecover, lister, crashes>>

MetaRename(r) ==
    /\ process = "up" /\ stage[r] = "renaming"
    /\ stage' = [stage EXCEPT ![r] = "sealed"]
    /\ temp' = [temp EXCEPT ![r] = FALSE]
    /\ meta' = [meta EXCEPT ![r] = SealedMeta(r)]
    /\ UNCHANGED <<process, finished, onDiskRows, csvFile, toRecover, lister, crashes, unwritten>>

\* The retention loop forgets a run that is no longer active.
EvictRun(r) ==
    /\ process = "up" /\ stage[r] = "sealed"
    /\ stage' = [stage EXCEPT ![r] = "evicted"]
    /\ UNCHANGED <<process, finished, onDiskRows, archFiles, toRecover, lister, crashes, unwritten>>

(***************************************************************************)
(* The process dies and comes back.                                         *)
(***************************************************************************)
ProcessDies ==
    /\ process' = "down"
    /\ stage' = [r \in ArchRuns |-> IF stage[r] \in InMemory THEN "dead" ELSE stage[r]]
    /\ toRecover' = {} /\ lister' = NotListing
    /\ crashes' = crashes + 1

ArchCrash ==
    /\ process # "down" /\ crashes < MaxCrashes
    /\ ProcessDies
    /\ UNCHANGED <<finished, onDiskRows, archFiles, unwritten>>

\* It dies inside a flush: part of a row is on disk.
CrashInFlush(r) ==
    /\ process = "up" /\ crashes < MaxCrashes
    /\ stage[r] = "running" /\ Pending(r) # <<>>
    /\ \E piece \in {"torn", "broken"} : csvFile' = [csvFile EXCEPT ![r] = Append(@, piece)]
    /\ ProcessDies
    /\ UNCHANGED <<finished, onDiskRows, temp, meta, unwritten>>

\* Recovery that takes a leftover temporary file for a meta.
ScanCountsTemps == {r \in ArchRuns : csvFile[r] # NoMeta /\ meta[r] = NoMeta /\ ~temp[r]}

\* Recovery that forgets which runs have a meta.
ScanForgetsMetas == {r \in ArchRuns : csvFile[r] # NoMeta}

\* RecoverInterrupted's directory scan: CSVs without a meta.
CsvsWithoutMeta == {r \in ArchRuns : csvFile[r] # NoMeta /\ meta[r] = NoMeta}

ArchBoot ==
    /\ process = "down"
    /\ process' = "recovering"
    /\ toRecover' = CsvsWithoutMeta
    /\ UNCHANGED <<stage, finished, onDiskRows, archFiles, lister, crashes, unwritten>>

\* The rows that synthesiseMetaFromCSV reads: it stops at the trailer and at
\* a row that does not parse.
DataRows(rows) == SelectSeq(rows, LAMBDA o : o \notin {"trailer", "broken"})

\* synthesiseMetaFromCSV: a cut row that parses still counts as a file, and
\* its error code is gone.
RecoveredMeta(rows) ==
    [total |-> Count(rows, Rows \ {"trailer", "broken"}), failed |-> Count(rows, {"failed"}),
     interrupted |-> TRUE]

RecoverOne(r) ==
    /\ process = "recovering" /\ r \in toRecover
    /\ toRecover' = toRecover \ {r}
    /\ \/ /\ DataRows(csvFile[r]) # <<>>
          /\ meta' = [meta EXCEPT ![r] = RecoveredMeta(csvFile[r])]
          /\ temp' = [temp EXCEPT ![r] = FALSE]
          /\ UNCHANGED unwritten
       \/ /\ DataRows(csvFile[r]) = <<>>
          /\ UNCHANGED <<meta, temp, unwritten>>
       \/ /\ ArchFaults /\ DataRows(csvFile[r]) # <<>>
          /\ unwritten' = unwritten \cup {r}
          /\ UNCHANGED <<meta, temp>>
    /\ UNCHANGED <<process, stage, finished, onDiskRows, csvFile, lister, crashes>>

RecoveryDone ==
    /\ process = "recovering" /\ toRecover = {}
    /\ process' = "up"
    /\ UNCHANGED <<stage, finished, onDiskRows, archFiles, toRecover, lister, crashes, unwritten>>

(***************************************************************************)
(* GET /api/runs: the registry under the server's mutex, then the disk.     *)
(***************************************************************************)
Registered == {r \in ArchRuns : stage[r] \in InMemory}
OnDisk == {r \in ArchRuns : meta[r] # NoMeta}

\* A listing that takes the first half from the disk as well.
ListDiskTwice ==
    /\ process = "up" /\ lister.pc = "idle"
    /\ lister' = [pc |-> "disk", live |-> OnDisk, due |-> Registered \cup OnDisk, reply |-> {}]
    /\ UNCHANGED <<process, stage, finished, onDiskRows, archFiles, toRecover, crashes, unwritten>>

ListRegistry ==
    /\ process = "up" /\ lister.pc = "idle"
    /\ lister' = [pc |-> "disk", live |-> Registered, due |-> Registered \cup OnDisk,
                  reply |-> {}]
    /\ UNCHANGED <<process, stage, finished, onDiskRows, archFiles, toRecover, crashes, unwritten>>

ListDisk ==
    /\ process = "up" /\ lister.pc = "disk"
    /\ lister' = [lister EXCEPT !.pc = "done", !.reply = lister.live \cup OnDisk]
    /\ UNCHANGED <<process, stage, finished, onDiskRows, archFiles, toRecover, crashes, unwritten>>

ListAnswered ==
    /\ process = "up" /\ lister.pc = "done"
    /\ lister' = NotListing
    /\ UNCHANGED <<process, stage, finished, onDiskRows, archFiles, toRecover, crashes, unwritten>>

ArchNext ==
    \/ \E r \in ArchRuns :
          \/ RunOpens(r) \/ \E o \in {"ok", "failed"} : FileFinishes(r, o)
          \/ BackgroundFlush(r) \/ SealFlush(r) \/ SealTrailer(r)
          \/ MetaTemp(r) \/ MetaRename(r) \/ EvictRun(r)
          \/ CrashInFlush(r) \/ RecoverOne(r)
    \/ ArchCrash \/ ArchBoot \/ RecoveryDone
    \/ ListRegistry \/ ListDisk \/ ListAnswered

ArchSpec == ArchInit /\ [][ArchNext]_archVars

(***************************************************************************)
(* Properties.                                                              *)
(***************************************************************************)
\* Once the server is up again, every run that an earlier process left with
\* a row in its CSV has an entry (recover.go:17-22), unless the entry itself
\* could not be written: whichever step of the seal the process died in.
RecoveredOnBoot ==
    process = "up" =>
        \A r \in ArchRuns :
            (stage[r] = "dead" /\ DataRows(csvFile[r]) # <<>>)
                => meta[r] # NoMeta \/ r \in unwritten

\* GET /api/runs misses no run that was in the registry or on disk when the
\* request came, although runs seal and leave the registry between its two
\* reads (web.go:2061-2159).
ListingMissesNoRun == lister.pc = "done" => lister.due \subseteq lister.reply

\* The reports directory keeps the promise of RunHistory: recovery never
\* replaces a sealed entry and no entry ever changes (recover.go:55-57).
History == INSTANCE RunHistory
    WITH Runs <- ArchRuns, Entries <- Metas, Unlisted <- NoMeta, history <- meta
HistoryKept == History!HistorySpec

\* "to recover the counts the running process would have written"
\* (recover.go:71-72): a run whose rows all reached the disk is recovered
\* with the counts its seal would have written.
RecoveredAsSealed ==
    \A r \in ArchRuns :
        (meta[r] # NoMeta /\ meta[r].interrupted /\ DataRows(csvFile[r]) = finished[r])
            => [meta[r] EXCEPT !.interrupted = FALSE] = SealedMeta(r)
=============================================================================
