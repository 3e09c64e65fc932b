---------------------------- MODULE DumpSession ----------------------------
(***************************************************************************)
(* One incident session of threaddump-analyzer: the dumps in memory         *)
(* (internal/session/session.go), their files and meta.json                 *)
(* (internal/session/persist.go), the upload handlers (internal/web/web.go) *)
(* and the boot that rehydrates the session.                                *)
(*                                                                         *)
(* Save holds the session's read lock, which uploads exclude and other      *)
(* saves do not; SaveAuxiliary reads, changes and rewrites meta.json with   *)
(* no lock.  Both use the one meta.json.tmp.                                *)
(***************************************************************************)
EXTENDS Integers, Sequences, FiniteSets, SequencesExt

CONSTANTS
    Uploaders,      \* concurrent requests
    MaxUploads,     \* bound: dumps and auxiliary files uploaded
    MaxBoots,       \* bound: crashes
    Missing         \* no file, no client

ASSUME DumpAssumption == MaxUploads \in Nat /\ MaxBoots \in Nat /\ Missing \notin Nat

VARIABLES
    dumps,          \* Session.dumps: the dumps in upload order
    dumpFile,       \* per index: the dump in dump-NN.txt, 0 if cut, Missing
    smeta, smetaTmp,\* meta.json and meta.json.tmp: how many dumps, aux or not
    aux,            \* an auxiliary file is on disk
    savers,         \* who holds the session's read lock
    up,             \* per request: program counter and locals
    uploads, boots, \* counters of the bounds
    kept,           \* dumps whose upload was answered after a successful Save
    crossed         \* an auxiliary save overlapped another save

dumpVars == <<dumps, dumpFile, smeta, smetaTmp, aux, savers, up, uploads, boots, kept, crossed>>

Indices == 1..MaxUploads
NoUpload == [pc |-> "idle", kind |-> "none", dump |-> 0, meta |-> Missing]

DumpInit ==
    /\ dumps = <<>>
    /\ dumpFile = [i \in Indices |-> Missing]
    /\ smeta = [names |-> 0, aux |-> FALSE] /\ smetaTmp = Missing
    /\ aux = FALSE
    /\ savers = {}
    /\ up = [u \in Uploaders |-> NoUpload]
    /\ uploads = 0 /\ boots = 0 /\ kept = {} /\ crossed = FALSE

UpAt(u, pc) == up[u].pc = pc
UpGoes(u, pc) == up' = [up EXCEPT ![u].pc = pc]
Answers(u) == up' = [up EXCEPT ![u] = NoUpload]
Writing(u) == up[u].pc \in {"files", "meta", "rename", "aux"}

-----------------------------------------------------------------------------

\* handleUpload parsed the body: AddDump, which excludes every saver.
AddDump(u) ==
    /\ UpAt(u, "idle") /\ uploads < MaxUploads /\ uploads' = uploads + 1
    /\ savers = {}
    /\ dumps' = Append(dumps, uploads')
    /\ up' = [up EXCEPT ![u] = [NoUpload EXCEPT !.pc = "save", !.kind = "dump", !.dump = uploads']]
    /\ UNCHANGED <<dumpFile, smeta, smetaTmp, aux, savers, boots, kept, crossed>>

Overlap(u) == crossed' = (crossed \/ \E w \in Uploaders \ {u} :
                  Writing(w) /\ "aux" \in {up[u].kind, up[w].kind})

\* A Save that does not hold the read lock while it writes.
SaveUnlocked(u) ==
    /\ UpAt(u, "save")
    /\ up' = [up EXCEPT ![u].pc = "files", ![u].meta = [names |-> Len(dumps), aux |-> FALSE]]
    /\ UNCHANGED <<dumps, dumpFile, smeta, smetaTmp, aux, savers, uploads, boots, kept, crossed>>

\* Save: the read lock, and the metadata anew (without the auxiliary files).
SaveBegins(u) ==
    /\ UpAt(u, "save")
    /\ savers' = savers \cup {u}
    /\ up' = [up EXCEPT ![u].pc = "files", ![u].meta = [names |-> Len(dumps), aux |-> FALSE]]
    /\ Overlap(u)
    /\ UNCHANGED <<dumps, dumpFile, smeta, smetaTmp, aux, uploads, boots, kept>>

\* The first of the session's dump files that is not there is written.
WriteMissing(u) ==
    /\ UpAt(u, "files")
    /\ \E i \in 1..Len(dumps) :
         /\ dumpFile[i] = Missing /\ \A j \in 1..(i - 1) : dumpFile[j] # Missing
         /\ dumpFile' = [dumpFile EXCEPT ![i] = dumps[i]]
    /\ UNCHANGED <<dumps, smeta, smetaTmp, aux, savers, up, uploads, boots, kept, crossed>>

\* Save goes on to the metadata when no file is missing.
FilesDone(u) ==
    /\ UpAt(u, "files")
    /\ \A i \in 1..Len(dumps) : dumpFile[i] # Missing
    /\ UpGoes(u, "meta")
    /\ UNCHANGED <<dumps, dumpFile, smeta, smetaTmp, aux, savers, uploads, boots, kept, crossed>>

\* writeMetaAtomic: the temporary file, shared by all, ...
WriteTmp(u) ==
    /\ UpAt(u, "meta")
    /\ smetaTmp' = up[u].meta
    /\ UpGoes(u, "rename")
    /\ UNCHANGED <<dumps, dumpFile, smeta, aux, savers, uploads, boots, kept, crossed>>

\* ... and the rename, which fails when another save renamed it away.  An
\* error is logged; the answer is ok either way.
RenameMeta(u) ==
    /\ UpAt(u, "rename")
    /\ IF smetaTmp = Missing
       THEN UNCHANGED <<smeta, smetaTmp, kept>>
       ELSE /\ smeta' = smetaTmp /\ smetaTmp' = Missing
            /\ kept' = kept \cup (IF up[u].kind = "dump" THEN {up[u].dump} ELSE {})
    /\ savers' = savers \ {u}
    /\ Answers(u)
    /\ UNCHANGED <<dumps, dumpFile, aux, uploads, boots, crossed>>

\* A write fails: Save or SaveAuxiliary gives up, the answer is ok.
SaveGivesUp(u) ==
    /\ up[u].pc \in {"files", "meta", "aux"}
    /\ savers' = savers \ {u}
    /\ Answers(u)
    /\ UNCHANGED <<dumps, dumpFile, smeta, smetaTmp, aux, uploads, boots, kept, crossed>>

\* handleUploadGCLog, handleUploadCPU: SaveAuxiliary reads the metadata, ...
AuxReads(u) ==
    /\ UpAt(u, "idle") /\ uploads < MaxUploads /\ uploads' = uploads + 1
    /\ up' = [up EXCEPT ![u] = [NoUpload EXCEPT !.pc = "aux", !.kind = "aux", !.meta = smeta]]
    /\ crossed' = (crossed \/ \E w \in Uploaders \ {u} : Writing(w))
    /\ UNCHANGED <<dumps, dumpFile, smeta, smetaTmp, aux, savers, boots, kept>>

\* ... writes the raw text and goes on to writeMetaAtomic.
AuxWrites(u) ==
    /\ UpAt(u, "aux")
    /\ aux' = TRUE
    /\ up' = [up EXCEPT ![u].pc = "meta", ![u].meta.aux = TRUE]
    /\ UNCHANGED <<dumps, dumpFile, smeta, smetaTmp, savers, uploads, boots, kept, crossed>>

\* LoadAll: the files meta.json names that read and parse, in order.
LoadNamed == SelectSeq([i \in 1..smeta.names |-> dumpFile[i]],
                       LAMBDA d : d # Missing /\ d # 0)

\* The process dies, possibly within one dump file's write, and boots.
Boot ==
    /\ boots < MaxBoots /\ boots' = boots + 1
    /\ \E cut \in {i \in 1..Len(dumps) : dumpFile[i] = Missing /\ \E u \in savers : UpAt(u, "files")} \cup {0} :
         dumpFile' = IF cut = 0 THEN dumpFile ELSE [dumpFile EXCEPT ![cut] = 0]
    /\ dumps' = LoadNamed
    /\ savers' = {}
    /\ up' = [u \in Uploaders |-> NoUpload]
    /\ UNCHANGED <<smeta, smetaTmp, aux, uploads, kept, crossed>>

DumpNext ==
    \/ \E u \in Uploaders :
         \/ AddDump(u) \/ SaveBegins(u) \/ WriteMissing(u) \/ FilesDone(u)
         \/ WriteTmp(u) \/ RenameMeta(u) \/ SaveGivesUp(u) \/ AuxReads(u) \/ AuxWrites(u)
    \/ Boot

DumpSpec == DumpInit /\ [][DumpNext]_dumpVars

-----------------------------------------------------------------------------
(* Properties.                                                              *)

\* A dump whose Save succeeded stays named by meta.json, and its file is its
\* own, unless an auxiliary save overlapped or a crash left a stray file
\* (persist.go:41-107): overlapping uploads lose none.
SavedDumpsKept ==
    (~crossed /\ boots = 0) =>
       \A d \in kept : \E i \in 1..smeta.names : dumpFile[i] = d

\* "Write only if missing - dump content never mutates after upload"
\* (persist.go:66): the file of a named dump holds that dump.
DumpFileIsItsDump ==
    \A u \in Uploaders : UpAt(u, "rename") /\ up[u].kind = "dump" =>
       \A i \in 1..Len(dumps) : dumpFile[i] = dumps[i]

\* "non-empty content is written and recorded in meta.json" (persist.go:77-78):
\* when nothing is in flight, an auxiliary file on disk is recorded.
AuxRecorded ==
    (boots = 0 /\ \A u \in Uploaders : UpAt(u, "idle")) => (aux => smeta.aux)
=============================================================================
