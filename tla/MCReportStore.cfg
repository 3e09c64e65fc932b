\* Two files, no live-CSV request, no hashes: the two flushers against each other.
SPECIFICATION Spec
CONSTANTS
  f1 = f1
  f2 = f2
  Files = {f1, f2}
  Readers = {}
  DownloadPhase = TRUE
  VerifyHashes = FALSE
  FilenameMode = FALSE
  MaxAttach = 2
SYMMETRY FilesSymmetry
CHECK_DEADLOCK FALSE
INVARIANTS
  ReleasedRowsOnDisk
  LiveRecordsIndexed
  OneRowPerFlusher
  BackgroundRowsSettled
PROPERTY SealedForGood
