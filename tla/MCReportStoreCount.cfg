\* Both flushers on one record.
SPECIFICATION Spec
CONSTANTS
  f1 = f1
  f2 = f2
  Files = {f1}
  Readers = {}
  DownloadPhase = TRUE
  VerifyHashes = TRUE
  FilenameMode = FALSE
  MaxAttach = 2
CHECK_DEADLOCK FALSE
INVARIANT FlushedCountsRecords
