SPECIFICATION RunSpec
CONSTANTS
  f1 = f1
  f2 = f2
  u1 = u1
  u2 = u2
  old = old
  Files = {f1, f2}
  Readers = {}
  DownloadPhase = FALSE
  VerifyHashes = FALSE
  FilenameMode = FALSE
  MaxAttach = 2
  DownUsers = {}
  Foreign = {}
  ResultsCap = 1
  MaxErrors = 0
SYMMETRY FilesSymmetry
CHECK_DEADLOCK FALSE
INVARIANTS
  AwaitedRecordsLive
  SealedReportComplete
