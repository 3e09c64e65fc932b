SPECIFICATION RunSpec
CONSTANTS
  f1 = f1
  f2 = f2
  u1 = u1
  u2 = u2
  old = old
  Files = {f1}
  Readers = {}
  DownloadPhase = TRUE
  VerifyHashes = FALSE
  FilenameMode = FALSE
  MaxAttach = 2
  DownUsers = {u1}
  Foreign = {old}
  ResultsCap = 1
  MaxErrors = 1
CHECK_DEADLOCK FALSE
INVARIANT SightingsCountedOnce
PROPERTIES
  StoreContract
