\* Every component with two concurrent actors, two of each datum, every fault.
SPECIFICATION StoresSpec
CONSTANTS
  a1 = a1
  a2 = a2
  h1 = h1
  h2 = h2
  k1 = k1
  k2 = k2
  Files = {f1}
  Readers = {"r"}
  DownloadPhase = TRUE
  VerifyHashes = TRUE
  FilenameMode = FALSE
  MaxAttach = 2
  NWorkers = 2
  Handlers = {a1, a2}
  MaxRuns = 3
  MaxCalls = 2
  MaxClock = 1
  MaxForeign = 1
  ClusterFaults = {"refuse", "timeout", "lost", "disk"}
  NoRun = NoRun
  ArchRuns = {h1, h2}
  MaxRows = 1
  MaxCrashes = 2
  ArchFaults = TRUE
  NoMeta = NoMeta
  Askers = {a1, a2}
  MaxDepth = 2
  MaxDiagnoses = 3
  DiskFills = TRUE
  NoDiag = NoDiag
  Refs = {k1, k2}
  Passes = {h1, h2}
  Clients = {a1, a2}
  VaultOps = {"unlock", "lock", "set", "configure", "delete", "change", "migrate"}
  IdleSweep = TRUE
  MaxRequests = 3
  VaultFaults = {"save", "crash"}
  Nothing = Nothing
  Hosts = {h1, h2}
  Keys = {k1, k2}
  Dials = {a1, a2}
  MaxRotations = 1
  TrustFaults = {"save", "crash"}
  NoKey = NoKey
  FileHosts = {h1, h2}
  FileKeys = {k1, k2}
  Probes = {a1, a2}
  MaxProbes = 3
  NoLines = NoLines
  Uploaders = {a1, a2}
  MaxUploads = 4
  MaxBoots = 1
  Missing = Missing
  Paired = {s1, s2}
  Alone = {s3}
  Receiver = s4
  Names = {f1}
  Putters = {a1, a2}
  MaxPuts = 2
  Evict = TRUE
  Deletes = TRUE
  NoPut = NoPut
  Posts = {a1, a2}
  Jobs = {j1}
  MaxAlertCrashes = 1
  NoFile = NoFile
SYMMETRY Symmetry
CHECK_DEADLOCK FALSE
INVARIANTS
  MatchedRowsCounted
  MissedRowsOnDisk
  NoStrayRun
  RecoveredOnBoot
  ListingMissesNoRun
  PromptThreadWhole
  StoredSecretsDurable
  FileAlwaysWhole
  ConsentOnDisk
  SoloProbesKeepTrust
  SavedDumpsKept
  AckedUploadsDelivered
  EveryChannelTried
  SoloSavesAtomic
PROPERTIES
  HistoryKept
  ConsentAdmits
