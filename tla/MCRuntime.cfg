\* Three users, two connections, two download
\* workers, two spawned workers on one machine (one of them
\* under a name pkill does not find), two timed transfers.
SPECIFICATION RuntimeSpec
CONSTANTS
  NormalUsers = {u1, u2}
  LargeUsers = {u2, u3}
  Streams = 2
  Threshold = 2
  RequiredTicks = 2
  MaxDispatched = 4
  Unset = Unset
  Slots = 2
  Movers = {m1, m2, m3}
  MaxConns = 4
  MaxTransfers = 4
  Forced = FALSE
  NoMover = NoMover
  Pollers = {p1, p2}
  MaxLists = 2
  NoConn = NoConn
  Spawns = {s1, s2}
  Machines = {h1}
  Named = {s1, Orphan}
  MaxFails = 2
  Orphan = Orphan
  NoSpawn = NoSpawn
  Samples = {x1, x2}
  MaxNs = 2
  BucketWidth = 1
  NumBuckets = 3
  Points = 2
CHECK_DEADLOCK FALSE
INVARIANTS
  TokensMatchUploads
  MaxFailuresMeansAll
  NoConnectionLeaks
  ClosedTunnelsStopTheirWorker
  LeftoversReaped
  PercentileBracketed
PROPERTIES
  WorkersReturn
  LostSessionsClosed
