SPECIFICATION FairSpec
CONSTANTS
  Conns = {c1}
  NoConn = noConn
  MaxFrames = 2
  MaxVersions = 2
INVARIANTS
  ActiveCounted
  NoSocketLeak
PROPERTIES
  ImplementsPeer
  ShutdownReturns
  SnapshotDrains
CHECK_DEADLOCK FALSE
