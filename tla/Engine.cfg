SPECIFICATION FairSpec
CONSTANTS
  Fds = {f1}
  Conns = {c1, c2}
  Lfd = lfd
  NoFd = noFd
  NoConn = noConn
  BufLen = 2
  MaxArrivals = 3
INVARIANTS OneOwner CloseHitsOwnDescriptor NoDescriptorLeak
  IOReachesOwnClient PanicNeedsCleaner
PROPERTIES PeerCloseNoticed IdleReclaimed
CHECK_DEADLOCK FALSE
