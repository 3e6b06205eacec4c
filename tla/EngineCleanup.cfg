SPECIFICATION Spec
CONSTANTS
  Fds = {f1}
  Conns = {c1, c2}
  Lfd = lfd
  NoFd = noFd
  NoConn = noConn
  BufLen = 1
  MaxArrivals = 2
PROPERTIES CleanupClosesOnlyIdle
CHECK_DEADLOCK FALSE
