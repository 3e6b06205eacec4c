SPECIFICATION Spec
CONSTANTS
  Conns = {c1}
  NoConn = noConn
  MaxFrames = 1
  MaxVersions = 1
INVARIANT
  ActiveRequestsAnswered
CHECK_DEADLOCK FALSE
