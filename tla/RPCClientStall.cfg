SPECIFICATION FairSpec
CONSTANTS
  Calls = {c1}
  Pings = {}
  NoReq = noReq
  MaxId = 1
PROPERTIES
  CloseReturns
CHECK_DEADLOCK FALSE
