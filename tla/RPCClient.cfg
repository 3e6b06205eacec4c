SPECIFICATION LiveSpec
CONSTANTS
  Calls = {c1}
  Pings = {p1}
  NoReq = noReq
  MaxId = 2
INVARIANTS
  NoOrphan
  PendingDrained
  ReplyToOwner
  SuccessHasReply
PROPERTIES
  CloseReleasesCallers
  AnsweredReturns
CHECK_DEADLOCK FALSE
