SPECIFICATION FairSpec
CONSTANTS
  Messages <- MCMessages
  MaxSends = 3
  Routes = {"/a"}
  BufLen <- MCFits
INVARIANTS HandledAsSent ClosedWithReason
PROPERTY Answered
CHECK_DEADLOCK FALSE
