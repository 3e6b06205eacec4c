SPECIFICATION FairSpec
CONSTANTS
  Writers = {"pump"}
  Lens = {5000, 65536}
  Payloads <- MCPayloads
  Byte <- MCByte
  Key <- MCKey
  XorByte <- MCXor
  MaxMessageSize = 2
  BufSize = 4096
  MaxFrames = 3
  MaxWrites = 1
INVARIANTS
  FramesWhole
  MessagesIntact
PROPERTY CloseEnds
CHECK_DEADLOCK FALSE
