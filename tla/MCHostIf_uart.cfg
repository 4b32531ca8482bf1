SPECIFICATION FairSpec
CONSTANTS
  Ifs <- UartOnly
  MqMax = 1
  MaxCmds = 3
  MaxFrames = 3
INVARIANTS BufferOwnership
PROPERTIES ImplementsChannel PairedReply NoDiscardInPop CommandReturns
