SPECIFICATION Spec
CONSTANTS
  Ifs <- I2cSpi
  MqMax = 1
  MaxCmds = 1
  MaxFrames = 2
INVARIANTS TypeOK ReplyFromReceiver LineInv
