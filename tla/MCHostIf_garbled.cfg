SPECIFICATION Spec
CONSTANTS
  Ifs <- SpiOnly
  MqMax = 1
  MaxCmds = 1
  MaxFrames = 1
INVARIANTS NoInvalidHeaderDelivered
