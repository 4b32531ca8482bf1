SPECIFICATION SteadySpec
CONSTANTS
  Ifs <- I2cSpi
  MqMax = 1
  MaxCmds = 3
  MaxFrames = 3
INVARIANTS TokensMatchFrames
PROPERTIES FramesAreRead
CHECK_DEADLOCK FALSE
