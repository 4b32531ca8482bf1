SPECIFICATION Spec
CONSTANTS
  Buses = {"I2C"}
  Lens <- EdgeLens
  MaxTokens = 1
INVARIANT CheckedFrameIsRead
