SPECIFICATION FairSpec
CONSTANTS
  Buses = {"I2C", "SPI"}
  Lens <- AllLens
  MaxTokens = 2
INVARIANTS ReadsInBuffer CheckedIsWhole ReadsAnnounced OneRequestPerChunk
PROPERTY FrameIsChecked
