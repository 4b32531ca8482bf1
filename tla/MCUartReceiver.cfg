SPECIFICATION FairSpec
CONSTANTS
  HeaderSize = 2
  BufSz = 4
  OprLens <- ShortLens
  MaxStream = 8
INVARIANTS NothingLost FullForAReason
PROPERTIES HandlesWholeFrames DropsOnlyDamage BytesAreRead
