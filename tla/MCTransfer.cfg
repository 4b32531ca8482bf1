SPECIFICATION Spec
CONSTANTS
  Sizes <- SmallSizes
  Divs <- SmallDivs
  MaxSize = 7
  BinDiv = 2
  Word = 5
  Byte = 3
  MaxAnswers = 2
INVARIANTS CompletedMeansCopied CompletedMeansAccepted EndIsMarked EchoStopsTransfer
PROPERTY ImplementsCopy
CHECK_DEADLOCK FALSE
