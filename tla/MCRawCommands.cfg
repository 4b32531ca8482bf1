CONSTANTS
  Lens = {0, 1, 2}
  MaxTries = 3
  MaxCalls = 2
SPECIFICATION FairSpec
INVARIANTS TakenAsCalled TakenOnce
PROPERTIES SplitAnswerKept CmdReturns
CHECK_DEADLOCK FALSE
