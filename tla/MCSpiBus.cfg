SPECIFICATION FairSpec
CONSTANTS
  Unlocks = {"refused", "obeyed"}
  Deaths = {"kept", "freed"}
  MaxChunks = 5
INVARIANTS HeaderExcludesWrite HeldWhereUsed
PROPERTIES WriteGetsBus TaskGetsLock
CHECK_DEADLOCK FALSE
