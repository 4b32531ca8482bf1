SPECIFICATION Spec
CONSTANTS
  Pids <- FourPids
INVARIANTS ResourcesOutliveTasks PidsNameTasks AllOrNothing FreedOnce
PROPERTIES OthersSpared
