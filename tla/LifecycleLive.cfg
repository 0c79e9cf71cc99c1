\* One role, so that every way of dying, restarting and ending can interleave
\* with the clock; a window of two ticks lets time stamps expire.
SPECIFICATION FairSpec
CONSTANTS
  NWorkers = 1
  OpenAttempts = 1
  MaxRestarts = 1
  Window = 2
  MaxTime = 2
  MaxFaults = 2
  MainDies = TRUE
  FaultInWrite = FALSE
INVARIANTS
  BudgetHolds
PROPERTIES
  DeadReplaced
  LoopEnds
  RestartHappens
CHECK_DEADLOCK FALSE
