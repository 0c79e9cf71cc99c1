SPECIFICATION Spec
CONSTANTS
  NWorkers = 2
  OpenAttempts = 2
  MaxRestarts = 1
  Window = 1
  MaxTime = 0
  MaxFaults = 1
  MainDies = TRUE
  FaultInWrite = FALSE
INVARIANTS
  TypeOK
  OneWorkerPerRole
  OnlyReplacementSurvives
CHECK_DEADLOCK FALSE
