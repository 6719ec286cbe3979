SPECIFICATION CallSpec
CONSTANTS
  Interval = 1
  MaxSkip = 1
  MaxRatchetGeneration = 4
  Window = 2
  Scenarios <- MCScenarios
INVARIANTS
  RestoredCallContinues
CHECK_DEADLOCK FALSE
