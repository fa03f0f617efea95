SPECIFICATION FairSpec
CONSTANTS
  Keys = {k1, k2}
  Priorities = {1, 2}
  MaxConcurrency = 2
  MaxPerSecond = 1
  MaxPending = 2
  MaxCallers = 3
INVARIANTS
  OneTaskPerKey
PROPERTIES
  ImplementsFrontDesk
  EverybodyIsAnswered
CHECK_DEADLOCK FALSE
