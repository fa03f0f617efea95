SPECIFICATION FairSpec
CONSTANTS
  Workers = {w1}
  NoWorker = NoWorker
  Sales = {s1}
  Campaigns = {c1}
  Clawing = {c1}
  MaxEvents = 2
  BatchLimit = 2
  MaxAttempts = 2
  RetryBudget = 1
  CrashBudget = 1
  Stalls = FALSE
  RetryCleared = TRUE
PROPERTIES
  CommittedWorkIsPassed
CHECK_DEADLOCK FALSE
