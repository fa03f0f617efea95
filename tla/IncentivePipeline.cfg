SPECIFICATION PipelineSpec
CONSTANTS
  Workers = {w1}
  NoWorker = NoWorker
  Sales = {s1}
  Campaigns = {c1}
  Clawing = {c1}
  MaxEvents = 3
  BatchLimit = 2
  MaxAttempts = 2
  RetryBudget = 1
  CrashBudget = 1
  Stalls = FALSE
  RetryCleared = FALSE
  Requests = {r1}
  NoSale = NoSale
  Faults = TRUE
INVARIANTS
  SalesAreLogged
  NothingKeptForLostSale
CHECK_DEADLOCK FALSE
