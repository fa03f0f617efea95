SPECIFICATION FairSpec
CONSTANTS
  Workers = {w1, w2}
  NoWorker = NoWorker
  Sales = {s1}
  Campaigns = {c1}
  Clawing = {c1}
  MaxEvents = 2
  BatchLimit = 2
  MaxAttempts = 2
  RetryBudget = 1
  CrashBudget = 2
  Stalls = FALSE
  RetryCleared = FALSE
INVARIANTS
  NoBypass
  CursorSound
  OneHolder
  PaidOnce
  ClawbackHasAward
  NoSurvivingAward
PROPERTIES
  ImplementsOrderedLedger
  EveryEventPassed
CHECK_DEADLOCK FALSE
