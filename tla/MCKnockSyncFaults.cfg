SPECIFICATION Spec
CONSTANTS
  p1 = p1
  r1 = r1
  r2 = r2
  Phones <- MCPhones
  Reps <- MCReps
  Credits <- MCCredits
  Nobody = Nobody
  MaxTaps = 2
  MaxTime = 2
  MaxCalls = 2
  FaultBudget = 2
  MaxAttempts = 1
INVARIANTS
  TypeOK
  TapsAreKept
  VerdictsAreTrue
  NewestTapWins
  MoneyFollowsKnocks
PROPERTY
  ImplementsTapBook
CHECK_DEADLOCK FALSE
