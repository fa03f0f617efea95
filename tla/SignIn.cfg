SPECIFICATION FairSpec
CONSTANTS
  MaxCodes = 2
  Workers = {w1, w2}
  MaxAttempts = 2
  MaxMisses = 2
INVARIANTS
  VerdictIsTrue
PROPERTIES
  NewestOpensOnce
  ImplementsOneKey
  EveryCodeSettles
CHECK_DEADLOCK FALSE
