SPECIFICATION Spec
CONSTANTS
  Requests = {r1}
  FaultBudget = 3
  Blind = TRUE
INVARIANTS
  NeverDoublePaid
