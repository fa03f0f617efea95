SPECIFICATION FairSpec
CONSTANTS
  Requests = {r1, r2}
  FaultBudget = 4
  Blind = FALSE
INVARIANTS
  NeverDoublePaid
  BooksMatchStripe
PROPERTIES
  ReversedIsFinal
  MovedMoneyIsRecorded
