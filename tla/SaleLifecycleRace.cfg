SPECIFICATION Spec
CONSTANTS
  Sales = {s1}
  Requests = {r1, r2}
  NoSale = NoSale
  Faults = FALSE
INVARIANTS
  ApprovalLoggedFirst
