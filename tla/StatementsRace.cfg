SPECIFICATION Spec
CONSTANTS
  Procs = {p1, p2}
  Sales = {s1, s2}
  Earlier = {}
  Adjustments = {a1, a2}
  NoId = NoId
  CrashBudget = 0
INVARIANTS
  PaidAddsUp
