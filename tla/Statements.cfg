SPECIFICATION Spec
CONSTANTS
  Procs = {p1}
  Sales = {s1, s2}
  Earlier = {s1}
  Adjustments = {a1, a2}
  NoId = NoId
  CrashBudget = 2
INVARIANTS
  AmountAddsUp
  PaidIsHeld
PROPERTIES
  LockedIsFrozen
  FreezeMatchesLedger
