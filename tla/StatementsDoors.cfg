SPECIFICATION Spec
CONSTANTS
  Procs = {p1}
  Sales = {s1, s2}
  Earlier = {s1}
  Adjustments = {a1}
  NoId = NoId
  CrashBudget = 0
PROPERTIES
  DoorsAreThoseCounted
