SPECIFICATION Spec
CONSTANTS
  Procs = {p1, p2}
  Actions = {a1}
  Large = {a1}
  Users = {u1, u2}
  NoUser = NoUser
  MaxEdits = 2
  FaultBudget = 1
INVARIANTS
  SecondPerson
  HistoryIsTrue
PROPERTIES
  ImplementsConsent
