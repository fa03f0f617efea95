SPECIFICATION Spec
CONSTANTS
  Procs = {p1, p2}
  Actions = {a1}
  Large = {}
  Users = {u1, u2}
  NoUser = NoUser
  MaxEdits = 2
  FaultBudget = 0
PROPERTIES
  UndoKeepsLaterEdits
