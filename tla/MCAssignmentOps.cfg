SPECIFICATION Spec
CONSTANTS
  Ops = {o1, o2}
  Leads = {l1, l2}
  Reps = {r1}
  NoRep = NoRep
  Elsewhere = Elsewhere
  PendingCap = 2
  UndoCap = 1
  MaxChunks = 2
  OtherWrites = 1
INVARIANTS
  CountsAreTrue
  InverseIsKept
  UndoLeavesNothing
PROPERTIES
  LaterWorkKept
SYMMETRY Symmetry
CHECK_DEADLOCK FALSE
