-------------------------- MODULE MCAssignmentOps --------------------------
EXTENDS AssignmentOps, TLC

\* No property tells one lead, or one operation, from another.
Symmetry == Permutations(Leads) \cup Permutations(Ops)
=============================================================================
