---------------------------- MODULE MCEventQueue ----------------------------
(* Small instances of EventQueue for TLC. *)
EXTENDS EventQueue, TLC

\* The workers are interchangeable: nothing compares or orders them.  For runs
\* of invariants only.
WorkerSymmetry == Permutations(Workers)
=============================================================================
