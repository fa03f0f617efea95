---------------------------- MODULE MCKnockSync ----------------------------
(* KnockSync for TLC: one phone, two representatives.                      *)
EXTENDS KnockSync

CONSTANTS p1, r1, r2

MCPhones == {p1}
MCReps   == {r1, r2}

\* Representatives are interchangeable, so the first tap credits r1.
MCCredits == <<{r1}, {r1, r2}>>

=============================================================================
