------------------------- MODULE MCSystemTimeAlarms -------------------------
(* Instances of SystemTimeAlarms small enough for TLC. *)
EXTENDS SystemTimeAlarms, TLC

CallerSymmetry == Permutations(Callers)

\* a deadline before the start of time, one ahead
PastAndAhead == {-1, 1}
=============================================================================
