---------------------------- MODULE MCEnrolment ----------------------------
(***************************************************************************)
(* Enrolment for TLC: interchangeable sessions.                            *)
(***************************************************************************)
EXTENDS Enrolment, TLC

Symmetry == Permutations(Sessions)

=============================================================================
