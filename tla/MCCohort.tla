------------------------------ MODULE MCCohort ------------------------------
(***************************************************************************)
(* Cohort on small instances.                                              *)
(***************************************************************************)
EXTENDS Cohort

Interchangeable == Permutations(Participants) \cup Permutations(Sessions)
=============================================================================
